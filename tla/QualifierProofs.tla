----------------------------- MODULE QualifierProofs ---------------------------
(***************************************************************************)
(* Proofs about Qualifier: create_resources gives up only when it has to,  *)
(* the planners are combined in every way the selector admits, the verdict *)
(* on a suite is that of all scenarios in it, a success leaves nothing     *)
(* behind but what a planner hides, and no scenario fails by itself.       *)
(*                                                                         *)
(* The invariant follows the report of the running scenario beside those   *)
(* that have ended, the flights beside the IDs the scenario has kept, and  *)
(* what is left of the script beside the phase it is to run in; the lists  *)
(* on the stack are followed beside the scenarios that have run.           *)
(***************************************************************************)
EXTENDS Qualifier, SequenceTheorems, WellFoundedInduction, TLAPS

(***************************************************************************)
(* Calls and reports                                                       *)
(***************************************************************************)
CaseNames ==
    {"Setup", "Plan first flight", "Attempt second flight", "Plan priority flight",
     "Activate priority flight", "Attempt invalid flights", "Plan valid flight",
     "Start message signing", "Finalize message signing"}

PlannerCalls ==
    {"information", "support", "prerequisite", "clear_area", "inject", "inject_priority",
     "attempt_conflicting", "attempt_invalid", "find_op_intent", "get_full_op_intent"}

OtherCalls == {"get_status"}

\* The calls of a scenario with these planners
CallsOf(us) ==
    {<<m>> : m \in Methods \ {"begin_test_case"}}
    \cup ({"begin_test_case"} \X CaseNames)
    \cup (PlannerCalls \X ToSet(us))
    \cup (OtherCalls \X {None})

Severities == {"Medium", "High"}

Participants == PlannerSet \cup {None}

Phases ==
    {"Undefined", "NotStarted", "ReadyForTestCase", "ReadyForTestStep", "RunningTestStep",
     "ReadyForCleanup", "CleaningUp", "Complete"}

Frame == [actions : Seq(Nodes), next : Nat \ {0}, ok : BOOLEAN]

Report ==
    [cases : SUBSET CaseNames, failed : SUBSET Severities, error : BOOLEAN, ended : BOOLEAN,
     faulty : SUBSET Participants, blamed : SUBSET PlannerSet]

Entry ==
    [type : DOMAIN Roles, planners : Seq(PlannerSet), successful : BOOLEAN \cup {None},
     stale : SUBSET PlannerSet, crowded : BOOLEAN, faulty : SUBSET Participants,
     blamed : SUBSET PlannerSet, ended : BOOLEAN]

TypeInv ==
    /\ stack \in Seq(Frame)
    /\ node \in Nodes \cup {None}
    /\ phase \in Phases /\ report \in Report /\ known \in SUBSET PlannerSet
    /\ created \in [PlannerSet -> SUBSET Nat] /\ flights \in [PlannerSet -> SUBSET Nat]
    /\ ids \in Nat /\ faults \in Nat /\ hidden \in SUBSET Nat
    /\ log \in Seq(Entry)

(***************************************************************************)
(* create_resources                                                        *)
(***************************************************************************)
\* Resources that wait for each other, or for one that is not declared
Waiting(S) == \A r \in S : Needs(r) \cap S # {} \/ ~(Needs(r) \subseteq Names)

\* The declared resource can be made, or it is not its turn
Makable ==
    LET d == declared[scan] IN (d.name \notin pool /\ d.needs \subseteq pool) => d.valid

Made ==
    /\ stage \in {"resources", "run", "done", "failed"}
    /\ declared \in Declarations /\ pool \in SUBSET Names /\ scan \in Nat /\ made \in BOOLEAN
    /\ stage = "resources" => scan \in 1..(Len(declared) + 1)
    /\ \A S \in SUBSET Names : Waiting(S) => S \cap pool = {}
    /\ ~made => \A i \in 1..(scan - 1) : i \in DOMAIN declared =>
                    declared[i].name \in pool \/ ~(declared[i].needs \subseteq pool)
    /\ \A i \in DOMAIN declared : declared[i].name \in pool => declared[i].valid

(***************************************************************************)
(* Reports and the verdict                                                 *)
(***************************************************************************)
Ended == IF node = None THEN DOMAIN log ELSE DOMAIN log \ {Len(log)}

\* The reports of the scenarios that have ended are final, the last may be open
Reports ==
    /\ \A i \in Ended : log[i].successful \in BOOLEAN
    /\ node # None =>
          /\ node.kind = "scenario"
          /\ Len(log) > 0 /\ log[Len(log)].successful = None
          /\ log[Len(log)].type = node.type
          /\ stack # <<>>
    /\ stage = "resources" => node = None
    /\ stage \in {"resources", "run"} =>
          /\ stack # <<>>
          /\ (\A k \in DOMAIN stack : stack[k].ok) <=> (\A i \in Ended : log[i].successful)

(***************************************************************************)
(* The running scenario                                                    *)
(***************************************************************************)
\* The helper of a test step that is left is in a test step
Closed(s) ==
    \A i \in 1..Len(s) : s[i][1] \in {"find_op_intent", "get_full_op_intent"} =>
        \E j \in 1..Len(s) : i < j /\ s[j][1] = "end_test_step"

Cleaning ==
    /\ node # None => script \in Seq(CallsOf(node.planners)) /\ Closed(script)
    /\ node = None => script = <<>> /\ to_remove = None
    /\ phase \in {"CleaningUp", "Complete"} => script = <<>>
    /\ phase = "CleaningUp" => sweep \in Seq(PlannerSet)
    /\ phase # "CleaningUp" => to_remove = None
    /\ to_remove # None => sweep # <<>> /\ to_remove \in SUBSET Nat

Spoiled == report.error \/ report.failed # {}

\* No scenario has failed, nor is about to
Unspoiled ==
    /\ \A i \in Ended : log[i].successful
    /\ node # None => ~Spoiled

\* As long as none has, every flight is hidden or one whose ID is kept, at a
\* planner of the scenario, and the cleanup comes to it
Clean ==
    Unspoiled =>
        /\ \A u \in PlannerSet :
              /\ flights[u] \subseteq created[u] \cup hidden
              /\ created[u] # {} => /\ node # None /\ u \in ToSet(node.planners)
                                    /\ phase # "Complete"
                                    /\ phase = "CleaningUp" => u \in ToSet(sweep)
        /\ to_remove # None => to_remove = created[Head(sweep)]

(***************************************************************************)
(* Scripts: the phase each call expects and leaves, and what precedes what *)
(***************************************************************************)
Before(c) ==
    CASE c[1] = "begin_test_scenario" -> "NotStarted"
      [] c[1] \in {"begin_test_case", "end_test_scenario"} -> "ReadyForTestCase"
      [] c[1] \in {"begin_test_step", "end_test_case"} -> "ReadyForTestStep"
      [] OTHER -> "RunningTestStep"

Afterwards(c) ==
    CASE c[1] = "end_test_scenario" -> "ReadyForCleanup"
      [] c[1] \in {"begin_test_scenario", "end_test_case"} -> "ReadyForTestCase"
      [] c[1] \in {"begin_test_case", "end_test_step"} -> "ReadyForTestStep"
      [] OTHER -> "RunningTestStep"

\* Calls that lead from a phase to another, each in the phase it expects
Chain(s, from, to) ==
    /\ s = <<>> => from = to
    /\ s # <<>> => Before(s[1]) = from /\ Afterwards(s[Len(s)]) = to
    /\ \A i \in 1..(Len(s) - 1) : Afterwards(s[i]) = Before(s[i + 1])

\* Test cases and what is asked of the planners have an order
Weight(c) ==
    CASE c[1] = "begin_test_case" ->
            (CASE c[2] \in {"Setup", "Start message signing", "Finalize message signing"} -> 1
               [] c[2] = "Attempt invalid flights" -> 6
               [] c[2] \in {"Plan first flight", "Plan valid flight"} -> 7
               [] c[2] \in {"Attempt second flight", "Plan priority flight"} -> 9
               [] OTHER -> 11)
      [] c[1] = "information" -> 2
      [] c[1] = "support" -> 3
      [] c[1] = "prerequisite" -> 4
      [] c[1] = "clear_area" -> 5
      [] c[1] = "inject" -> 8
      [] c[1] = "inject_priority" -> 10
      [] c[1] = "attempt_conflicting" -> 12
      [] OTHER -> 0

\* Planners are asked, supported and cleared one after the other, what else has
\* a place in the order happens once
MayPrecede(m, n) == m = 0 \/ n = 0 \/ m < n \/ (m = n /\ m \in 2..5)

Ordered(s) == \A i, j \in 1..Len(s) : i < j => MayPrecede(Weight(s[i]), Weight(s[j]))

\* A flight is still to be planned, or no area is cleared any more
Backed(s) == \E u : <<"inject", u>> \in ToSet(s)
Uncleared(s) == \A c \in ToSet(s) : c[1] # "clear_area"

\* What the rest of a script needs has been done, or is done by it before
Prepared(s) ==
    \A c \in ToSet(s) :
        /\ c[1] = "begin_test_case" => c[2] \notin report.cases
        /\ c[1] \in {"support", "prerequisite"} => c[2] \in known \/ <<"information", c[2]>> \in ToSet(s)
        /\ c[1] = "clear_area" => created[c[2]] = {}
        /\ c[1] = "inject" => \A u \in PlannerSet : flights[u] = {} \/ <<"clear_area", u>> \in ToSet(s)
        /\ c[1] = "attempt_conflicting" => Backed(s) \/ (Occupied /\ Uncleared(s))

\* Nothing that could excuse a failure of the running scenario
Inexcusable ==
    /\ node # None /\ report.faulty = {}
    /\ log[Len(log)].stale = {} /\ ~log[Len(log)].crowded
    /\ node.type = "Validation" => Invalid = 1

Blameless ==
    Inexcusable =>
        /\ ~Spoiled
        /\ \A u \in PlannerSet : /\ u \in ToSet(node.planners) => created[u] \subseteq flights[u]
                                 /\ u \notin ToSet(node.planners) => flights[u] = {}
        /\ to_remove # None => to_remove \subseteq created[Head(sweep)] /\ Head(sweep) \in ToSet(node.planners)
        /\ phase = "CleaningUp" => ToSet(sweep) \subseteq ToSet(node.planners)
        /\ script # <<>> =>
              Chain(script, phase, "ReadyForCleanup") /\ Ordered(script) /\ Prepared(script)

\* The layers of the invariant, each kept by the steps that keep those above
Shape == TypeInv /\ Cleaning /\ Reports /\ VerdictOfReports

Justified == Blameless /\ FailuresJustified

-----------------------------------------------------------------------------
(***************************************************************************)
(* create_resources                                                        *)
(***************************************************************************)

\* A resource is named by its declaration and needs what that says, because no
\* name is declared twice
LEMMA Declared ==
    ASSUME declared \in Declarations, NEW i \in DOMAIN declared
    PROVE  declared[i].name \in Names /\ Needs(declared[i].name) = declared[i].needs
<1>1. {j \in DOMAIN declared : declared[j].name = declared[i].name} = {i}
  BY DeclarationsAssumption
<1> QED
  BY <1>1 DEF Needs, Names

\* Declarations are numbered
LEMMA Numbered ==
    ASSUME declared \in Declarations
    PROVE  Len(declared) \in Nat /\ DOMAIN declared = 1..Len(declared)
<1>1. declared \in Seq(ToSet(declared))
  BY DeclarationsAssumption
<1> QED
  BY <1>1

\* Nothing has been made at first
LEMMA InitMade == Init => Made /\ ResourcesMade
<1> SUFFICES ASSUME Init PROVE Made /\ ResourcesMade
  OBVIOUS
<1>1. declared \in Declarations /\ Len(declared) \in Nat
  BY Numbered DEF Init
<1>2. /\ stage = "resources" /\ pool = {} /\ scan = 1 /\ made = FALSE
  BY DEF Init
<1>3. 1..(scan - 1) = {} /\ scan \in 1..(Len(declared) + 1) /\ scan \in Nat
  BY <1>1, <1>2
<1>4. Made
  BY <1>1, <1>2, <1>3 DEF Made
<1> QED
  BY <1>2, <1>4 DEF ResourcesMade

\* A resource that cannot be made is the reason to give up
LEMMA RaiseKeepsMade ==
    ASSUME Made, ResourcesMade, stage = "resources", stage' = "failed", UNCHANGED setup,
           scan \in DOMAIN declared, ~declared[scan].valid
    PROVE  Made' /\ ResourcesMade'
<1>1. declared' = declared /\ pool' = pool /\ scan' = scan /\ made' = made
  BY DEF setup
<1>2. Names' = Names /\ Stuck' = Stuck /\ \A S : Waiting(S)' = Waiting(S)
  BY <1>1 DEF Names, Stuck, Needs, Waiting
<1>3. Made'
  <2>1. \A S \in SUBSET Names' : Waiting(S)' => S \cap pool' = {}
    BY <1>1, <1>2 DEF Made
  <2>2. ~made' => \A i \in 1..(scan' - 1) : i \in DOMAIN declared' =>
                      declared'[i].name \in pool' \/ ~(declared'[i].needs \subseteq pool')
    BY <1>1 DEF Made
  <2>3. \A i \in DOMAIN declared' : declared'[i].name \in pool' => declared'[i].valid
    BY <1>1 DEF Made
  <2>4. declared' \in Declarations /\ pool' \in SUBSET Names' /\ scan' \in Nat /\ made' \in BOOLEAN
    BY <1>1, <1>2 DEF Made
  <2> QED
    BY <2>1, <2>2, <2>3, <2>4 DEF Made
<1>4. ResourcesMade'
  BY <1>1 DEF ResourcesMade
<1> QED
  BY <1>3, <1>4

\* A resource that is made waits for none: it belongs to no set of resources
\* that wait for each other
LEMMA MakingKeepsMade ==
    ASSUME Made, ResourcesMade, MakeResource, Makable
    PROVE  Made' /\ ResourcesMade'
<1> DEFINE d == declared[scan]
           ready == d.name \notin pool /\ d.needs \subseteq pool
<1>1. /\ stage = "resources" /\ stage' = "resources" /\ declared' = declared
      /\ scan \in 1..Len(declared) /\ scan' = scan + 1
      /\ pool' = (IF ready THEN pool \cup {d.name} ELSE pool)
      /\ made' = (made \/ ready)
  BY Numbered DEF MakeResource, Made, Makable
<1>2. Len(declared) \in Nat /\ DOMAIN declared = 1..Len(declared)
  BY Numbered DEF Made
<1>3. d.name \in Names /\ Needs(d.name) = d.needs
  BY <1>1, <1>2, Declared DEF Made
<1>4. Names' = Names /\ \A r : Needs(r)' = Needs(r)
  BY <1>1 DEF Names, Needs
<1>5. ASSUME NEW S \in SUBSET Names, Waiting(S) PROVE S \cap pool' = {}
  <2>1. S \cap pool = {}
    BY <1>5 DEF Made
  <2>2. CASE ~ready
    BY <1>1, <2>1, <2>2
  <2>3. CASE ready
    <3>1. d.name \notin S
      BY <1>3, <1>5, <2>1, <2>3 DEF Waiting, Made
    <3> QED
      BY <1>1, <2>1, <2>3, <3>1
  <2> QED
    BY <2>2, <2>3
<1>6. \A S \in SUBSET Names' : Waiting(S)' => S \cap pool' = {}
  BY <1>4, <1>5 DEF Waiting
<1>7. ASSUME ~made', NEW i \in 1..(scan' - 1), i \in DOMAIN declared
      PROVE  declared[i].name \in pool' \/ ~(declared[i].needs \subseteq pool')
  <2>1. ~made /\ ~ready /\ pool' = pool
    BY <1>1, <1>7
  <2>2. CASE i = scan
    BY <2>1, <2>2
  <2>3. CASE i # scan
    <3>1. i \in 1..(scan - 1)
      BY <1>1, <1>2, <2>3
    <3> QED
      BY <1>7, <2>1, <3>1 DEF Made
  <2> QED
    BY <2>2, <2>3
<1>8. pool' \in SUBSET Names' /\ made' \in BOOLEAN /\ scan' \in Nat /\ scan' \in 1..(Len(declared') + 1)
  <2>1. pool' \in SUBSET Names'
    BY <1>1, <1>3, <1>4 DEF Made
  <2>2. made' \in BOOLEAN
    BY <1>1
  <2> QED
    BY <1>1, <1>2, <2>1, <2>2
<1>9. \A i \in DOMAIN declared' : declared'[i].name \in pool' => declared'[i].valid
  <2>1. ASSUME NEW i \in DOMAIN declared, declared[i].name \in pool' PROVE declared[i].valid
    <3>1. CASE declared[i].name \in pool
      BY <3>1 DEF Made
    <3>2. CASE declared[i].name \notin pool
      <4>1. ready /\ declared[i].name = d.name
        BY <1>1, <2>1, <3>2
      <4>2. i = scan
        BY <1>1, <1>2, <4>1, DeclarationsAssumption DEF Made
      <4> QED
        BY <4>1, <4>2 DEF Makable
    <3> QED
      BY <3>1, <3>2
  <2> QED
    BY <1>1, <2>1
<1>10. Made'
  BY <1>1, <1>6, <1>7, <1>8, <1>9 DEF Made
<1> QED
  BY <1>1, <1>10 DEF ResourcesMade

\* A resource is made, or the reason to give up
LEMMA MakeResourceKeepsMade ==
    ASSUME Made, ResourcesMade, MakeResource
    PROVE  Made' /\ ResourcesMade'
<1>1. scan \in 1..Len(declared) /\ DOMAIN declared = 1..Len(declared) /\ stage = "resources"
  BY Numbered DEF MakeResource, Made
<1>2. CASE Makable
  BY <1>2, MakingKeepsMade
<1>3. CASE ~Makable
  <2>1. stage' = "failed" /\ UNCHANGED setup /\ ~declared[scan].valid
    BY <1>3 DEF MakeResource, setup, Makable
  <2> QED
    BY <1>1, <2>1, RaiseKeepsMade
<1> QED
  BY <1>2, <1>3

\* A pass that has made nothing has left only resources that wait for each
\* other, or for one that is not declared
LEMMA EndPassKeepsMade ==
    ASSUME Made, ResourcesMade, EndPass
    PROVE  Made' /\ ResourcesMade'
<1>1. /\ stage = "resources" /\ scan > Len(declared)
      /\ declared' = declared /\ pool' = pool
  BY DEF EndPass
<1>2. Len(declared) \in Nat /\ DOMAIN declared = 1..Len(declared)
  BY Numbered DEF Made
<1>3. scan = Len(declared) + 1
  BY <1>1, <1>2 DEF Made
<1>4. /\ Names' = Names /\ \A r : Needs(r)' = Needs(r)
      /\ \A S : Waiting(S)' = Waiting(S)
  BY <1>1 DEF Names, Needs, Waiting
<1>5. Stuck' = Stuck
  BY <1>1 DEF Stuck, Names, Needs
<1>6. \A S \in SUBSET Names' : Waiting(S)' => S \cap pool' = {}
  BY <1>1, <1>4 DEF Made
<1>7. pool' \in SUBSET Names'
  BY <1>1, <1>4 DEF Made
<1>a. \A i \in DOMAIN declared' : declared'[i].name \in pool' => declared'[i].valid
  BY <1>1 DEF Made
<1>8. CASE made
  <2>1. scan' = 1 /\ made' = FALSE /\ stage' = stage
    BY <1>8 DEF EndPass
  <2>2. 1..(scan' - 1) = {} /\ scan' \in 1..(Len(declared') + 1) /\ scan' \in Nat
    BY <1>1, <1>2, <2>1
  <2>3. declared' \in Declarations /\ stage' = "resources" /\ made' \in BOOLEAN
    BY <1>1, <2>1 DEF Made
  <2>4. Made'
    BY <1>6, <1>7, <1>a, <2>2, <2>3 DEF Made
  <2> QED
    BY <2>3, <2>4 DEF ResourcesMade
<1>9. CASE ~made
  <2>1. stage' = (IF pool = Names THEN "run" ELSE "failed") /\ scan' = scan /\ made' = made
    BY <1>9 DEF EndPass
  <2>2. Made'
    <3>1. \A i \in 1..(scan' - 1) : i \in DOMAIN declared' =>
             declared'[i].name \in pool' \/ ~(declared'[i].needs \subseteq pool')
      BY <1>1, <1>9, <2>1 DEF Made
    <3>2. stage' \in {"run", "failed"} /\ scan' \in Nat /\ made' \in BOOLEAN /\ declared' \in Declarations
      BY <1>1, <2>1 DEF Made
    <3> QED
      BY <1>6, <1>7, <1>a, <3>1, <3>2 DEF Made
  <2>3. CASE pool = Names
    <3>1. ~Stuck
      <4>1. SUFFICES ASSUME NEW S \in SUBSET Names, S # {}, Waiting(S) PROVE FALSE
        BY DEF Stuck, Waiting
      <4> QED
        BY <2>3, <4>1 DEF Made
    <3>2. \A i \in DOMAIN declared : declared[i].valid
      BY <2>3 DEF Made, Names
    <3> QED
      BY <1>1, <1>4, <1>5, <2>1, <2>2, <2>3, <3>1, <3>2 DEF ResourcesMade
  <2>4. CASE pool # Names
    <3> DEFINE S == Names \ pool
    <3>1. S \in SUBSET Names /\ S # {}
      BY <2>4 DEF Made
    <3>2. ASSUME NEW r \in S PROVE Needs(r) \cap S # {} \/ ~(Needs(r) \subseteq Names)
      <4>1. PICK i \in DOMAIN declared : declared[i].name = r
        BY DEF Names
      <4>2. i \in 1..(scan - 1)
        BY <1>2, <1>3
      <4>3. ~(declared[i].needs \subseteq pool)
        BY <1>9, <4>1, <4>2 DEF Made
      <4>4. Needs(r) = declared[i].needs
        BY <4>1, Declared DEF Made
      <4> QED
        BY <4>3, <4>4
    <3>3. Stuck
      BY <3>1, <3>2 DEF Stuck
    <3> QED
      BY <1>5, <2>1, <2>2, <2>4, <3>3 DEF ResourcesMade
  <2> QED
    BY <2>3, <2>4
<1> QED
  BY <1>8, <1>9

\* What is made is kept once the suite runs
LEMMA SetupKeepsMade ==
    ASSUME Made, ResourcesMade, UNCHANGED setup,
           stage' = stage \/ (stage = "run" /\ stage' = "done")
    PROVE  Made' /\ ResourcesMade'
<1>1. declared' = declared /\ pool' = pool /\ scan' = scan /\ made' = made
  BY DEF setup
<1>2. Names' = Names /\ Stuck' = Stuck
  BY <1>1 DEF Names, Stuck, Needs
<1>3. \A S : Waiting(S)' = Waiting(S)
  BY <1>1 DEF Waiting, Names, Needs
<1>4. Made'
  <2>1. \A S \in SUBSET Names' : Waiting(S)' => S \cap pool' = {}
    BY <1>1, <1>2, <1>3 DEF Made
  <2>2. ~made' => \A i \in 1..(scan' - 1) : i \in DOMAIN declared' =>
                      declared'[i].name \in pool' \/ ~(declared'[i].needs \subseteq pool')
    BY <1>1 DEF Made
  <2>3. /\ stage' \in {"resources", "run", "done", "failed"}
        /\ stage' = "resources" => scan' \in 1..(Len(declared') + 1)
    BY <1>1 DEF Made
  <2>4. declared' \in Declarations /\ pool' \in SUBSET Names' /\ scan' \in Nat /\ made' \in BOOLEAN
    BY <1>1, <1>2 DEF Made
  <2>5. \A i \in DOMAIN declared' : declared'[i].name \in pool' => declared'[i].valid
    BY <1>1 DEF Made
  <2> QED
    BY <2>1, <2>2, <2>3, <2>4, <2>5 DEF Made
<1>5. ResourcesMade'
  BY <1>1, <1>2 DEF ResourcesMade
<1> QED
  BY <1>4, <1>5

\* Only create_resources touches the resources, and only then does the suite run
LEMMA NextKeepsMade ==
    ASSUME Made, ResourcesMade, [Next]_vars
    PROVE  Made' /\ ResourcesMade'
<1>1. CASE MakeResource
  BY <1>1, MakeResourceKeepsMade
<1>2. CASE EndPass
  BY <1>2, EndPassKeepsMade
<1>3. CASE RunAction \/ EndScenario \/ EndActions
  <2>1. UNCHANGED setup
    BY <1>3 DEF RunAction, EndScenario, EndActions
  <2>2. stage' = stage \/ (stage = "run" /\ stage' = "done")
    BY <1>3 DEF RunAction, EndScenario, EndActions, Idle
  <2> QED
    BY <2>1, <2>2, SetupKeepsMade
<1>4. CASE \/ begin_test_scenario \/ begin_test_case \/ begin_test_step
           \/ end_test_step \/ end_test_case \/ end_test_scenario
  <2>1. UNCHANGED setup /\ stage' = stage
    BY <1>4 DEF begin_test_scenario, begin_test_case, begin_test_step, end_test_step,
                end_test_case, end_test_scenario, Method
  <2> QED
    BY <2>1, SetupKeepsMade
<1>5. CASE Query \/ go_to_cleanup \/ CleanupPlanner \/ cleanup_flight \/ NextPlanner \/ end_cleanup
  <2>1. UNCHANGED setup /\ stage' = stage
    BY <1>5 DEF Query, go_to_cleanup, CleanupPlanner, cleanup_flight, NextPlanner, end_cleanup
  <2> QED
    BY <2>1, SetupKeepsMade
<1>6. CASE Exit \/ UNCHANGED vars
  <2>1. UNCHANGED setup /\ stage' = stage
    BY <1>6 DEF Exit, vars
  <2> QED
    BY <2>1, SetupKeepsMade
<1> QED
  BY <1>1, <1>2, <1>3, <1>4, <1>5, <1>6 DEF Next, Progress

\* create_resources gives up only on resources that wait for each other or for
\* one that is not declared, or on one that cannot be made, whatever is declared
\* and in whatever order (resource.py:42-119)
THEOREM ResourcesAlwaysMade == Spec => []ResourcesMade
<1>1. Init => Made /\ ResourcesMade
  BY InitMade
<1>2. (Made /\ ResourcesMade) /\ [Next]_vars => (Made /\ ResourcesMade)'
  BY NextKeepsMade
<1> QED
  BY <1>1, <1>2, PTL DEF Spec

-----------------------------------------------------------------------------
(***************************************************************************)
(* Sequences                                                               *)
(***************************************************************************)

\* What is left of a sequence after its first elements
LEMMA Suffix ==
    ASSUME NEW C, NEW s \in Seq(C), NEW k \in 1..Len(s)
    PROVE  LET t == SubSeq(s, k + 1, Len(s))
           IN /\ t \in Seq(C) /\ Len(t) = Len(s) - k
              /\ \A i \in 1..Len(t) : t[i] = s[i + k]
<1> DEFINE t == SubSeq(s, k + 1, Len(s))
<1>1. Len(s) \in Nat /\ k \in Nat /\ k <= Len(s)
  OBVIOUS
<1>2. \A i \in (k + 1)..Len(s) : s[i] \in C
  BY <1>1
<1>3. t \in Seq(C) /\ Len(t) = (IF k + 1 <= Len(s) THEN Len(s) - (k + 1) + 1 ELSE 0)
  BY <1>1, <1>2, SubSeqProperties
<1>4. \A i \in 1..Len(t) : t[i] = s[i + k]
  <2>1. ASSUME NEW i \in 1..Len(t) PROVE t[i] = s[(k + 1) + i - 1]
    BY <1>1, <1>3
  <2>2. ASSUME NEW i \in 1..Len(t) PROVE (k + 1) + i - 1 = i + k
    BY <1>1
  <2> QED
    BY <2>1, <2>2
<1> QED
  BY <1>1, <1>3, <1>4

\* What is left of a sequence after its head
LEMMA Rest ==
    ASSUME NEW C, NEW s \in Seq(C), s # <<>>
    PROVE  /\ Head(s) \in C /\ Head(s) = s[1] /\ Len(s) \in Nat /\ Len(s) > 0
           /\ Tail(s) \in Seq(C) /\ Len(Tail(s)) = Len(s) - 1
           /\ \A i \in 1..Len(Tail(s)) : Tail(s)[i] = s[i + 1]
           /\ ToSet(s) = {Head(s)} \cup ToSet(Tail(s))
<1>1. /\ Head(s) \in C /\ Head(s) = s[1] /\ Len(s) \in Nat /\ Len(s) > 0
      /\ Tail(s) \in Seq(C) /\ Len(Tail(s)) = Len(s) - 1
      /\ DOMAIN s = 1..Len(s) /\ DOMAIN Tail(s) = 1..Len(Tail(s))
  OBVIOUS
<1>2. \A i \in 1..Len(Tail(s)) : Tail(s)[i] = s[i + 1]
  BY <1>1
<1>3. \A i \in 1..Len(s) : i = 1 \/ (i - 1 \in 1..Len(Tail(s)) /\ s[i] = Tail(s)[i - 1])
  BY <1>1, <1>2
<1>4. \A i \in 1..Len(Tail(s)) : i + 1 \in 1..Len(s)
  BY <1>1
<1>5. ASSUME NEW c \in ToSet(s) PROVE c = Head(s) \/ c \in ToSet(Tail(s))
  <2>1. PICK i \in 1..Len(s) : s[i] = c
    BY <1>1 DEF ToSet
  <2>2. CASE i = 1
    BY <1>1, <2>1, <2>2
  <2>3. CASE i # 1
    <3>1. i - 1 \in DOMAIN Tail(s) /\ Tail(s)[i - 1] = c
      BY <1>1, <1>3, <2>1, <2>3
    <3> QED
      BY <3>1 DEF ToSet
  <2> QED
    BY <2>2, <2>3
<1>6. ToSet(Tail(s)) \subseteq ToSet(s)
  BY <1>1, <1>2, <1>4 DEF ToSet
<1>7. Head(s) \in ToSet(s)
  BY <1>1 DEF ToSet
<1> QED
  BY <1>1, <1>2, <1>5, <1>6, <1>7

\* What a sequence holds
LEMMA Held ==
    ASSUME NEW C, NEW s \in Seq(C)
    PROVE  /\ ToSet(s) \subseteq C
           /\ \A i \in 1..Len(s) : s[i] \in ToSet(s)
           /\ \A c \in ToSet(s) : \E i \in 1..Len(s) : s[i] = c
BY DEF ToSet

\* Nothing
LEMMA HeldByNone == ToSet(<<>>) = {} /\ Len(<<>>) = 0 /\ \A C : <<>> \in Seq(C)
BY DEF ToSet

\* One call
LEMMA One ==
    ASSUME NEW C, NEW c \in C
    PROVE  <<c>> \in Seq(C) /\ Len(<<c>>) = 1 /\ <<c>>[1] = c /\ ToSet(<<c>>) = {c}
<1>1. <<c>> \in Seq(C) /\ Len(<<c>>) = 1 /\ <<c>>[1] = c /\ DOMAIN <<c>> = {1}
  OBVIOUS
<1> QED
  BY <1>1 DEF ToSet

\* Sequences after each other
LEMMA Joined ==
    ASSUME NEW C, NEW s \in Seq(C), NEW t \in Seq(C)
    PROVE  /\ s \o t \in Seq(C) /\ Len(s \o t) = Len(s) + Len(t)
           /\ \A i \in 1..Len(s) : (s \o t)[i] = s[i]
           /\ \A i \in 1..Len(t) : (s \o t)[Len(s) + i] = t[i]
           /\ \A i \in 1..Len(s \o t) :
                 i \in 1..Len(s) \/ (i - Len(s) \in 1..Len(t) /\ (s \o t)[i] = t[i - Len(s)])
           /\ ToSet(s \o t) = ToSet(s) \cup ToSet(t)
<1>1. /\ s \o t \in Seq(C) /\ Len(s \o t) = Len(s) + Len(t)
      /\ Len(s) \in Nat /\ Len(t) \in Nat
      /\ DOMAIN s = 1..Len(s) /\ DOMAIN t = 1..Len(t) /\ DOMAIN (s \o t) = 1..Len(s \o t)
  OBVIOUS
<1>2. /\ \A i \in 1..Len(s) : (s \o t)[i] = s[i]
      /\ \A i \in 1..Len(t) : (s \o t)[Len(s) + i] = t[i]
  OBVIOUS
<1>3. ASSUME NEW i \in 1..Len(s \o t), i \notin 1..Len(s)
      PROVE  i - Len(s) \in 1..Len(t) /\ (s \o t)[i] = t[i - Len(s)]
  <2>1. i - Len(s) \in 1..Len(t) /\ Len(s) + (i - Len(s)) = i
    BY <1>1, <1>3
  <2> QED
    BY <1>2, <2>1
<1>4. /\ \A i \in 1..Len(s) : i \in 1..Len(s \o t)
      /\ \A i \in 1..Len(t) : Len(s) + i \in 1..Len(s \o t)
  BY <1>1
<1>5. ToSet(s \o t) \subseteq ToSet(s) \cup ToSet(t)
  BY <1>1, <1>2, <1>3 DEF ToSet
<1>6. ToSet(s) \subseteq ToSet(s \o t) /\ ToSet(t) \subseteq ToSet(s \o t)
  BY <1>1, <1>2, <1>4 DEF ToSet
<1> QED
  BY <1>1, <1>2, <1>3, <1>5, <1>6

\* cleanup_flights takes the same planners
LEMMA Reversed ==
    ASSUME NEW C, NEW s \in Seq(C)
    PROVE  Reverse(s) \in Seq(C) /\ ToSet(Reverse(s)) = ToSet(s)
<1>1. /\ Reverse(s) = [i \in 1..Len(s) |-> s[(Len(s) - i) + 1]]
      /\ Len(s) \in Nat /\ DOMAIN s = 1..Len(s)
  BY DEF Reverse
<1>2. \A i \in 1..Len(s) : (Len(s) - i) + 1 \in 1..Len(s) /\ (Len(s) - ((Len(s) - i) + 1)) + 1 = i
  BY <1>1
<1>3. Reverse(s) \in Seq(C)
  BY <1>1, <1>2
<1>4. DOMAIN Reverse(s) = 1..Len(s) /\ \A i \in 1..Len(s) : Reverse(s)[i] = s[(Len(s) - i) + 1]
  BY <1>1
<1>5. ToSet(Reverse(s)) \subseteq ToSet(s)
  BY <1>1, <1>2, <1>4 DEF ToSet
<1>6. ToSet(s) \subseteq ToSet(Reverse(s))
  <2>1. ASSUME NEW i \in 1..Len(s) PROVE \E j \in 1..Len(s) : Reverse(s)[j] = s[i]
    <3>1. (Len(s) - i) + 1 \in 1..Len(s) /\ Reverse(s)[(Len(s) - i) + 1] = s[i]
      BY <1>2, <1>4
    <3> QED
      BY <3>1
  <2>2. ASSUME NEW c \in ToSet(s) PROVE c \in ToSet(Reverse(s))
    <3>1. PICK i \in 1..Len(s) : s[i] = c
      BY <1>1 DEF ToSet
    <3>2. PICK j \in 1..Len(s) : Reverse(s)[j] = c
      BY <2>1, <3>1
    <3> QED
      BY <1>4, <3>2 DEF ToSet
  <2> QED
    BY <2>2
<1> QED
  BY <1>3, <1>5, <1>6

\* A set of natural numbers has a least one
LEMMA LeastNatural ==
    ASSUME NEW S \in SUBSET Nat, S # {}
    PROVE  \E n \in S : \A m \in S : n <= m
<1> DEFINE R == OpToRel(<, Nat)
<1>1. IsWellFoundedOn(OpToRel(<, Nat), Nat)
  BY NatLessThanWellFounded
<1>2. \A m, n \in Nat : m < n => <<m, n>> \in R
  BY DEF OpToRel
<1> HIDE DEF R
<1>3. IsWellFoundedOn(R, Nat)
  BY <1>1 DEF R
<1>4. PICK n \in S : \A m \in S : ~(<<m, n>> \in R)
  BY <1>3, WFMin
<1>5. ASSUME NEW m \in S PROVE n <= m
  <2>1. m \in Nat /\ n \in Nat
    OBVIOUS
  <2>2. ~(m < n)
    BY <1>2, <1>4, <2>1
  <2> QED
    BY <2>1, <2>2
<1> QED
  BY <1>5

\* cleanup_flights takes flights the planner still has to remove
LEMMA Least ==
    ASSUME NEW S \in SUBSET Nat, S # {}
    PROVE  Min(S) \in S
<1>1. \E n \in S : \A m \in S : n <= m
  BY LeastNatural
<1> QED
  BY <1>1 DEF Min

-----------------------------------------------------------------------------
(***************************************************************************)
(* Scripts                                                                 *)
(***************************************************************************)
Formed(s, us) == s \in Seq(CallsOf(us)) /\ Closed(s)

Within(s, lo, hi) ==
    \A i \in 1..Len(s) : Weight(s[i]) = 0 \/ (lo <= Weight(s[i]) /\ Weight(s[i]) <= hi)

\* A part of a script that leads from a phase to another, and what of the order
\* is in it
Part(s, us, from, to, lo, hi) ==
    s \in Seq(CallsOf(us)) /\ Chain(s, from, to) /\ Ordered(s) /\ Within(s, lo, hi)

\* Every call has a place in the order, or none
LEMMA Weighed == \A c : Weight(c) \in Nat
BY DEF Weight

\* The weights of the calls and the test cases
LEMMA Weights ==
    /\ \A u : /\ Weight(<<"information", u>>) = 2 /\ Weight(<<"support", u>>) = 3
              /\ Weight(<<"prerequisite", u>>) = 4 /\ Weight(<<"clear_area", u>>) = 5
              /\ Weight(<<"inject", u>>) = 8 /\ Weight(<<"inject_priority", u>>) = 10
    /\ \A u : /\ Weight(<<"attempt_conflicting", u>>) = 12 /\ Weight(<<"attempt_invalid", u>>) = 0
              /\ Weight(<<"find_op_intent", u>>) = 0 /\ Weight(<<"get_full_op_intent", u>>) = 0
              /\ Weight(<<"get_status", u>>) = 0
    /\ \A m \in Methods \ {"begin_test_case"} : Weight(<<m>>) = 0
<1>1. \A u : /\ Weight(<<"information", u>>) = 2 /\ Weight(<<"support", u>>) = 3
             /\ Weight(<<"prerequisite", u>>) = 4 /\ Weight(<<"clear_area", u>>) = 5
             /\ Weight(<<"inject", u>>) = 8 /\ Weight(<<"inject_priority", u>>) = 10
  BY DEF Weight
<1>2. \A u : /\ Weight(<<"attempt_conflicting", u>>) = 12 /\ Weight(<<"attempt_invalid", u>>) = 0
             /\ Weight(<<"find_op_intent", u>>) = 0 /\ Weight(<<"get_full_op_intent", u>>) = 0
             /\ Weight(<<"get_status", u>>) = 0
  BY DEF Weight
<1>3. \A m \in Methods \ {"begin_test_case"} : Weight(<<m>>) = 0
  BY DEF Weight, Methods
<1> QED
  BY <1>1, <1>2, <1>3

\* The weights of the test cases
LEMMA CaseWeights ==
    /\ Weight(<<"begin_test_case", "Setup">>) = 1
    /\ Weight(<<"begin_test_case", "Start message signing">>) = 1
    /\ Weight(<<"begin_test_case", "Finalize message signing">>) = 1
    /\ Weight(<<"begin_test_case", "Attempt invalid flights">>) = 6
    /\ Weight(<<"begin_test_case", "Plan first flight">>) = 7
    /\ Weight(<<"begin_test_case", "Plan valid flight">>) = 7
    /\ Weight(<<"begin_test_case", "Attempt second flight">>) = 9
    /\ Weight(<<"begin_test_case", "Plan priority flight">>) = 9
    /\ Weight(<<"begin_test_case", "Activate priority flight">>) = 11
BY DEF Weight

\* Test cases happen once
LEMMA CasesOnce ==
    \A c : c[1] = "begin_test_case" => Weight(c) \in {1, 6, 7, 9, 11}
BY DEF Weight

\* A second flight is attempted after all else
LEMMA ConflictsLast ==
    \A c : c[1] = "attempt_conflicting" => Weight(c) = 12
BY DEF Weight

\* The phases of the calls
LEMMA PhasesOfCalls ==
    /\ \A q \in PlannerCalls \cup OtherCalls : \A u :
          Before(<<q, u>>) = "RunningTestStep" /\ Afterwards(<<q, u>>) = "RunningTestStep"
    /\ \A n : /\ Before(<<"begin_test_case", n>>) = "ReadyForTestCase"
              /\ Afterwards(<<"begin_test_case", n>>) = "ReadyForTestStep"
    /\ Before(<<"begin_test_scenario">>) = "NotStarted"
    /\ Afterwards(<<"begin_test_scenario">>) = "ReadyForTestCase"
    /\ Before(<<"begin_test_step">>) = "ReadyForTestStep"
    /\ Afterwards(<<"begin_test_step">>) = "RunningTestStep"
    /\ Before(<<"end_test_step">>) = "RunningTestStep"
    /\ Afterwards(<<"end_test_step">>) = "ReadyForTestStep"
    /\ Before(<<"end_test_case">>) = "ReadyForTestStep"
    /\ Afterwards(<<"end_test_case">>) = "ReadyForTestCase"
    /\ Before(<<"end_test_scenario">>) = "ReadyForTestCase"
    /\ Afterwards(<<"end_test_scenario">>) = "ReadyForCleanup"
<1>1. \A q \in PlannerCalls \cup OtherCalls : \A u :
         Before(<<q, u>>) = "RunningTestStep" /\ Afterwards(<<q, u>>) = "RunningTestStep"
  BY DEF Before, Afterwards, PlannerCalls, OtherCalls
<1>2. \A n : /\ Before(<<"begin_test_case", n>>) = "ReadyForTestCase"
             /\ Afterwards(<<"begin_test_case", n>>) = "ReadyForTestStep"
  BY DEF Before, Afterwards
<1>3. /\ Before(<<"begin_test_scenario">>) = "NotStarted"
      /\ Afterwards(<<"begin_test_scenario">>) = "ReadyForTestCase"
      /\ Before(<<"begin_test_step">>) = "ReadyForTestStep"
      /\ Afterwards(<<"begin_test_step">>) = "RunningTestStep"
      /\ Before(<<"end_test_step">>) = "RunningTestStep"
      /\ Afterwards(<<"end_test_step">>) = "ReadyForTestStep"
  BY DEF Before, Afterwards
<1>4. /\ Before(<<"end_test_case">>) = "ReadyForTestStep"
      /\ Afterwards(<<"end_test_case">>) = "ReadyForTestCase"
      /\ Before(<<"end_test_scenario">>) = "ReadyForTestCase"
      /\ Afterwards(<<"end_test_scenario">>) = "ReadyForCleanup"
  BY DEF Before, Afterwards
<1> QED
  BY <1>1, <1>2, <1>3, <1>4

\* The calls of a scenario
LEMMA CallsMade ==
    ASSUME NEW us
    PROVE  /\ \A m \in Methods \ {"begin_test_case"} : <<m>> \in CallsOf(us)
           /\ \A n \in CaseNames : <<"begin_test_case", n>> \in CallsOf(us)
           /\ \A q \in PlannerCalls, u \in ToSet(us) : <<q, u>> \in CallsOf(us)
           /\ \A q \in OtherCalls : <<q, None>> \in CallsOf(us)
BY DEF CallsOf

\* A call that is not a method's is of a planner of the scenario, or of the DSS
LEMMA Queried ==
    ASSUME NEW us, NEW c \in CallsOf(us), c[1] \notin Methods
    PROVE  \/ c[1] \in PlannerCalls /\ c[2] \in ToSet(us) /\ c = <<c[1], c[2]>>
           \/ c[1] \in OtherCalls /\ c[2] = None /\ c = <<c[1], c[2]>>
<1>1. c \notin {<<m>> : m \in Methods \ {"begin_test_case"}}
  OBVIOUS
<1>2. c \notin {"begin_test_case"} \X CaseNames
  BY DEF Methods
<1> QED
  BY <1>1, <1>2 DEF CallsOf

\* Parts of a script after each other are closed if both are
LEMMA FormedJoin ==
    ASSUME NEW us, NEW s, NEW t, Formed(s, us), Formed(t, us)
    PROVE  Formed(s \o t, us)
<1> DEFINE C == CallsOf(us)
<1>1. s \in Seq(C) /\ t \in Seq(C)
  BY DEF Formed
<1>2. /\ s \o t \in Seq(C) /\ Len(s \o t) = Len(s) + Len(t)
      /\ \A i \in 1..Len(s) : (s \o t)[i] = s[i]
      /\ \A i \in 1..Len(t) : (s \o t)[Len(s) + i] = t[i]
      /\ \A i \in 1..Len(s \o t) :
            i \in 1..Len(s) \/ (i - Len(s) \in 1..Len(t) /\ (s \o t)[i] = t[i - Len(s)])
  BY <1>1, Joined
<1>3. Len(s) \in Nat /\ Len(t) \in Nat
  BY <1>1
<1>4. SUFFICES ASSUME NEW i \in 1..Len(s \o t),
                      (s \o t)[i][1] \in {"find_op_intent", "get_full_op_intent"}
               PROVE  \E j \in 1..Len(s \o t) : i < j /\ (s \o t)[j][1] = "end_test_step"
  BY <1>2 DEF Formed, Closed
<1>5. CASE i \in 1..Len(s)
  <2>1. s[i][1] \in {"find_op_intent", "get_full_op_intent"}
    BY <1>2, <1>4, <1>5
  <2>2. PICK j \in 1..Len(s) : i < j /\ s[j][1] = "end_test_step"
    BY <1>5, <2>1 DEF Formed, Closed
  <2>3. j \in 1..Len(s \o t) /\ (s \o t)[j] = s[j]
    BY <1>2, <1>3
  <2> QED
    BY <2>2, <2>3
<1>6. CASE i \notin 1..Len(s)
  <2>1. i - Len(s) \in 1..Len(t) /\ (s \o t)[i] = t[i - Len(s)]
    BY <1>2, <1>6
  <2>2. t[i - Len(s)][1] \in {"find_op_intent", "get_full_op_intent"}
    BY <1>4, <2>1
  <2>3. PICK j \in 1..Len(t) : i - Len(s) < j /\ t[j][1] = "end_test_step"
    BY <2>1, <2>2 DEF Formed, Closed
  <2>4. Len(s) + j \in 1..Len(s \o t) /\ (s \o t)[Len(s) + j] = t[j]
    BY <1>2, <1>3
  <2>5. i < Len(s) + j
    BY <1>3, <2>3
  <2> QED
    BY <2>3, <2>4, <2>5
<1> QED
  BY <1>5, <1>6

\* A call of a method is closed
LEMMA FormedOne ==
    ASSUME NEW us, NEW c \in CallsOf(us), c[1] \notin {"find_op_intent", "get_full_op_intent"}
    PROVE  Formed(<<c>>, us)
<1>1. <<c>> \in Seq(CallsOf(us)) /\ Len(<<c>>) = 1 /\ <<c>>[1] = c
  BY One
<1> QED
  BY <1>1 DEF Formed, Closed

\* A test step is closed
LEMMA FormedStep ==
    ASSUME NEW us, NEW s \in Seq(CallsOf(us))
    PROVE  Formed(Step(s), us)
<1> DEFINE C == CallsOf(us)
           b == <<"begin_test_step">>
           e == <<"end_test_step">>
           t == <<b>> \o s
<1>1. b \in C /\ e \in C
  BY CallsMade DEF Methods
<1>2. <<b>> \in Seq(C) /\ <<e>> \in Seq(C) /\ Len(<<e>>) = 1 /\ <<e>>[1] = e
  BY <1>1, One
<1>3. t \in Seq(C)
  BY <1>2, Joined
<1> HIDE DEF t, C
<1>4. /\ t \o <<e>> \in Seq(C) /\ Len(t \o <<e>>) = Len(t) + 1
      /\ \A i \in 1..Len(t) : (t \o <<e>>)[i] = t[i]
      /\ (t \o <<e>>)[Len(t) + 1] = e
  BY <1>2, <1>3, Joined
<1>5. Len(t) \in Nat
  BY <1>3
<1>6. e[1] = "end_test_step"
  OBVIOUS
<1>7. Step(s) = t \o <<e>>
  BY DEF Step, t
<1>8. ASSUME NEW i \in 1..(Len(t) + 1), (t \o <<e>>)[i][1] \in {"find_op_intent", "get_full_op_intent"}
      PROVE  i < Len(t) + 1
  <2>1. i # Len(t) + 1
    BY <1>4, <1>6, <1>8
  <2> QED
    BY <1>5, <2>1
<1>9. Len(t) + 1 \in 1..(Len(t) + 1)
  BY <1>5
<1> HIDE DEF e
<1> QED
  BY <1>4, <1>6, <1>7, <1>8, <1>9 DEF Formed, Closed, C

\* A test case of closed parts is closed
LEMMA FormedCase ==
    ASSUME NEW us, NEW n \in CaseNames, NEW s, Formed(s, us)
    PROVE  Formed(Case(n, s), us)
<1> DEFINE b == <<"begin_test_case", n>>
           e == <<"end_test_case">>
<1>1. b \in CallsOf(us) /\ e \in CallsOf(us) /\ b[1] = "begin_test_case" /\ e[1] = "end_test_case"
  BY CallsMade DEF Methods
<1>2. Formed(<<b>>, us) /\ Formed(<<e>>, us)
  BY <1>1, FormedOne
<1>3. Formed(<<b>> \o s, us)
  BY <1>2, FormedJoin
<1>4. Formed((<<b>> \o s) \o <<e>>, us)
  BY <1>2, <1>3, FormedJoin
<1> QED
  BY <1>4 DEF Case

\* A script of closed parts is closed
LEMMA FormedRun ==
    ASSUME NEW us, NEW s, Formed(s, us)
    PROVE  Formed(Run(s), us)
<1> DEFINE b == <<"begin_test_scenario">>
           e == <<"end_test_scenario">>
<1>1. b \in CallsOf(us) /\ e \in CallsOf(us) /\ b[1] = "begin_test_scenario" /\ e[1] = "end_test_scenario"
  BY CallsMade DEF Methods
<1>2. Formed(<<b>>, us) /\ Formed(<<e>>, us)
  BY <1>1, FormedOne
<1>3. Formed(<<b>> \o s, us)
  BY <1>2, FormedJoin
<1>4. Formed((<<b>> \o s) \o <<e>>, us)
  BY <1>2, <1>3, FormedJoin
<1> QED
  BY <1>4 DEF Run

\* Calls in phases that follow each other
LEMMA ChainJoin ==
    ASSUME NEW C, NEW s \in Seq(C), NEW t \in Seq(C), NEW p, NEW q, NEW r,
           Chain(s, p, q), Chain(t, q, r)
    PROVE  Chain(s \o t, p, r)
<1>1. /\ s \o t \in Seq(C) /\ Len(s \o t) = Len(s) + Len(t)
      /\ \A i \in 1..Len(s) : (s \o t)[i] = s[i]
      /\ \A i \in 1..Len(t) : (s \o t)[Len(s) + i] = t[i]
  BY Joined
<1>2. Len(s) \in Nat /\ Len(t) \in Nat
  OBVIOUS
<1>3. CASE s = <<>>
  <2>1. s \o t = t /\ p = q
    BY <1>3 DEF Chain
  <2> QED
    BY <2>1
<1>4. CASE t = <<>>
  <2>1. s \o t = s /\ q = r
    BY <1>4 DEF Chain
  <2> QED
    BY <2>1
<1>5. CASE s # <<>> /\ t # <<>>
  <2>1. Len(s) >= 1 /\ Len(t) >= 1
    BY <1>5
  <2>2. s \o t # <<>>
    BY <1>1, <1>2, <2>1
  <2>3. /\ (s \o t)[1] = s[1] /\ (s \o t)[Len(s)] = s[Len(s)]
        /\ (s \o t)[Len(s) + 1] = t[1] /\ (s \o t)[Len(s) + Len(t)] = t[Len(t)]
    BY <1>1, <1>2, <2>1
  <2>4. Before(s[1]) = p /\ Afterwards(s[Len(s)]) = q /\ Before(t[1]) = q /\ Afterwards(t[Len(t)]) = r
    BY <1>5 DEF Chain
  <2>5. ASSUME NEW i \in 1..(Len(s \o t) - 1)
        PROVE  Afterwards((s \o t)[i]) = Before((s \o t)[i + 1])
    <3>1. CASE i < Len(s)
      <4>1. i \in 1..(Len(s) - 1) /\ i \in 1..Len(s) /\ i + 1 \in 1..Len(s)
        BY <1>2, <3>1
      <4>2. (s \o t)[i] = s[i] /\ (s \o t)[i + 1] = s[i + 1]
        BY <1>1, <4>1
      <4> QED
        BY <4>1, <4>2 DEF Chain
    <3>2. CASE i = Len(s)
      BY <2>3, <2>4, <3>2
    <3>3. CASE i > Len(s)
      <4> DEFINE k == i - Len(s)
      <4>1. k \in 1..(Len(t) - 1) /\ k \in 1..Len(t) /\ k + 1 \in 1..Len(t)
        BY <1>1, <1>2, <3>3
      <4>2. i = Len(s) + k /\ i + 1 = Len(s) + (k + 1)
        BY <1>2
      <4>3. (s \o t)[Len(s) + k] = t[k] /\ (s \o t)[Len(s) + (k + 1)] = t[k + 1]
        BY <1>1, <4>1
      <4>4. Afterwards(t[k]) = Before(t[k + 1])
        BY <4>1 DEF Chain
      <4> HIDE DEF k
      <4> QED
        BY <4>2, <4>3, <4>4
    <3> QED
      BY <1>2, <3>1, <3>2, <3>3
  <2> QED
    BY <1>1, <2>2, <2>3, <2>4, <2>5 DEF Chain
<1> QED
  BY <1>3, <1>4, <1>5

\* Parts of a script follow each other when the second takes up the phase and
\* the order where the first leaves them
LEMMA PartJoin ==
    ASSUME NEW us, NEW s, NEW t, NEW p, NEW q, NEW r,
           NEW l1 \in Nat, NEW h1 \in Nat, NEW l2 \in Nat, NEW h2 \in Nat, NEW lo \in Nat, NEW hi \in Nat,
           Part(s, us, p, q, l1, h1), Part(t, us, q, r, l2, h2),
           h1 < l2, lo <= l1, lo <= l2, h1 <= hi, h2 <= hi
    PROVE  Part(s \o t, us, p, r, lo, hi)
<1> DEFINE C == CallsOf(us)
           W(i) == Weight((s \o t)[i])
<1>1. s \in Seq(C) /\ t \in Seq(C)
  BY DEF Part
<1>2. /\ s \o t \in Seq(C) /\ Len(s \o t) = Len(s) + Len(t)
      /\ \A i \in 1..Len(s) : (s \o t)[i] = s[i]
      /\ \A i \in 1..Len(s \o t) :
            i \in 1..Len(s) \/ (i - Len(s) \in 1..Len(t) /\ (s \o t)[i] = t[i - Len(s)])
  BY <1>1, Joined
<1>3. Len(s) \in Nat /\ Len(t) \in Nat
  BY <1>1
<1>4. Chain(s \o t, p, r)
  BY <1>1, ChainJoin DEF Part
<1>5. ASSUME NEW i \in 1..Len(s) PROVE W(i) = 0 \/ (l1 <= W(i) /\ W(i) <= h1)
  BY <1>2 DEF Part, Within
<1>6. ASSUME NEW i \in 1..Len(s \o t), i \notin 1..Len(s)
      PROVE  W(i) = 0 \/ (l2 <= W(i) /\ W(i) <= h2)
  BY <1>2, <1>6 DEF Part, Within
<1>7. \A i : W(i) \in Nat
  BY Weighed
<1> HIDE DEF W
<1>8. Within(s \o t, lo, hi)
  <2>1. ASSUME NEW i \in 1..Len(s \o t) PROVE W(i) = 0 \/ (lo <= W(i) /\ W(i) <= hi)
    <3>1. CASE i \in 1..Len(s)
      BY <1>5, <1>7, <3>1
    <3>2. CASE i \notin 1..Len(s)
      BY <1>6, <1>7, <3>2
    <3> QED
      BY <3>1, <3>2
  <2> QED
    BY <2>1 DEF Within, W
<1>9. Ordered(s \o t)
  <2>1. SUFFICES ASSUME NEW i \in 1..Len(s \o t), NEW j \in 1..Len(s \o t), i < j
                 PROVE  MayPrecede(W(i), W(j))
    BY DEF Ordered, W
  <2>2. CASE j \in 1..Len(s)
    <3>1. i \in 1..Len(s)
      BY <1>3, <2>1, <2>2
    <3>2. (s \o t)[i] = s[i] /\ (s \o t)[j] = s[j]
      BY <1>2, <2>2, <3>1
    <3> QED
      BY <2>1, <2>2, <3>1, <3>2 DEF Part, Ordered, W
  <2>3. CASE i \notin 1..Len(s)
    <3>1. j \notin 1..Len(s)
      BY <1>2, <1>3, <2>1, <2>3
    <3>2. /\ i - Len(s) \in 1..Len(t) /\ j - Len(s) \in 1..Len(t) /\ i - Len(s) < j - Len(s)
          /\ (s \o t)[i] = t[i - Len(s)] /\ (s \o t)[j] = t[j - Len(s)]
      BY <1>2, <1>3, <2>1, <2>3, <3>1
    <3> QED
      BY <3>2 DEF Part, Ordered, W
  <2>4. CASE i \in 1..Len(s) /\ j \notin 1..Len(s)
    <3>1. W(i) = 0 \/ (l1 <= W(i) /\ W(i) <= h1)
      BY <1>5, <2>4
    <3>2. W(j) = 0 \/ (l2 <= W(j) /\ W(j) <= h2)
      BY <1>6, <2>4
    <3>3. W(i) = 0 \/ W(j) = 0 \/ W(i) < W(j)
      BY <1>7, <3>1, <3>2
    <3> QED
      BY <3>3 DEF MayPrecede
  <2> QED
    BY <2>2, <2>3, <2>4
<1> QED
  BY <1>2, <1>4, <1>8, <1>9 DEF Part

\* Nothing is a part of every script
LEMMA PartNone ==
    ASSUME NEW us, NEW p, NEW lo, NEW hi
    PROVE  Part(<<>>, us, p, p, lo, hi)
<1>1. <<>> \in Seq(CallsOf(us)) /\ Len(<<>>) = 0
  BY HeldByNone
<1>2. 1..0 = {} /\ 1..(0 - 1) = {}
  OBVIOUS
<1> QED
  BY <1>1, <1>2 DEF Part, Chain, Ordered, Within

\* A call on its own
LEMMA PartOne ==
    ASSUME NEW us, NEW c \in CallsOf(us), NEW lo, NEW hi,
           Weight(c) = 0 \/ (lo <= Weight(c) /\ Weight(c) <= hi)
    PROVE  Part(<<c>>, us, Before(c), Afterwards(c), lo, hi)
<1>1. <<c>> \in Seq(CallsOf(us)) /\ Len(<<c>>) = 1 /\ <<c>>[1] = c
  BY One
<1>2. 1..1 = {1} /\ 1..(1 - 1) = {}
  OBVIOUS
<1>3. <<c>> # <<>>
  BY <1>1
<1>4. Chain(<<c>>, Before(c), Afterwards(c))
  BY <1>1, <1>2, <1>3 DEF Chain
<1>5. Ordered(<<c>>)
  <2>1. \A i, j \in {1} : ~(i < j)
    OBVIOUS
  <2> QED
    BY <1>1, <1>2, <2>1 DEF Ordered
<1>6. Within(<<c>>, lo, hi)
  BY <1>1, <1>2 DEF Within
<1> QED
  BY <1>1, <1>4, <1>5, <1>6 DEF Part

\* The same is asked of every planner
LEMMA PartEach ==
    ASSUME NEW us, NEW vs \in Seq(ToSet(us)), NEW q \in PlannerCalls, NEW w \in 2..5,
           \A u : Weight(<<q, u>>) = w
    PROVE  Part(Each(q, vs), us, "RunningTestStep", "RunningTestStep", w, w)
<1> DEFINE s == Each(q, vs)
<1>1. /\ s = [i \in 1..Len(vs) |-> <<q, vs[i]>>] /\ Len(vs) \in Nat
      /\ \A i \in 1..Len(vs) : vs[i] \in ToSet(us)
  BY DEF Each
<1>2. \A i \in 1..Len(vs) : <<q, vs[i]>> \in CallsOf(us)
  BY <1>1, CallsMade
<1>3. s \in Seq(CallsOf(us)) /\ Len(s) = Len(vs) /\ \A i \in 1..Len(s) : s[i] = <<q, vs[i]>>
  BY <1>1, <1>2
<1> HIDE DEF s
<1>4. \A i \in 1..Len(s) : /\ Weight(s[i]) = w
                           /\ Before(s[i]) = "RunningTestStep" /\ Afterwards(s[i]) = "RunningTestStep"
  <2>1. \A u : /\ Weight(<<q, u>>) = w
              /\ Before(<<q, u>>) = "RunningTestStep" /\ Afterwards(<<q, u>>) = "RunningTestStep"
    BY PhasesOfCalls
  <2> QED
    BY <1>3, <2>1
<1>5. Chain(s, "RunningTestStep", "RunningTestStep")
  <2>1. Len(s) \in Nat
    BY <1>3
  <2>2. s # <<>> => 1 \in 1..Len(s) /\ Len(s) \in 1..Len(s)
    BY <1>3, <2>1
  <2>3. \A i \in 1..(Len(s) - 1) : i \in 1..Len(s) /\ i + 1 \in 1..Len(s)
    BY <2>1
  <2> QED
    BY <1>4, <2>2, <2>3 DEF Chain
<1>6. Ordered(s)
  BY <1>4 DEF Ordered, MayPrecede
<1>7. Within(s, w, w)
  BY <1>4 DEF Within
<1> QED
  BY <1>3, <1>5, <1>6, <1>7 DEF Part, s

\* A test step
LEMMA PartStep ==
    ASSUME NEW us, NEW s, NEW lo \in Nat \ {0}, NEW hi \in Nat, lo <= hi + 1,
           Part(s, us, "RunningTestStep", "RunningTestStep", lo, hi)
    PROVE  Part(Step(s), us, "ReadyForTestStep", "ReadyForTestStep", lo, hi)
<1> DEFINE b == <<"begin_test_step">>
           e == <<"end_test_step">>
<1>1. b \in CallsOf(us) /\ e \in CallsOf(us) /\ Weight(b) = 0 /\ Weight(e) = 0
  BY CallsMade, Weights DEF Methods
<1>2. /\ Before(b) = "ReadyForTestStep" /\ Afterwards(b) = "RunningTestStep"
      /\ Before(e) = "RunningTestStep" /\ Afterwards(e) = "ReadyForTestStep"
  BY PhasesOfCalls
<1> HIDE DEF b, e
<1>3. Part(<<b>>, us, "ReadyForTestStep", "RunningTestStep", lo, 0)
  BY <1>1, <1>2, PartOne
<1>4. Part(<<e>>, us, "RunningTestStep", "ReadyForTestStep", hi + 1, hi)
  BY <1>1, <1>2, PartOne
<1>5. Part(<<b>> \o s, us, "ReadyForTestStep", "RunningTestStep", lo, hi)
  BY <1>3, PartJoin
<1>6. Part((<<b>> \o s) \o <<e>>, us, "ReadyForTestStep", "ReadyForTestStep", lo, hi)
  BY <1>4, <1>5, PartJoin
<1> QED
  BY <1>6 DEF Step, b, e

\* A test case comes before what is in it
LEMMA PartCase ==
    ASSUME NEW us, NEW n \in CaseNames, NEW s, NEW w \in Nat, NEW lo \in Nat \ {0}, NEW hi \in Nat,
           w < lo, w <= hi, lo <= hi + 1, Weight(<<"begin_test_case", n>>) = w,
           Part(s, us, "ReadyForTestStep", "ReadyForTestStep", lo, hi)
    PROVE  Part(Case(n, s), us, "ReadyForTestCase", "ReadyForTestCase", w, hi)
<1> DEFINE b == <<"begin_test_case", n>>
           e == <<"end_test_case">>
<1>1. b \in CallsOf(us) /\ e \in CallsOf(us) /\ Weight(e) = 0
  BY CallsMade, Weights DEF Methods
<1>2. /\ Before(b) = "ReadyForTestCase" /\ Afterwards(b) = "ReadyForTestStep"
      /\ Before(e) = "ReadyForTestStep" /\ Afterwards(e) = "ReadyForTestCase"
  BY PhasesOfCalls
<1>3. Weight(b) = w /\ w <= w
  OBVIOUS
<1> HIDE DEF b, e
<1>4. Part(<<b>>, us, "ReadyForTestCase", "ReadyForTestStep", w, w)
  BY <1>1, <1>2, <1>3, PartOne
<1>5. Part(<<e>>, us, "ReadyForTestStep", "ReadyForTestCase", hi + 1, hi)
  BY <1>1, <1>2, PartOne
<1>6. Part(<<b>> \o s, us, "ReadyForTestCase", "ReadyForTestStep", w, hi)
  BY <1>4, PartJoin
<1>7. Part((<<b>> \o s) \o <<e>>, us, "ReadyForTestCase", "ReadyForTestCase", w, hi)
  <2>1. w <= hi + 1
    OBVIOUS
  <2> QED
    BY <1>5, <1>6, <2>1, PartJoin
<1> QED
  BY <1>7 DEF Case, b, e

\* A script
LEMMA PartRun ==
    ASSUME NEW us, NEW s, NEW hi \in Nat,
           Part(s, us, "ReadyForTestCase", "ReadyForTestCase", 1, hi)
    PROVE  Part(Run(s), us, "NotStarted", "ReadyForCleanup", 1, hi)
<1> DEFINE b == <<"begin_test_scenario">>
           e == <<"end_test_scenario">>
<1>1. b \in CallsOf(us) /\ e \in CallsOf(us) /\ Weight(b) = 0 /\ Weight(e) = 0
  BY CallsMade, Weights DEF Methods
<1>2. /\ Before(b) = "NotStarted" /\ Afterwards(b) = "ReadyForTestCase"
      /\ Before(e) = "ReadyForTestCase" /\ Afterwards(e) = "ReadyForCleanup"
  BY PhasesOfCalls
<1> HIDE DEF b, e
<1>3. Part(<<b>>, us, "NotStarted", "ReadyForTestCase", 1, 0)
  BY <1>1, <1>2, PartOne
<1>4. Part(<<e>>, us, "ReadyForTestCase", "ReadyForCleanup", hi + 1, hi)
  BY <1>1, <1>2, PartOne
<1>5. Part(<<b>> \o s, us, "NotStarted", "ReadyForTestCase", 1, hi)
  BY <1>3, PartJoin
<1>6. Part((<<b>> \o s) \o <<e>>, us, "NotStarted", "ReadyForCleanup", 1, hi)
  BY <1>4, <1>5, PartJoin
<1> QED
  BY <1>6 DEF Run, b, e

\* Two calls that follow each other
LEMMA PartTwo ==
    ASSUME NEW us, NEW c \in CallsOf(us), NEW d \in CallsOf(us), NEW lo \in Nat \ {0}, NEW hi \in Nat,
           Weight(c) = 0, Weight(d) = 0, Afterwards(c) = Before(d), lo <= hi + 1
    PROVE  Part(<<c, d>>, us, Before(c), Afterwards(d), lo, hi)
<1>1. Part(<<c>>, us, Before(c), Afterwards(c), lo, 0)
  BY PartOne
<1>2. Part(<<d>>, us, Before(d), Afterwards(d), hi + 1, hi)
  BY PartOne
<1>3. Part(<<c>> \o <<d>>, us, Before(c), Afterwards(d), lo, hi)
  BY <1>1, <1>2, PartJoin
<1>4. <<c>> \o <<d>> = <<c, d>>
  <2> DEFINE t == <<c>> \o <<d>>
  <2>1. <<c>> \in Seq(CallsOf(us)) /\ <<d>> \in Seq(CallsOf(us)) /\ Len(<<c>>) = 1 /\ Len(<<d>>) = 1
    BY One
  <2>2. t \in Seq(CallsOf(us)) /\ Len(t) = 2 /\ t[1] = c /\ t[2] = d
    BY <2>1, Joined
  <2> HIDE DEF t
  <2>3. t = <<c, d>>
    BY <2>2
  <2> QED
    BY <2>3 DEF t
<1> QED
  BY <1>3, <1>4

\* A test step, a test case and a script hold what they are made of
LEMMA Holds ==
    ASSUME NEW us, NEW s \in Seq(CallsOf(us)), NEW n \in CaseNames
    PROVE  /\ ToSet(s) \subseteq ToSet(Step(s))
           /\ ToSet(s) \subseteq ToSet(Case(n, s))
           /\ ToSet(s) \subseteq ToSet(Run(s))
<1> DEFINE C == CallsOf(us)
<1> HIDE DEF C
<1>0. s \in Seq(C)
  BY DEF C
<1>1. ASSUME NEW b \in C, NEW e \in C PROVE ToSet(s) \subseteq ToSet((<<b>> \o s) \o <<e>>)
  <2> DEFINE bs == <<b>>
             es == <<e>>
  <2>1. bs \in Seq(C) /\ es \in Seq(C)
    BY One
  <2> HIDE DEF bs, es
  <2>2. bs \o s \in Seq(C) /\ ToSet(bs \o s) = ToSet(bs) \cup ToSet(s)
    BY <1>0, <2>1, Joined
  <2>3. ASSUME NEW t \in Seq(C) PROVE ToSet(t \o es) = ToSet(t) \cup ToSet(es)
    BY <2>1, Joined
  <2>4. ToSet(s) \subseteq ToSet((bs \o s) \o es)
    BY <2>2, <2>3
  <2> QED
    BY <2>4 DEF bs, es
<1>2. /\ <<"begin_test_step">> \in C /\ <<"end_test_step">> \in C
      /\ <<"begin_test_scenario">> \in C /\ <<"end_test_scenario">> \in C
      /\ <<"begin_test_case", n>> \in C /\ <<"end_test_case">> \in C
  BY CallsMade DEF Methods, C
<1>3. ToSet(s) \subseteq ToSet(Step(s))
  BY <1>1, <1>2 DEF Step
<1>4. ToSet(s) \subseteq ToSet(Case(n, s))
  BY <1>1, <1>2 DEF Case
<1>5. ToSet(s) \subseteq ToSet(Run(s))
  BY <1>1, <1>2 DEF Run
<1> QED
  BY <1>3, <1>4, <1>5

\* all_flight_planners leaves no planner out
LEMMA Distinguished ==
    ASSUME NEW us \in Seq(PlannerSet), Len(us) \in {1, 2}
    PROVE  us \in Seq(ToSet(us)) /\ Distinct(us) \in Seq(ToSet(us)) /\ ToSet(Distinct(us)) = ToSet(us)
<1>1. us \in Seq(ToSet(us)) /\ us[1] \in ToSet(us)
  <2>1. DOMAIN us = 1..Len(us) /\ 1 \in 1..Len(us)
    OBVIOUS
  <2>2. \A i \in 1..Len(us) : us[i] \in ToSet(us)
    BY Held
  <2> QED
    BY <2>1, <2>2
<1>2. CASE us = <<us[1], us[1]>>
  <2>1. Distinct(us) = <<us[1]>>
    BY <1>2 DEF Distinct
  <2>2. <<us[1]>> \in Seq(ToSet(us)) /\ ToSet(<<us[1]>>) = {us[1]}
    BY <1>1, One
  <2>3. ToSet(<<us[1], us[1]>>) = {us[1]}
    BY DEF ToSet
  <2> QED
    BY <1>1, <1>2, <2>1, <2>2, <2>3
<1>3. CASE us # <<us[1], us[1]>>
  BY <1>1, <1>3 DEF Distinct
<1> QED
  BY <1>2, <1>3

\* The same is asked of every planner of a list
LEMMA EachHolds ==
    ASSUME NEW us, NEW vs \in Seq(ToSet(us)), NEW q \in PlannerCalls
    PROVE  Each(q, vs) \in Seq(CallsOf(us)) /\ \A u \in ToSet(vs) : <<q, u>> \in ToSet(Each(q, vs))
<1>1. /\ DOMAIN vs = 1..Len(vs) /\ Len(vs) \in Nat
      /\ \A i \in 1..Len(vs) : vs[i] \in ToSet(us)
  OBVIOUS
<1>2. \A i \in 1..Len(vs) : <<q, vs[i]>> \in CallsOf(us)
  BY <1>1, CallsMade
<1>3. Each(q, vs) = [i \in 1..Len(vs) |-> <<q, vs[i]>>]
  BY <1>1 DEF Each
<1>4. Each(q, vs) \in Seq(CallsOf(us))
  BY <1>1, <1>2, <1>3
<1>5. ASSUME NEW u \in ToSet(vs) PROVE <<q, u>> \in ToSet(Each(q, vs))
  <2>1. PICK i \in 1..Len(vs) : vs[i] = u
    BY Held
  <2>2. i \in DOMAIN Each(q, vs) /\ Each(q, vs)[i] = <<q, u>>
    BY <1>3, <2>1
  <2> QED
    BY <2>2 DEF ToSet
<1> QED
  BY <1>4, <1>5

\* Every planner of the scenario is asked for its capabilities, and cleared
Asks(s, us) == \A u \in ToSet(us) : <<"information", u>> \in ToSet(s) /\ <<"clear_area", u>> \in ToSet(s)

\* Every planner is asked what it supports after it has told its capabilities,
\* and then all of them are cleared
LEMMA SetupParts ==
    ASSUME NEW us \in Seq(PlannerSet), Len(us) \in {1, 2}, NEW ps \in Seq(ToSet(us))
    PROVE  /\ Formed(Setup(us, ps), us) /\ Asks(Setup(us, ps), us)
           /\ Part(Setup(us, ps), us, "ReadyForTestCase", "ReadyForTestCase", 1, 5)
<1> DEFINE C == CallsOf(us)
           ds == Distinct(us)
           a == Each("information", ds)
           b == Each("support", us)
           c == Each("prerequisite", ps)
           d == Each("clear_area", us)
<1>1. us \in Seq(ToSet(us)) /\ ds \in Seq(ToSet(us)) /\ ToSet(ds) = ToSet(us)
  BY Distinguished
<1> HIDE DEF ds
<1>2. {"information", "support", "prerequisite", "clear_area"} \subseteq PlannerCalls
  BY DEF PlannerCalls
<1>3. a \in Seq(C) /\ \A u \in ToSet(us) : <<"information", u>> \in ToSet(a)
  BY <1>1, <1>2, EachHolds
<1>4. b \in Seq(C) /\ c \in Seq(C)
  BY <1>1, <1>2, EachHolds
<1>5. d \in Seq(C) /\ \A u \in ToSet(us) : <<"clear_area", u>> \in ToSet(d)
  BY <1>1, <1>2, EachHolds
<1>6. /\ Part(a, us, "RunningTestStep", "RunningTestStep", 2, 2)
      /\ Part(b, us, "RunningTestStep", "RunningTestStep", 3, 3)
      /\ Part(c, us, "RunningTestStep", "RunningTestStep", 4, 4)
      /\ Part(d, us, "RunningTestStep", "RunningTestStep", 5, 5)
  BY <1>1, <1>2, Weights, PartEach
<1> HIDE DEF a, b, c, d
<1>7. Part(a \o b, us, "RunningTestStep", "RunningTestStep", 2, 3)
  BY <1>6, PartJoin
<1>8. Part((a \o b) \o c, us, "RunningTestStep", "RunningTestStep", 2, 4)
  BY <1>6, <1>7, PartJoin
<1>9. Part(Step((a \o b) \o c), us, "ReadyForTestStep", "ReadyForTestStep", 2, 4)
  BY <1>8, PartStep
<1>10. Part(Step(d), us, "ReadyForTestStep", "ReadyForTestStep", 5, 5)
  BY <1>6, PartStep
<1> DEFINE s == Step((a \o b) \o c) \o Step(d)
<1>11. Part(s, us, "ReadyForTestStep", "ReadyForTestStep", 2, 5)
  BY <1>9, <1>10, PartJoin
<1>12. a \o b \in Seq(C) /\ ToSet(a \o b) = ToSet(a) \cup ToSet(b)
  BY <1>3, <1>4, Joined
<1>13. (a \o b) \o c \in Seq(C) /\ ToSet((a \o b) \o c) = ToSet(a \o b) \cup ToSet(c)
  <2>1. ASSUME NEW t \in Seq(C) PROVE t \o c \in Seq(C) /\ ToSet(t \o c) = ToSet(t) \cup ToSet(c)
    BY <1>4, Joined
  <2> QED
    BY <1>12, <2>1
<1>14. Formed(Step((a \o b) \o c), us) /\ Formed(Step(d), us)
  BY <1>5, <1>13, FormedStep
<1>15. Formed(s, us) /\ ToSet(s) = ToSet(Step((a \o b) \o c)) \cup ToSet(Step(d))
  BY <1>14, FormedJoin, Joined DEF Formed
<1>16. "Setup" \in CaseNames
  BY DEF CaseNames
<1>17. ToSet((a \o b) \o c) \subseteq ToSet(Step((a \o b) \o c)) /\ ToSet(d) \subseteq ToSet(Step(d))
  BY <1>5, <1>13, <1>16, Holds
<1>18. ToSet(s) \subseteq ToSet(Case("Setup", s))
  BY <1>15, <1>16, Holds DEF Formed
<1>19. Setup(us, ps) = Case("Setup", s)
  BY DEF Setup, check_capabilities, a, b, c, d, ds
<1> HIDE DEF s
<1>20. Formed(Case("Setup", s), us)
  BY <1>15, <1>16, FormedCase
<1>21. Part(Case("Setup", s), us, "ReadyForTestCase", "ReadyForTestCase", 1, 5)
  <2>1. Weight(<<"begin_test_case", "Setup">>) = 1
    BY CaseWeights, Zenon
  <2>2. 1 < 2 /\ 1 <= 5 /\ 2 <= 5 + 1
    OBVIOUS
  <2> QED
    BY <1>11, <1>16, <2>1, <2>2, PartCase
<1>22. Asks(Case("Setup", s), us)
  BY <1>3, <1>5, <1>12, <1>13, <1>15, <1>17, <1>18 DEF Asks
<1> QED
  BY <1>19, <1>20, <1>21, <1>22

\* A flight is planned in one test step, and looked for in another
LEMMA PlannedParts ==
    ASSUME NEW us, NEW u \in ToSet(us), NEW q \in {"inject", "inject_priority"}
    PROVE  /\ Formed(Planned(q, u), us) /\ <<q, u>> \in ToSet(Planned(q, u))
           /\ LET w == Weight(<<q, u>>)
              IN Part(Planned(q, u), us, "ReadyForTestStep", "ReadyForTestStep", w, w)
<1> DEFINE w == Weight(<<q, u>>)
           c == <<q, u>>
           f == <<"find_op_intent", u>>
           g == <<"get_full_op_intent", u>>
<1>1. q \in PlannerCalls /\ "get_full_op_intent" \in PlannerCalls /\ "find_op_intent" \in PlannerCalls
  BY DEF PlannerCalls
<1>2. c \in CallsOf(us) /\ f \in CallsOf(us) /\ g \in CallsOf(us)
  BY <1>1, CallsMade
<1>3. /\ Before(c) = "RunningTestStep" /\ Afterwards(c) = "RunningTestStep"
      /\ Before(f) = "RunningTestStep" /\ Afterwards(f) = "RunningTestStep"
      /\ Before(g) = "RunningTestStep" /\ Afterwards(g) = "RunningTestStep"
  BY <1>1, PhasesOfCalls
<1>4. w \in Nat \ {0} /\ w <= w /\ Weight(f) = 0 /\ Weight(g) = 0 /\ Weight(c) = w
  BY Weights
<1>5. Planned(q, u) = Step(<<c>>) \o Step(<<f, g>>)
  BY DEF Planned
<1> HIDE DEF c, f, g, w
<1>6. Part(<<c>>, us, "RunningTestStep", "RunningTestStep", w, w)
  BY <1>2, <1>3, <1>4, PartOne
<1>7. w + 1 \in Nat \ {0} /\ w + 1 <= w + 1 /\ w <= w + 1 /\ w < w + 1 /\ w \in Nat
  BY <1>4
<1>8. Part(<<f, g>>, us, "RunningTestStep", "RunningTestStep", w + 1, w)
  BY <1>2, <1>3, <1>4, <1>7, PartTwo
<1>9. /\ Part(Step(<<c>>), us, "ReadyForTestStep", "ReadyForTestStep", w, w)
      /\ Part(Step(<<f, g>>), us, "ReadyForTestStep", "ReadyForTestStep", w + 1, w)
  BY <1>4, <1>6, <1>7, <1>8, PartStep
<1>10. Part(Step(<<c>>) \o Step(<<f, g>>), us, "ReadyForTestStep", "ReadyForTestStep", w, w)
  BY <1>4, <1>7, <1>9, PartJoin
<1>11. <<c>> \in Seq(CallsOf(us)) /\ <<f, g>> \in Seq(CallsOf(us))
  BY <1>6, <1>8 DEF Part
<1>12. Formed(Step(<<c>>) \o Step(<<f, g>>), us)
  BY <1>11, FormedStep, FormedJoin
<1>13. c \in ToSet(Step(<<c>>) \o Step(<<f, g>>))
  <2> DEFINE x == Step(<<c>>)
             y == Step(<<f, g>>)
  <2>1. x \in Seq(CallsOf(us)) /\ y \in Seq(CallsOf(us))
    BY <1>9 DEF Part
  <2>2. "Setup" \in CaseNames
    BY DEF CaseNames
  <2>3. c \in ToSet(<<c>>) /\ ToSet(<<c>>) \subseteq ToSet(x)
    BY <1>2, <1>11, <2>2, One, Holds
  <2> HIDE DEF x, y
  <2>4. ToSet(x \o y) = ToSet(x) \cup ToSet(y)
    BY <2>1, Joined
  <2>5. c \in ToSet(x \o y)
    BY <2>3, <2>4
  <2> QED
    BY <2>5 DEF x, y
<1> QED
  BY <1>5, <1>10, <1>12, <1>13 DEF w, c

\* Test cases follow each other
LEMMA CasesJoin ==
    ASSUME NEW us, NEW s, NEW t, NEW m \in Nat, NEW l \in Nat, NEW h \in Nat,
           Formed(s, us), Formed(t, us), Asks(s, us), m < l, l <= h,
           Part(s, us, "ReadyForTestCase", "ReadyForTestCase", 1, m),
           Part(t, us, "ReadyForTestCase", "ReadyForTestCase", l, h)
    PROVE  /\ Formed(s \o t, us) /\ Asks(s \o t, us)
           /\ Part(s \o t, us, "ReadyForTestCase", "ReadyForTestCase", 1, h)
<1>1. Formed(s \o t, us)
  BY FormedJoin
<1>2. 1 <= l /\ m <= h /\ 1 <= 1 /\ h <= h
  OBVIOUS
<1>3. Part(s \o t, us, "ReadyForTestCase", "ReadyForTestCase", 1, h)
  BY <1>2, PartJoin
<1>4. ToSet(s \o t) = ToSet(s) \cup ToSet(t)
  BY Joined DEF Formed
<1> QED
  BY <1>1, <1>3, <1>4 DEF Asks

\* The script of a scenario is well formed, asks every planner for its
\* capabilities and clears it, and attempts a second flight only with a first;
\* unless it is spoilt, every call of it comes in the
\* phase it expects and after those it relies on
Scripted(s, us) ==
    /\ Formed(s, us) /\ Asks(s, us) /\ Chain(s, "NotStarted", "ReadyForCleanup") /\ Ordered(s)
    /\ \A c \in ToSet(s) : c[1] = "attempt_conflicting" => Backed(s)

\* Test cases make a script
LEMMA CasesScripted ==
    ASSUME NEW us, NEW s, NEW h \in Nat, Formed(s, us), Asks(s, us),
           Part(s, us, "ReadyForTestCase", "ReadyForTestCase", 1, h), h < 12 \/ Backed(s)
    PROVE  Scripted(Run(s), us)
<1>1. Formed(Run(s), us)
  BY FormedRun
<1>2. Part(Run(s), us, "NotStarted", "ReadyForCleanup", 1, h)
  BY PartRun
<1>3. "Setup" \in CaseNames
  BY DEF CaseNames
<1>4. ToSet(s) \subseteq ToSet(Run(s))
  BY <1>3, Holds DEF Formed
<1>5. ASSUME NEW c \in ToSet(Run(s)), c[1] = "attempt_conflicting" PROVE Backed(Run(s))
  <2>1. CASE Backed(s)
    BY <1>4, <2>1 DEF Backed
  <2>2. CASE h < 12
    <3>1. PICK i \in 1..Len(Run(s)) : Run(s)[i] = c
      BY <1>1, Held DEF Formed
    <3>2. Weight(c) = 0 \/ (1 <= Weight(c) /\ Weight(c) <= h)
      BY <1>2, <3>1 DEF Part, Within
    <3>3. Weight(c) = 12
      BY <1>5, ConflictsLast
    <3> QED
      BY <2>2, <3>2, <3>3
  <2> QED
    BY <2>1, <2>2
<1> QED
  BY <1>1, <1>2, <1>4, <1>5 DEF Scripted, Asks, Part

\* A test case with one flight to be planned
LEMMA FlightCase ==
    ASSUME NEW us, NEW u \in ToSet(us), NEW q \in {"inject", "inject_priority"}, NEW n \in CaseNames,
           NEW w \in Nat \ {0}, Weight(<<"begin_test_case", n>>) = w, Weight(<<q, u>>) = w + 1
    PROVE  /\ Formed(Case(n, Planned(q, u)), us) /\ <<q, u>> \in ToSet(Case(n, Planned(q, u)))
           /\ Part(Case(n, Planned(q, u)), us, "ReadyForTestCase", "ReadyForTestCase", w, w + 1)
<1>1. /\ Formed(Planned(q, u), us) /\ <<q, u>> \in ToSet(Planned(q, u))
      /\ Part(Planned(q, u), us, "ReadyForTestStep", "ReadyForTestStep", w + 1, w + 1)
  BY PlannedParts
<1>2. w < w + 1 /\ w <= w + 1 /\ w + 1 <= (w + 1) + 1 /\ w + 1 \in Nat \ {0} /\ w \in Nat /\ w + 1 \in Nat
  OBVIOUS
<1>3. Part(Case(n, Planned(q, u)), us, "ReadyForTestCase", "ReadyForTestCase", w, w + 1)
  BY <1>1, <1>2, PartCase
<1>4. <<q, u>> \in ToSet(Case(n, Planned(q, u)))
  BY <1>1, Holds DEF Formed
<1> QED
  BY <1>1, <1>3, <1>4, FormedCase

\* A test case with one other call of a planner or the DSS
LEMMA OtherCase ==
    ASSUME NEW us, NEW c \in CallsOf(us), NEW n \in CaseNames, NEW w \in Nat \ {0}, NEW v \in Nat \ {0},
           c[1] \notin Methods, Weight(c) = v, Weight(<<"begin_test_case", n>>) = w, w < v
    PROVE  /\ Formed(Case(n, Step(<<c>>)), us)
           /\ Part(Case(n, Step(<<c>>)), us, "ReadyForTestCase", "ReadyForTestCase", w, v)
<1>1. c[1] \in PlannerCalls \cup OtherCalls /\ c = <<c[1], c[2]>>
  BY Queried
<1>2. Before(c) = "RunningTestStep" /\ Afterwards(c) = "RunningTestStep"
  BY <1>1, PhasesOfCalls
<1>3. w <= v /\ v <= v /\ v <= v + 1 /\ v \in Nat /\ w \in Nat
  OBVIOUS
<1>4. Part(<<c>>, us, "RunningTestStep", "RunningTestStep", v, v)
  BY <1>2, <1>3, PartOne
<1>5. Part(Step(<<c>>), us, "ReadyForTestStep", "ReadyForTestStep", v, v)
  BY <1>3, <1>4, PartStep
<1>6. Part(Case(n, Step(<<c>>)), us, "ReadyForTestCase", "ReadyForTestCase", w, v)
  BY <1>3, <1>5, PartCase
<1>7. Formed(Step(<<c>>), us)
  BY <1>4, FormedStep DEF Part
<1> QED
  BY <1>6, <1>7, FormedCase

\* The first flight
LEMMA FirstFlight ==
    ASSUME NEW us, NEW u \in ToSet(us)
    PROVE  LET t == Case("Plan first flight", Planned("inject", u))
           IN /\ Formed(t, us) /\ Part(t, us, "ReadyForTestCase", "ReadyForTestCase", 7, 8)
              /\ <<"inject", u>> \in ToSet(t)
<1> DEFINE t == Case("Plan first flight", Planned("inject", u))
<1>1. "Plan first flight" \in CaseNames
  BY DEF CaseNames
<1>2. Weight(<<"begin_test_case", "Plan first flight">>) = 7 /\ Weight(<<"inject", u>>) = 8
  BY CaseWeights, Weights, Zenon
<1>3. 7 \in Nat \ {0} /\ 8 = 7 + 1
  OBVIOUS
<1>4. Weight(<<"inject", u>>) = 7 + 1
  BY <1>2, <1>3
<1>5. /\ Formed(t, us) /\ Part(t, us, "ReadyForTestCase", "ReadyForTestCase", 7, 7 + 1)
      /\ <<"inject", u>> \in ToSet(t)
  BY <1>1, <1>2, <1>3, <1>4, FlightCase, Zenon
<1> QED
  BY <1>3, <1>5

\* NominalPlanning
LEMMA NominalPlanningScripted ==
    ASSUME NEW us \in Seq(PlannerSet), Len(us) = 2
    PROVE  Scripted(NominalPlanning(us), us)
<1>1. us[1] \in ToSet(us) /\ us[2] \in ToSet(us)
  BY Held
<1>2. <<>> \in Seq(ToSet(us))
  BY HeldByNone
<1> DEFINE s == Setup(us, <<>>)
           t == Case("Plan first flight", Planned("inject", us[1]))
           c == <<"attempt_conflicting", us[2]>>
           v == Case("Attempt second flight", Step(<<c>>))
<1>3. /\ Formed(s, us) /\ Asks(s, us)
      /\ Part(s, us, "ReadyForTestCase", "ReadyForTestCase", 1, 5)
  BY <1>2, SetupParts
<1>4. {"Plan first flight", "Attempt second flight"} \subseteq CaseNames
  BY DEF CaseNames
<1>5. /\ Formed(t, us) /\ Part(t, us, "ReadyForTestCase", "ReadyForTestCase", 7, 8)
      /\ <<"inject", us[1]>> \in ToSet(t)
  BY <1>1, FirstFlight
<1>6. 9 \in Nat \ {0} /\ 12 \in Nat \ {0} /\ 9 < 12
  OBVIOUS
<1>7. c \in CallsOf(us) /\ c[1] \notin Methods
  BY <1>1, CallsMade DEF PlannerCalls, Methods
<1>8. Weight(c) = 12 /\ Weight(<<"begin_test_case", "Attempt second flight">>) = 9
  BY CaseWeights, Weights, Zenon
<1> HIDE DEF c
<1>9. Formed(v, us) /\ Part(v, us, "ReadyForTestCase", "ReadyForTestCase", 9, 12)
  BY <1>4, <1>6, <1>7, <1>8, OtherCase, Zenon
<1>10. NominalPlanning(us) = Run((s \o t) \o v)
  BY DEF NominalPlanning, c
<1> HIDE DEF s, t, v
<1>11. /\ Formed(s \o t, us) /\ Asks(s \o t, us)
       /\ Part(s \o t, us, "ReadyForTestCase", "ReadyForTestCase", 1, 8)
  BY <1>3, <1>5, CasesJoin
<1>12. /\ Formed((s \o t) \o v, us) /\ Asks((s \o t) \o v, us)
       /\ Part((s \o t) \o v, us, "ReadyForTestCase", "ReadyForTestCase", 1, 12)
  BY <1>9, <1>11, CasesJoin
<1>13. Backed((s \o t) \o v)
  <2>1. ToSet(s \o t) = ToSet(s) \cup ToSet(t)
    BY <1>3, <1>5, Joined DEF Formed
  <2>2. ASSUME NEW x, Formed(x, us) PROVE ToSet(x \o v) = ToSet(x) \cup ToSet(v)
    BY <1>9, <2>2, Joined DEF Formed
  <2>3. <<"inject", us[1]>> \in ToSet((s \o t) \o v)
    BY <1>5, <1>11, <2>1, <2>2
  <2> QED
    BY <2>3 DEF Backed
<1> QED
  BY <1>10, <1>12, <1>13, CasesScripted

\* NominalPlanningPriority
LEMMA NominalPlanningPriorityScripted ==
    ASSUME NEW us \in Seq(PlannerSet), Len(us) = 2
    PROVE  Scripted(NominalPlanningPriority(us), us)
<1>1. us[1] \in ToSet(us) /\ us[2] \in ToSet(us)
  BY Held
<1>2. <<us[2]>> \in Seq(ToSet(us))
  BY <1>1
<1> DEFINE s == Setup(us, <<us[2]>>)
           t == Case("Plan first flight", Planned("inject", us[1]))
           v == Case("Plan priority flight", Planned("inject_priority", us[2]))
           x == Case("Activate priority flight", <<>>)
<1>3. /\ Formed(s, us) /\ Asks(s, us)
      /\ Part(s, us, "ReadyForTestCase", "ReadyForTestCase", 1, 5)
  BY <1>2, SetupParts
<1>4. {"Plan first flight", "Plan priority flight", "Activate priority flight"} \subseteq CaseNames
  BY DEF CaseNames
<1>5. Formed(t, us) /\ Part(t, us, "ReadyForTestCase", "ReadyForTestCase", 7, 8)
  BY <1>1, FirstFlight
<1>6. Weight(<<"begin_test_case", "Plan priority flight">>) = 9 /\ Weight(<<"inject_priority", us[2]>>) = 10
  BY CaseWeights, Weights, Zenon
<1>7. Formed(v, us) /\ Part(v, us, "ReadyForTestCase", "ReadyForTestCase", 9, 10)
  <2>1. 9 \in Nat \ {0} /\ 10 = 9 + 1
    OBVIOUS
  <2>2. Weight(<<"inject_priority", us[2]>>) = 9 + 1
    BY <1>6, <2>1
  <2>3. Formed(v, us) /\ Part(v, us, "ReadyForTestCase", "ReadyForTestCase", 9, 9 + 1)
    BY <1>1, <1>4, <1>6, <2>1, <2>2, FlightCase, Zenon
  <2> QED
    BY <2>1, <2>3
<1>8. Formed(x, us) /\ Part(x, us, "ReadyForTestCase", "ReadyForTestCase", 11, 11)
  <2>1. Weight(<<"begin_test_case", "Activate priority flight">>) = 11
    BY CaseWeights, Zenon
  <2>2. Part(<<>>, us, "ReadyForTestStep", "ReadyForTestStep", 12, 11)
    BY PartNone
  <2>3. Formed(<<>>, us)
    BY HeldByNone DEF Formed, Closed
  <2>4. 11 < 12 /\ 11 <= 11 /\ 12 <= 11 + 1 /\ 11 \in Nat /\ 12 \in Nat \ {0}
    OBVIOUS
  <2>5. Part(x, us, "ReadyForTestCase", "ReadyForTestCase", 11, 11)
    BY <1>4, <2>1, <2>2, <2>4, PartCase, Zenon
  <2> QED
    BY <1>4, <2>3, <2>5, FormedCase
<1>9. NominalPlanningPriority(us) = Run(((s \o t) \o v) \o x)
  BY DEF NominalPlanningPriority
<1> HIDE DEF s, t, v, x
<1>10. /\ Formed(s \o t, us) /\ Asks(s \o t, us)
       /\ Part(s \o t, us, "ReadyForTestCase", "ReadyForTestCase", 1, 8)
  BY <1>3, <1>5, CasesJoin
<1>11. /\ Formed((s \o t) \o v, us) /\ Asks((s \o t) \o v, us)
       /\ Part((s \o t) \o v, us, "ReadyForTestCase", "ReadyForTestCase", 1, 10)
  BY <1>7, <1>10, CasesJoin
<1>12. /\ Formed(((s \o t) \o v) \o x, us) /\ Asks(((s \o t) \o v) \o x, us)
       /\ Part(((s \o t) \o v) \o x, us, "ReadyForTestCase", "ReadyForTestCase", 1, 11)
  BY <1>8, <1>11, CasesJoin
<1> QED
  BY <1>9, <1>12, CasesScripted

\* The invalid flights of Validation make one test step only if there is one
LEMMA InvalidFlights ==
    ASSUME NEW us, NEW u \in ToSet(us)
    PROVE  /\ Formed(attempt_invalid_flights(u), us)
           /\ Invalid = 1 =>
                 Part(attempt_invalid_flights(u), us, "ReadyForTestStep", "ReadyForTestStep", 7, 6)
<1> DEFINE b == <<"begin_test_step">>
           a == <<"attempt_invalid", u>>
           e == <<"end_test_step">>
           k == 2 * Invalid
           f == [i \in 1..k |-> IF i % 2 = 1 THEN a ELSE e]
<1>1. a \in CallsOf(us) /\ b \in CallsOf(us) /\ e \in CallsOf(us)
  BY CallsMade DEF PlannerCalls, Methods
<1>2. b[1] = "begin_test_step" /\ a[1] = "attempt_invalid" /\ e[1] = "end_test_step"
  OBVIOUS
<1>3. Weight(a) = 0 /\ Weight(b) = 0 /\ Weight(e) = 0
  BY Weights DEF Methods
<1>4. /\ Before(b) = "ReadyForTestStep" /\ Afterwards(b) = "RunningTestStep"
      /\ Before(a) = "RunningTestStep" /\ Afterwards(a) = "RunningTestStep"
      /\ Before(e) = "RunningTestStep" /\ Afterwards(e) = "ReadyForTestStep"
  BY PhasesOfCalls DEF PlannerCalls
<1>5. k \in Nat /\ (Invalid = 1 => k = 2)
  BY ConstantsAssumption
<1>6. attempt_invalid_flights(u) = <<b>> \o f
  BY DEF attempt_invalid_flights
<1> HIDE DEF a, b, e, k
<1>7. f \in Seq(CallsOf(us)) /\ Len(f) = k /\ \A i \in 1..k : f[i] \in {a, e}
  BY <1>1, <1>5
<1>8. Formed(f, us)
  BY <1>2, <1>7 DEF Formed, Closed
<1>9. Formed(<<b>>, us)
  BY <1>1, <1>2, FormedOne
<1>10. Formed(<<b>> \o f, us)
  BY <1>8, <1>9, FormedJoin
<1>11. ASSUME Invalid = 1
       PROVE  Part(<<b>> \o f, us, "ReadyForTestStep", "ReadyForTestStep", 7, 6)
  <2>1. 1 % 2 = 1 /\ 2 % 2 = 0
    OBVIOUS
  <2>2. f[1] = a /\ f[2] = e
    BY <1>5, <1>11, <2>1
  <2>3. Len(f) = 2
    BY <1>5, <1>7, <1>11
  <2> HIDE DEF f
  <2>4. f = <<a, e>>
    BY <1>7, <2>2, <2>3
  <2>5. Part(<<a, e>>, us, "RunningTestStep", "ReadyForTestStep", 7, 6)
    BY <1>1, <1>3, <1>4, PartTwo
  <2>6. Part(<<b>>, us, "ReadyForTestStep", "RunningTestStep", 7, 0)
    BY <1>1, <1>3, <1>4, PartOne
  <2> QED
    BY <2>4, <2>5, <2>6, PartJoin
<1> QED
  BY <1>6, <1>10, <1>11

\* Validation: a second invalid flight would be attempted outside of a test step
LEMMA ValidationScripted ==
    ASSUME NEW us \in Seq(PlannerSet), Len(us) = 1
    PROVE  Formed(Validation(us), us) /\ (Invalid = 1 => Scripted(Validation(us), us))
<1>1. us[1] \in ToSet(us)
  BY Held
<1>2. <<>> \in Seq(ToSet(us))
  BY HeldByNone
<1> DEFINE s == Setup(us, <<>>)
           a == attempt_invalid_flights(us[1])
           t == Case("Attempt invalid flights", a)
           c == <<"inject", us[1]>>
           v == Case("Plan valid flight", Step(<<c>>))
<1>3. /\ Formed(s, us) /\ Asks(s, us)
      /\ Part(s, us, "ReadyForTestCase", "ReadyForTestCase", 1, 5)
  BY <1>2, SetupParts
<1>4. {"Attempt invalid flights", "Plan valid flight"} \subseteq CaseNames
  BY DEF CaseNames
<1>5. Formed(a, us) /\ (Invalid = 1 => Part(a, us, "ReadyForTestStep", "ReadyForTestStep", 7, 6))
  BY <1>1, InvalidFlights
<1> HIDE DEF a
<1>6. Formed(t, us)
  BY <1>4, <1>5, FormedCase
<1>7. ASSUME Invalid = 1 PROVE Part(t, us, "ReadyForTestCase", "ReadyForTestCase", 6, 6)
  <2>1. Weight(<<"begin_test_case", "Attempt invalid flights">>) = 6
    BY CaseWeights, Zenon
  <2>2. 6 < 7 /\ 6 <= 6 /\ 7 <= 6 + 1 /\ 6 \in Nat /\ 7 \in Nat \ {0}
    OBVIOUS
  <2>3. Part(a, us, "ReadyForTestStep", "ReadyForTestStep", 7, 6)
    BY <1>5, <1>7
  <2> QED
    BY <1>4, <2>1, <2>2, <2>3, PartCase, Zenon
<1>8. c \in CallsOf(us)
  BY <1>1, CallsMade DEF PlannerCalls
<1>9. Before(c) = "RunningTestStep" /\ Afterwards(c) = "RunningTestStep"
  BY PhasesOfCalls DEF PlannerCalls
<1>10. Weight(c) = 8
  BY Weights, Zenon
<1> HIDE DEF c
<1>11. Part(<<c>>, us, "RunningTestStep", "RunningTestStep", 8, 8)
  BY <1>8, <1>9, <1>10, PartOne
<1>12. Formed(v, us) /\ Part(v, us, "ReadyForTestCase", "ReadyForTestCase", 7, 8)
  <2>1. Part(Step(<<c>>), us, "ReadyForTestStep", "ReadyForTestStep", 8, 8)
    BY <1>11, PartStep
  <2>2. Formed(Step(<<c>>), us)
    BY <1>11, FormedStep DEF Part
  <2>3. Weight(<<"begin_test_case", "Plan valid flight">>) = 7
    BY CaseWeights, Zenon
  <2>4. 7 < 8 /\ 7 <= 8 /\ 8 <= 8 + 1 /\ 7 \in Nat /\ 8 \in Nat \ {0} /\ 8 \in Nat
    OBVIOUS
  <2>5. Part(v, us, "ReadyForTestCase", "ReadyForTestCase", 7, 8)
    BY <1>4, <2>1, <2>3, <2>4, PartCase, Zenon
  <2> QED
    BY <1>4, <2>2, <2>5, FormedCase
<1>13. Validation(us) = Run((s \o t) \o v)
  BY DEF Validation, a, c
<1> HIDE DEF s, t, v
<1>14. Formed(s \o t, us) /\ Formed((s \o t) \o v, us)
  BY <1>3, <1>6, <1>12, FormedJoin
<1>15. ASSUME Invalid = 1 PROVE Scripted(Run((s \o t) \o v), us)
  <2>1. /\ Formed(s \o t, us) /\ Asks(s \o t, us)
        /\ Part(s \o t, us, "ReadyForTestCase", "ReadyForTestCase", 1, 6)
    BY <1>3, <1>6, <1>7, <1>15, CasesJoin
  <2>2. /\ Formed((s \o t) \o v, us) /\ Asks((s \o t) \o v, us)
        /\ Part((s \o t) \o v, us, "ReadyForTestCase", "ReadyForTestCase", 1, 8)
    BY <1>12, <2>1, CasesJoin
  <2> QED
    BY <2>2, CasesScripted
<1> QED
  BY <1>13, <1>14, <1>15, FormedRun

\* The scenarios without planners
LEMMA OthersScripted ==
    /\ Scripted(RecordPlanners, <<>>)
    /\ Scripted(StartMessageSigningReport, <<>>)
    /\ Scripted(FinalizeMessageSigningReport, <<>>)
<1> DEFINE us == <<>>
           c == <<"get_status", None>>
<1>1. \A s : Asks(s, us)
  BY HeldByNone DEF Asks
<1>2. c \in CallsOf(us)
  BY CallsMade DEF OtherCalls
<1>3. Weight(c) = 0
  BY Weights, Zenon
<1>4. Before(c) = "RunningTestStep" /\ Afterwards(c) = "RunningTestStep"
  BY PhasesOfCalls DEF OtherCalls
<1>5. {"Start message signing", "Finalize message signing"} \subseteq CaseNames
  BY DEF CaseNames
<1>6. /\ Weight(<<"begin_test_case", "Start message signing">>) = 1
      /\ Weight(<<"begin_test_case", "Finalize message signing">>) = 1
  BY CaseWeights, Zenon
<1>7. StartMessageSigningReport = Run(Case("Start message signing", Step(<<c>>) \o Step(<<>>)))
  BY DEF StartMessageSigningReport
<1> HIDE DEF us, c
<1>8. Formed(<<>>, us) /\ \A p, lo, hi : Part(<<>>, us, p, p, lo, hi)
  BY HeldByNone, PartNone DEF Formed, Closed
<1>9. Part(<<c>>, us, "RunningTestStep", "RunningTestStep", 2, 1)
  BY <1>2, <1>3, <1>4, PartOne
<1>10. /\ Part(Step(<<>>), us, "ReadyForTestStep", "ReadyForTestStep", 2, 1)
       /\ Part(Step(<<c>>), us, "ReadyForTestStep", "ReadyForTestStep", 2, 1)
  BY <1>8, <1>9, PartStep
<1>11. Formed(Step(<<>>), us) /\ Formed(Step(<<c>>), us)
  BY <1>9, HeldByNone, FormedStep DEF Part
<1>12. Scripted(RecordPlanners, us)
  <2>1. Part(<<>>, us, "ReadyForTestCase", "ReadyForTestCase", 1, 0)
    BY <1>8
  <2> QED
    BY <1>1, <1>8, <2>1, CasesScripted DEF RecordPlanners
<1>13. 1 < 2 /\ 1 <= 1 /\ 2 <= 1 + 1 /\ 1 \in Nat /\ 2 \in Nat \ {0} /\ 2 \in Nat /\ 2 <= 2
  OBVIOUS
<1>13a. 1 < 12
  OBVIOUS
<1>14. Scripted(FinalizeMessageSigningReport, us)
  <2> DEFINE t == Case("Finalize message signing", Step(<<>>))
  <2>1. Part(t, us, "ReadyForTestCase", "ReadyForTestCase", 1, 1)
    BY <1>5, <1>6, <1>10, <1>13, PartCase, Zenon
  <2>2. Formed(t, us)
    BY <1>5, <1>11, FormedCase
  <2> QED
    BY <1>1, <1>13a, <2>1, <2>2, CasesScripted DEF FinalizeMessageSigningReport
<1>15. Scripted(StartMessageSigningReport, us)
  <2> DEFINE x == Step(<<c>>) \o Step(<<>>)
             t == Case("Start message signing", x)
  <2>1. Part(x, us, "ReadyForTestStep", "ReadyForTestStep", 2, 1)
    BY <1>10, <1>13, PartJoin
  <2>2. Formed(x, us)
    BY <1>11, FormedJoin
  <2> HIDE DEF x
  <2>3. Part(t, us, "ReadyForTestCase", "ReadyForTestCase", 1, 1)
    BY <1>5, <1>6, <1>13, <2>1, PartCase, Zenon
  <2>4. Formed(t, us)
    BY <1>5, <2>2, FormedCase
  <2>5. Scripted(Run(t), us)
    BY <1>1, <1>13a, <2>3, <2>4, CasesScripted
  <2> QED
    BY <1>7, <2>5 DEF x
<1> QED
  BY <1>12, <1>14, <1>15 DEF us

\* Every scenario of a suite has a type, and as many planners as it takes
LEMMA ScenarioNode ==
    ASSUME NEW n \in Nodes, n.kind = "scenario"
    PROVE  /\ n.type \in DOMAIN Roles /\ n.planners \in Seq(PlannerSet) /\ Len(n.planners) = Roles[n.type]
           /\ ToSet(n.planners) \subseteq PlannerSet
           /\ n # None
<1>1. n.type \in DOMAIN Roles /\ n.planners \in Seq(PlannerSet) /\ Len(n.planners) = Roles[n.type]
  BY NodesAssumption
<1>2. ToSet(n.planners) \subseteq PlannerSet
  BY <1>1, Held
<1> QED
  BY <1>1, <1>2, ConstantsAssumption

\* The scripts of all scenarios
LEMMA AllScripted ==
    ASSUME NEW n \in Nodes, n.kind = "scenario"
    PROVE  /\ Formed(Script(n), n.planners)
           /\ (n.type = "Validation" => Invalid = 1) => Scripted(Script(n), n.planners)
<1> DEFINE us == n.planners
<1>1. n.type \in DOMAIN Roles /\ us \in Seq(PlannerSet) /\ Len(us) = Roles[n.type]
  BY ScenarioNode
<1>2. n.type \in {"NominalPlanning", "NominalPlanningPriority", "Validation", "RecordPlanners",
                  "StartMessageSigningReport", "FinalizeMessageSigningReport"}
  BY <1>1 DEF Roles
<1>3. /\ Roles["NominalPlanning"] = 2 /\ Roles["NominalPlanningPriority"] = 2 /\ Roles["Validation"] = 1
      /\ Roles["RecordPlanners"] = 0 /\ Roles["StartMessageSigningReport"] = 0
      /\ Roles["FinalizeMessageSigningReport"] = 0
  BY DEF Roles
<1>4. \A s : Scripted(s, us) => Formed(s, us)
  BY DEF Scripted
<1>5. Len(us) = 0 => us = <<>>
  BY <1>1
<1>6. CASE n.type = "NominalPlanning"
  <2>1. Script(n) = NominalPlanning(us)
    BY <1>6 DEF Script
  <2> QED
    BY <1>1, <1>3, <1>4, <1>6, <2>1, NominalPlanningScripted
<1>7. CASE n.type = "NominalPlanningPriority"
  <2>1. Script(n) = NominalPlanningPriority(us)
    BY <1>7 DEF Script
  <2> QED
    BY <1>1, <1>3, <1>4, <1>7, <2>1, NominalPlanningPriorityScripted
<1>8. CASE n.type = "Validation"
  <2>1. Script(n) = Validation(us)
    BY <1>8 DEF Script
  <2> QED
    BY <1>1, <1>3, <1>8, <2>1, ValidationScripted
<1>9. CASE n.type = "RecordPlanners"
  <2>1. Script(n) = RecordPlanners /\ us = <<>>
    BY <1>1, <1>3, <1>5, <1>9 DEF Script
  <2> QED
    BY <1>4, <2>1, OthersScripted
<1>10. CASE n.type = "StartMessageSigningReport"
  <2>1. Script(n) = StartMessageSigningReport /\ us = <<>>
    BY <1>1, <1>3, <1>5, <1>10 DEF Script
  <2> QED
    BY <1>4, <2>1, OthersScripted
<1>11. CASE n.type = "FinalizeMessageSigningReport"
  <2>1. Script(n) = FinalizeMessageSigningReport /\ us = <<>>
    BY <1>1, <1>3, <1>5, <1>11 DEF Script
  <2> QED
    BY <1>4, <2>1, OthersScripted
<1> QED
  BY <1>2, <1>6, <1>7, <1>8, <1>9, <1>10, <1>11

-----------------------------------------------------------------------------
(***************************************************************************)
(* Answers                                                                 *)
(***************************************************************************)
Answer ==
    [fault : SUBSET Participants, failed : SUBSET Severities, blamed : SUBSET PlannerSet,
     then : {"next", "stop", "leave", "raise"},
     effect : {"none", "know", "clear", "plan", "plan_unknown", "claim"}]

\* A flight that is planned without an ID being kept comes from a faulty answer
\* and is hidden unless that fails a check or raises; a test step is left only
\* after a faulty answer
Noticed(c, r) ==
    /\ r.effect = "plan_unknown" => r.failed # {} \/ r.then \in {"raise", "next"}
    /\ r.then = "leave" => r.fault # {} /\ c[1] \in {"find_op_intent", "get_full_op_intent"}
    /\ r.effect # "none" => c[1] \in PlannerCalls

\* An answer that is not faulty fails a check or raises only for a planner that
\* has not told its capabilities, a flight planned in occupied airspace, or a
\* second flight in free airspace
Fair(c, r) ==
    r.fault = {} =>
        /\ r.failed # {} \/ r.then = "raise" =>
              \/ c[1] \in {"support", "prerequisite"} /\ c[2] \notin known
              \/ c[1] = "inject" /\ Occupied
              \/ c[1] = "attempt_conflicting" /\ ~Occupied
        /\ c[1] = "information" => r.effect = "know"
        /\ c[1] = "clear_area" <=> r.effect = "clear"
        /\ c[1] = "inject" /\ ~Occupied => r.effect = "plan"
        /\ r.effect = "plan" =>
              c[1] \in {"inject", "inject_priority"} \/ (c[1] = "attempt_conflicting" /\ ~Occupied)
        /\ r.effect \notin {"plan_unknown", "claim"}

\* The answers of the scripts
LEMMA Answered ==
    \A f \in SUBSET Participants, b \in SUBSET PlannerSet, t \in {"next", "stop", "leave", "raise"},
       e \in {"none", "know", "clear", "plan", "plan_unknown", "claim"} :
        /\ Result(f, {}, b, t, e) \in Answer
        /\ Result(f, {"Medium"}, b, t, e) \in Answer
        /\ Result(f, {"High"}, b, t, e) \in Answer
BY DEF Result, Answer, Severities

\* What can come of a call
LEMMA Answers ==
    ASSUME NEW c, c[1] \in PlannerCalls \cup OtherCalls,
           c[1] \in PlannerCalls => c[2] \in PlannerSet /\ uss1 \in PlannerSet,
           NEW r \in Results(c)
    PROVE  r \in Answer /\ Noticed(c, r) /\ Fair(c, r)
<1> DEFINE u == c[2]
<1>0. /\ {} \in SUBSET Participants /\ {} \in SUBSET PlannerSet /\ {None} \in SUBSET Participants
      /\ c[1] \in PlannerCalls =>
            /\ {u} \in SUBSET Participants /\ {u} \in SUBSET PlannerSet /\ {uss1} \in SUBSET PlannerSet
  BY DEF Participants
<1>1. CASE c[1] = "information"
  <2>1. r \in information(c[2])
    BY <1>1 DEF Results
  <2>2. c[1] \in PlannerCalls
    BY <1>1 DEF PlannerCalls
  <2>3. r \in Answer
    BY <1>0, <2>1, <2>2, Answered DEF information, Ok, Raised, Wrong, Unnoticed
  <2>4. Noticed(c, r)
    BY <1>1, <2>1, <2>2 DEF Noticed, information, Ok, Raised, Wrong, Unnoticed, Result
  <2>5. Fair(c, r)
    BY <1>1, <2>1 DEF Fair, information, Ok, Raised, Wrong, Unnoticed, Result
  <2> QED
    BY <2>3, <2>4, <2>5
<1>2. CASE c[1] = "support"
  <2>1. r \in support(c[2])
    BY <1>2 DEF Results
  <2>2. c[1] \in PlannerCalls
    BY <1>2 DEF PlannerCalls
  <2>3. r \in Answer
    BY <1>0, <2>1, <2>2, Answered DEF support, Ok, Raised, Wrong, Unnoticed
  <2>4. Noticed(c, r)
    BY <1>2, <2>1, <2>2 DEF Noticed, support, Ok, Raised, Wrong, Unnoticed, Result
  <2>5. Fair(c, r)
    BY <1>2, <2>1 DEF Fair, support, Ok, Raised, Wrong, Unnoticed, Result
  <2> QED
    BY <2>3, <2>4, <2>5
<1>3. CASE c[1] = "prerequisite"
  <2>1. r \in prerequisite(c[2])
    BY <1>3 DEF Results
  <2>2. c[1] \in PlannerCalls
    BY <1>3 DEF PlannerCalls
  <2>3. r \in Answer
    BY <1>0, <2>1, <2>2, Answered DEF prerequisite, Ok, Raised, Wrong, Unnoticed
  <2>4. Noticed(c, r)
    BY <1>3, <2>1, <2>2 DEF Noticed, prerequisite, Ok, Raised, Wrong, Unnoticed, Result
  <2>5. Fair(c, r)
    BY <1>3, <2>1 DEF Fair, prerequisite, Ok, Raised, Wrong, Unnoticed, Result
  <2> QED
    BY <2>3, <2>4, <2>5
<1>4. CASE c[1] = "clear_area"
  <2>1. r \in clear_area(c[2])
    BY <1>4 DEF Results
  <2>2. c[1] \in PlannerCalls
    BY <1>4 DEF PlannerCalls
  <2>3. r \in Answer
    BY <1>0, <2>1, <2>2, Answered DEF clear_area, Ok, Raised, Wrong, Unnoticed
  <2>4. Noticed(c, r)
    BY <1>4, <2>1, <2>2 DEF Noticed, clear_area, Ok, Raised, Wrong, Unnoticed, Result
  <2>5. Fair(c, r)
    BY <1>4, <2>1 DEF Fair, clear_area, Ok, Raised, Wrong, Unnoticed, Result
  <2> QED
    BY <2>3, <2>4, <2>5
<1>5. CASE c[1] = "inject"
  <2>1. r \in inject_successful_flight_intent(c[2], FALSE)
    BY <1>5 DEF Results
  <2>2. c[1] \in PlannerCalls
    BY <1>5 DEF PlannerCalls
  <2>3. r \in Answer
    BY <1>0, <2>1, <2>2, Answered DEF inject_successful_flight_intent, LostAnswer, Ok, Raised, Wrong, Unnoticed
  <2>4. Noticed(c, r)
    BY <1>5, <2>1, <2>2 DEF Noticed, inject_successful_flight_intent, LostAnswer, Ok, Raised, Wrong, Unnoticed, Result
  <2>5. Fair(c, r)
    BY <1>5, <2>1 DEF Fair, inject_successful_flight_intent, LostAnswer, Ok, Raised, Wrong, Unnoticed, Result
  <2> QED
    BY <2>3, <2>4, <2>5
<1>6. CASE c[1] = "inject_priority"
  <2>1. r \in inject_successful_flight_intent(c[2], TRUE)
    BY <1>6 DEF Results
  <2>2. c[1] \in PlannerCalls
    BY <1>6 DEF PlannerCalls
  <2>3. r \in Answer
    BY <1>0, <2>1, <2>2, Answered DEF inject_successful_flight_intent, LostAnswer, Ok, Raised, Wrong, Unnoticed
  <2>4. Noticed(c, r)
    BY <1>6, <2>1, <2>2 DEF Noticed, inject_successful_flight_intent, LostAnswer, Ok, Raised, Wrong, Unnoticed, Result
  <2>5. Fair(c, r)
    BY <1>6, <2>1 DEF Fair, inject_successful_flight_intent, LostAnswer, Ok, Raised, Wrong, Unnoticed, Result
  <2> QED
    BY <2>3, <2>4, <2>5
<1>7. CASE c[1] = "attempt_conflicting"
  <2>1. r \in attempt_conflicting(c[2])
    BY <1>7 DEF Results
  <2>2. c[1] \in PlannerCalls
    BY <1>7 DEF PlannerCalls
  <2>3. r \in Answer
    BY <1>0, <2>1, <2>2, Answered DEF attempt_conflicting, LostAnswer, Ok, Raised, Wrong, Unnoticed
  <2>4. Noticed(c, r)
    BY <1>7, <2>1, <2>2 DEF Noticed, attempt_conflicting, LostAnswer, Ok, Raised, Wrong, Unnoticed, Result
  <2>5. Fair(c, r)
    BY <1>7, <2>1 DEF Fair, attempt_conflicting, LostAnswer, Ok, Raised, Wrong, Unnoticed, Result
  <2> QED
    BY <2>3, <2>4, <2>5
<1>8. CASE c[1] = "attempt_invalid"
  <2>1. r \in attempt_invalid(c[2])
    BY <1>8 DEF Results
  <2>2. c[1] \in PlannerCalls
    BY <1>8 DEF PlannerCalls
  <2>3. r \in Answer
    BY <1>0, <2>1, <2>2, Answered DEF attempt_invalid, LostAnswer, Ok, Raised, Wrong, Unnoticed
  <2>4. Noticed(c, r)
    BY <1>8, <2>1, <2>2 DEF Noticed, attempt_invalid, LostAnswer, Ok, Raised, Wrong, Unnoticed, Result
  <2>5. Fair(c, r)
    BY <1>8, <2>1 DEF Fair, attempt_invalid, LostAnswer, Ok, Raised, Wrong, Unnoticed, Result
  <2> QED
    BY <2>3, <2>4, <2>5
<1>9. CASE c[1] = "find_op_intent"
  <2>1. r \in find_op_intent(c[2])
    BY <1>9 DEF Results
  <2>2. c[1] \in PlannerCalls
    BY <1>9 DEF PlannerCalls
  <2>3. r \in Answer
    BY <1>0, <2>1, <2>2, Answered DEF find_op_intent, Ok, Raised, Wrong, Unnoticed
  <2>4. Noticed(c, r)
    BY <1>9, <2>1, <2>2 DEF Noticed, find_op_intent, Ok, Raised, Wrong, Unnoticed, Result
  <2>5. Fair(c, r)
    BY <1>9, <2>1 DEF Fair, find_op_intent, Ok, Raised, Wrong, Unnoticed, Result
  <2> QED
    BY <2>3, <2>4, <2>5
<1>10. CASE c[1] = "get_full_op_intent"
  <2>1. r \in get_full_op_intent(c[2])
    BY <1>10 DEF Results
  <2>2. c[1] \in PlannerCalls
    BY <1>10 DEF PlannerCalls
  <2>3. r \in Answer
    BY <1>0, <2>1, <2>2, Answered DEF get_full_op_intent, Ok, Raised, Wrong, Unnoticed
  <2>4. Noticed(c, r)
    BY <1>10, <2>1, <2>2 DEF Noticed, get_full_op_intent, Ok, Raised, Wrong, Unnoticed, Result
  <2>5. Fair(c, r)
    BY <1>10, <2>1 DEF Fair, get_full_op_intent, Ok, Raised, Wrong, Unnoticed, Result
  <2> QED
    BY <2>3, <2>4, <2>5
<1>11. CASE c[1] = "get_status"
  <2>1. r \in get_status
    BY <1>11 DEF Results
  <2>3. r \in Answer
    BY <1>0, <2>1, Answered DEF get_status, Ok, Raised
  <2>4. Noticed(c, r)
    BY <1>11, <2>1 DEF Noticed, get_status, Ok, Raised, Result
  <2>5. Fair(c, r)
    BY <1>11, <2>1 DEF Fair, get_status, Ok, Raised, Wrong, Unnoticed, Result
  <2> QED
    BY <2>3, <2>4, <2>5
<1> QED
  BY <1>1, <1>2, <1>3, <1>4, <1>5, <1>6, <1>7, <1>8, <1>9, <1>10, <1>11 DEF PlannerCalls, OtherCalls

-----------------------------------------------------------------------------
(***************************************************************************)
(* The shape of a state: types, the phases of a scenario, the reports      *)
(***************************************************************************)

\* The open report and the lists of actions are not touched inside a scenario
LEMMA KeepsReports ==
    ASSUME Reports, VerdictOfReports, UNCHANGED <<stage, stack, verdict, node, log>>
    PROVE  Reports' /\ VerdictOfReports'
<1>1. Ended' = Ended
  BY DEF Ended
<1>2. Reports'
  BY <1>1 DEF Reports
<1> QED
  BY <1>2 DEF VerdictOfReports

\* A step of the running scenario
LEMMA ScenarioStep ==
    ASSUME Shape, UNCHANGED <<stage, stack, verdict, node, log>>,
           phase' \in Phases, report' \in Report, known' \in SUBSET PlannerSet,
           created' \in [PlannerSet -> SUBSET Nat], flights' \in [PlannerSet -> SUBSET Nat],
           ids' \in Nat, faults' \in Nat, hidden' \in SUBSET Nat, Cleaning'
    PROVE  Shape'
<1>1. Reports' /\ VerdictOfReports'
  BY KeepsReports DEF Shape
<1>2. TypeInv'
  BY DEF Shape, TypeInv
<1> QED
  BY <1>1, <1>2 DEF Shape

\* The running scenario is one of the suite's
LEMMA RunningScenario ==
    ASSUME Shape, node # None
    PROVE  /\ node \in Nodes /\ node.kind = "scenario"
           /\ node.planners \in Seq(PlannerSet) /\ ToSet(node.planners) \subseteq PlannerSet
           /\ script \in Seq(CallsOf(node.planners)) /\ Closed(script)
<1>1. node \in Nodes /\ node.kind = "scenario"
  BY DEF Shape, TypeInv, Reports
<1>2. script \in Seq(CallsOf(node.planners)) /\ Closed(script)
  BY DEF Shape, Cleaning
<1> QED
  BY <1>1, <1>2, ScenarioNode

\* The test case that a scenario begins
LEMMA CaseBegun ==
    ASSUME NEW us, NEW c \in CallsOf(us), c[1] = "begin_test_case"
    PROVE  c[2] \in CaseNames
<1>1. c \notin {<<m>> : m \in Methods \ {"begin_test_case"}}
  OBVIOUS
<1>2. c \notin PlannerCalls \X ToSet(us) /\ c \notin OtherCalls \X {None}
  BY DEF PlannerCalls, OtherCalls
<1> QED
  BY <1>1, <1>2 DEF CallsOf

\* What is closed stays so without its first calls
LEMMA ClosedRest ==
    ASSUME NEW C, NEW s \in Seq(C), Closed(s), NEW t \in Seq(C), NEW k \in Nat,
           k <= Len(s), Len(t) = Len(s) - k, \A i \in 1..Len(t) : t[i] = s[i + k]
    PROVE  Closed(t)
<1>1. Len(s) \in Nat /\ Len(t) \in Nat
  OBVIOUS
<1>2. SUFFICES ASSUME NEW i \in 1..Len(t), t[i][1] \in {"find_op_intent", "get_full_op_intent"}
               PROVE  \E j \in 1..Len(t) : i < j /\ t[j][1] = "end_test_step"
  BY DEF Closed
<1>3. i + k \in 1..Len(s) /\ s[i + k] = t[i]
  BY <1>1
<1>4. PICK j \in 1..Len(s) : i + k < j /\ s[j][1] = "end_test_step"
  BY <1>2, <1>3 DEF Closed
<1>5. j - k \in 1..Len(t) /\ i < j - k /\ (j - k) + k = j
  BY <1>1, <1>3, <1>4
<1>6. t[j - k] = s[j]
  BY <1>5
<1> QED
  BY <1>4, <1>5, <1>6

\* The method of the scenario that the script calls is in its phase ...
Forward ==
    /\ Running /\ script # <<>> /\ Head(script)[1] \in Methods
    /\ phase = Before(Head(script)) /\ phase' = Afterwards(Head(script)) /\ script' = Tail(script)
    /\ report' \in Report
    /\ report'.failed = report.failed /\ report'.error = report.error /\ report'.faulty = report.faulty
    /\ report'.cases = IF Head(script)[1] = "begin_test_case" THEN report.cases \cup {Head(script)[2]}
                       ELSE report.cases
    /\ UNCHANGED <<known, sweep, to_remove, stage, stack, verdict, node, log>>
    /\ UNCHANGED <<created, flights, ids, faults, hidden>>

\* ... or it raises
Breaks ==
    /\ Running /\ script # <<>> /\ Head(script)[1] \in Methods
    /\ \/ phase # Before(Head(script))
       \/ Head(script)[1] = "begin_test_case" /\ Head(script)[2] \in report.cases
    /\ phase' = "Complete" /\ script' = <<>>
    /\ report' \in Report /\ report'.error = TRUE /\ report'.faulty = report.faulty
    /\ UNCHANGED <<known, sweep, to_remove, stage, stack, verdict, node, log>>
    /\ UNCHANGED <<created, flights, ids, faults, hidden>>

\* A method that expects one phase
LEMMA MethodStep ==
    ASSUME Shape, NEW op \in Methods \ {"begin_test_case", "end_test_scenario"}, NEW p, NEW q,
           Method(op, {p}, q), Calls(op) => Before(Head(script)) = p /\ Afterwards(Head(script)) = q
    PROVE  Forward \/ Breaks
<1>1. /\ Calls(op) /\ Head(script)[1] = op /\ Running /\ script # <<>>
      /\ UNCHANGED <<stage, stack, verdict, node, created, flights, ids, faults, hidden, log>>
  BY DEF Method, Calls, tree, world
<1>2. report \in Report
  BY DEF Shape, TypeInv
<1>3. Before(Head(script)) = p /\ Afterwards(Head(script)) = q
  BY <1>1
<1>4. CASE phase = p
  <2>1. phase' = q /\ script' = Tail(script) /\ UNCHANGED <<report, known, sweep, to_remove>>
    BY <1>4 DEF Method
  <2> QED
    BY <1>1, <1>2, <1>3, <1>4, <2>1 DEF Forward
<1>5. CASE phase # p
  <2>1. record_execution_error
    BY <1>5 DEF Method
  <2>2. report' \in Report /\ report'.error = TRUE /\ report'.faulty = report.faulty
    BY <1>2, <2>1 DEF record_execution_error, Report
  <2>3. phase' = "Complete" /\ script' = <<>> /\ UNCHANGED <<known, sweep, to_remove>>
    BY <2>1 DEF record_execution_error
  <2> QED
    BY <1>1, <1>3, <1>5, <2>2, <2>3 DEF Breaks
<1> QED
  BY <1>4, <1>5

\* A test case may begin
LEMMA BeginTestCaseStep ==
    ASSUME Shape, begin_test_case
    PROVE  Forward \/ Breaks
<1>1. /\ Head(script)[1] = "begin_test_case" /\ Running /\ script # <<>>
      /\ UNCHANGED <<stage, stack, verdict, node, created, flights, ids, faults, hidden, log>>
  BY DEF begin_test_case, Calls, tree, world
<1>2. report \in Report /\ "begin_test_case" \in Methods
  BY DEF Shape, TypeInv, Methods
<1>3. Before(Head(script)) = "ReadyForTestCase" /\ Afterwards(Head(script)) = "ReadyForTestStep"
  BY <1>1 DEF Before, Afterwards
<1>4. CASE phase = "ReadyForTestCase" /\ Head(script)[2] \notin report.cases
  <2>1. /\ phase' = "ReadyForTestStep" /\ script' = Tail(script)
        /\ report' = [report EXCEPT !.cases = @ \cup {Head(script)[2]}]
        /\ UNCHANGED <<known, sweep, to_remove>>
    BY <1>4 DEF begin_test_case
  <2>2. Head(script)[2] \in CaseNames
    <3>1. Head(script) \in CallsOf(node.planners)
      BY <1>1, RunningScenario, Rest DEF Running
    <3> QED
      BY <1>1, <3>1, CaseBegun
  <2>3. report' \in Report
    BY <1>2, <2>1, <2>2 DEF Report
  <2>4. /\ report'.failed = report.failed /\ report'.error = report.error /\ report'.faulty = report.faulty
        /\ report'.cases = report.cases \cup {Head(script)[2]}
    BY <1>2, <2>1 DEF Report
  <2> QED
    BY <1>1, <1>2, <1>3, <1>4, <2>1, <2>3, <2>4 DEF Forward
<1>5. CASE ~(phase = "ReadyForTestCase" /\ Head(script)[2] \notin report.cases)
  <2>1. record_execution_error
    BY <1>5 DEF begin_test_case
  <2>2. report' \in Report /\ report'.error = TRUE /\ report'.faulty = report.faulty
    BY <1>2, <2>1 DEF record_execution_error, Report
  <2>3. phase' = "Complete" /\ script' = <<>> /\ UNCHANGED <<known, sweep, to_remove>>
    BY <2>1 DEF record_execution_error
  <2> QED
    BY <1>1, <1>2, <1>3, <1>5, <2>2, <2>3 DEF Breaks
<1> QED
  BY <1>4, <1>5

\* The test cases have ended
LEMMA EndTestScenarioStep ==
    ASSUME Shape, end_test_scenario
    PROVE  Forward \/ Breaks
<1>1. /\ Head(script)[1] = "end_test_scenario" /\ Running /\ script # <<>>
      /\ UNCHANGED <<stage, stack, verdict, node, created, flights, ids, faults, hidden, log>>
  BY DEF end_test_scenario, Calls, tree, world
<1>2. report \in Report /\ "end_test_scenario" \in Methods
  BY DEF Shape, TypeInv, Methods
<1>3. Before(Head(script)) = "ReadyForTestCase" /\ Afterwards(Head(script)) = "ReadyForCleanup"
  BY <1>1 DEF Before, Afterwards
<1>4. CASE phase = "ReadyForTestCase"
  <2>1. /\ phase' = "ReadyForCleanup" /\ script' = Tail(script)
        /\ report' = [report EXCEPT !.ended = TRUE]
        /\ UNCHANGED <<known, sweep, to_remove>>
    BY <1>4 DEF end_test_scenario
  <2>2. report' \in Report
    BY <1>2, <2>1 DEF Report
  <2>3. /\ report'.failed = report.failed /\ report'.error = report.error /\ report'.faulty = report.faulty
        /\ report'.cases = report.cases
    BY <1>2, <2>1 DEF Report
  <2> QED
    BY <1>1, <1>2, <1>3, <1>4, <2>1, <2>2, <2>3 DEF Forward
<1>5. CASE phase # "ReadyForTestCase"
  <2>1. record_execution_error
    BY <1>5 DEF end_test_scenario
  <2>2. report' \in Report /\ report'.error = TRUE /\ report'.faulty = report.faulty
    BY <1>2, <2>1 DEF record_execution_error, Report
  <2>3. phase' = "Complete" /\ script' = <<>> /\ UNCHANGED <<known, sweep, to_remove>>
    BY <2>1 DEF record_execution_error
  <2> QED
    BY <1>1, <1>2, <1>3, <1>5, <2>2, <2>3 DEF Breaks
<1> QED
  BY <1>4, <1>5

\* The methods of a scenario check their phase
Methodical ==
    \/ begin_test_scenario \/ begin_test_case \/ begin_test_step
    \/ end_test_step \/ end_test_case \/ end_test_scenario

\* Every method goes forward or raises
LEMMA MethodsStep ==
    ASSUME Shape, Methodical
    PROVE  Forward \/ Breaks
<1>1. CASE begin_test_scenario
  <2>1. Calls("begin_test_scenario") =>
           Before(Head(script)) = "NotStarted" /\ Afterwards(Head(script)) = "ReadyForTestCase"
    BY DEF Calls, Before, Afterwards
  <2> QED
    BY <1>1, <2>1, MethodStep DEF begin_test_scenario, Methods
<1>2. CASE begin_test_step
  <2>1. Calls("begin_test_step") =>
           Before(Head(script)) = "ReadyForTestStep" /\ Afterwards(Head(script)) = "RunningTestStep"
    BY DEF Calls, Before, Afterwards
  <2> QED
    BY <1>2, <2>1, MethodStep DEF begin_test_step, Methods
<1>3. CASE end_test_step
  <2>1. Calls("end_test_step") =>
           Before(Head(script)) = "RunningTestStep" /\ Afterwards(Head(script)) = "ReadyForTestStep"
    BY DEF Calls, Before, Afterwards
  <2> QED
    BY <1>3, <2>1, MethodStep DEF end_test_step, Methods
<1>4. CASE end_test_case
  <2>1. Calls("end_test_case") =>
           Before(Head(script)) = "ReadyForTestStep" /\ Afterwards(Head(script)) = "ReadyForTestCase"
    BY DEF Calls, Before, Afterwards
  <2> QED
    BY <1>4, <2>1, MethodStep DEF end_test_case, Methods
<1> QED
  BY <1>1, <1>2, <1>3, <1>4, BeginTestCaseStep, EndTestScenarioStep DEF Methodical

\* No call leads to the cleanup by itself
LEMMA PhasesLeft ==
    \A c : /\ Afterwards(c) \in Phases \ {"CleaningUp", "Complete"}
           /\ Before(c) \in Phases \ {"CleaningUp", "Complete"}
BY DEF Before, Afterwards, Phases

\* The methods of a scenario keep the shape
LEMMA MethodsKeepShape ==
    ASSUME Shape, Forward \/ Breaks
    PROVE  Shape'
<1>1. /\ node # None /\ script # <<>>
      /\ UNCHANGED <<known, sweep, to_remove, stage, stack, verdict, node, log>>
      /\ UNCHANGED <<created, flights, ids, faults, hidden>>
      /\ report' \in Report
  BY DEF Forward, Breaks, Running
<1>2. script \in Seq(CallsOf(node.planners)) /\ Closed(script)
  BY <1>1, RunningScenario
<1>3. to_remove = None
  BY <1>1 DEF Shape, Cleaning
<1>4. /\ known' \in SUBSET PlannerSet /\ ids' \in Nat /\ faults' \in Nat /\ hidden' \in SUBSET Nat
      /\ created' \in [PlannerSet -> SUBSET Nat] /\ flights' \in [PlannerSet -> SUBSET Nat]
  BY <1>1 DEF Shape, TypeInv
<1>5. CASE Forward
  <2>1. Len(script) \in Nat /\ Len(script) > 0 /\ Tail(script) \in Seq(CallsOf(node.planners))
    BY <1>1, <1>2, Rest
  <2>2. Closed(Tail(script))
    <3>1. Len(Tail(script)) = Len(script) - 1 /\ \A i \in 1..Len(Tail(script)) : Tail(script)[i] = script[i + 1]
      BY <1>1, <1>2, Rest
    <3>2. 1 \in Nat /\ 1 <= Len(script)
      BY <2>1
    <3> QED
      BY <1>2, <2>1, <3>1, <3>2, ClosedRest
  <2>3. script' = Tail(script) /\ phase' \in Phases \ {"CleaningUp", "Complete"}
    BY <1>5, PhasesLeft DEF Forward
  <2>4. Cleaning'
    BY <1>1, <1>3, <2>1, <2>2, <2>3 DEF Cleaning
  <2> QED
    BY <1>1, <1>4, <2>3, <2>4, ScenarioStep
<1>6. CASE Breaks
  <2>1. script' = <<>> /\ phase' = "Complete"
    BY <1>6 DEF Breaks
  <2>2. <<>> \in Seq(CallsOf(node.planners)) /\ Closed(<<>>)
    BY HeldByNone DEF Closed
  <2>3. Cleaning'
    BY <1>1, <1>3, <2>1, <2>2 DEF Cleaning
  <2>4. phase' \in Phases
    BY <2>1 DEF Phases
  <2> QED
    BY <1>1, <1>4, <2>3, <2>4, ScenarioStep
<1> QED
  BY <1>5, <1>6

\* The answer to the call of a planner or the DSS
Asked(r) ==
    LET c == Head(script) IN
    /\ node # None /\ script # <<>> /\ phase \notin {"CleaningUp", "Complete"} /\ to_remove = None
    /\ \/ c[1] \in PlannerCalls /\ c[2] \in ToSet(node.planners)
       \/ c[1] \in OtherCalls /\ c[2] = None
    /\ r \in Answer /\ Noticed(c, r) /\ Fair(c, r)
    /\ faults' = IF r.fault # {} THEN faults + 1 ELSE faults
    /\ Keep(c[2], r)
    /\ ids' = IF r.effect \in {"plan", "plan_unknown", "claim"} THEN ids + 1 ELSE ids
    /\ known' = IF r.effect = "know" THEN known \cup {c[2]} ELSE known
    /\ Goes(r)
    /\ UNCHANGED <<stage, stack, verdict, node, sweep, to_remove, log>>

\* A query is answered
LEMMA QueryStep ==
    ASSUME Shape, Query
    PROVE  \E r : Asked(r)
<1> DEFINE c == Head(script)
<1>1. /\ node # None /\ script # <<>> /\ phase # "Complete" /\ c[1] \notin Methods
      /\ UNCHANGED <<stage, stack, verdict, node, sweep, to_remove, log>>
  BY DEF Query, Running, tree
<1>2. PICK r \in Results(c) :
          /\ faults' = IF r.fault # {} THEN faults + 1 ELSE faults
          /\ Keep(c[2], r)
          /\ ids' = IF r.effect \in {"plan", "plan_unknown", "claim"} THEN ids + 1 ELSE ids
          /\ known' = IF r.effect = "know" THEN known \cup {c[2]} ELSE known
          /\ Goes(r)
  BY DEF Query
<1>3. c \in CallsOf(node.planners)
  BY <1>1, RunningScenario, Rest
<1>4. \/ c[1] \in PlannerCalls /\ c[2] \in ToSet(node.planners)
      \/ c[1] \in OtherCalls /\ c[2] = None
  BY <1>1, <1>3, Queried
<1>5. r \in Answer /\ Noticed(c, r) /\ Fair(c, r)
  <2>1. node.planners \in Seq(PlannerSet) /\ ToSet(node.planners) \subseteq PlannerSet
    BY <1>1, RunningScenario
  <2>2. c[2] \in ToSet(node.planners) => c[2] \in PlannerSet /\ uss1 \in PlannerSet
    <3>1. SUFFICES ASSUME c[2] \in ToSet(node.planners) PROVE uss1 \in PlannerSet
      BY <2>1
    <3>2. PICK i \in 1..Len(node.planners) : node.planners[i] = c[2]
      BY <2>1, <3>1, Held
    <3>3. Len(node.planners) \in Nat
      BY <2>1
    <3>4. 1 \in 1..Len(node.planners)
      BY <3>2, <3>3
    <3> QED
      BY <2>1, <3>4 DEF uss1
  <2>3. c[1] \in PlannerCalls => c[1] \notin OtherCalls
    BY DEF PlannerCalls, OtherCalls
  <2>4. c[1] \in PlannerCalls \cup OtherCalls
    BY <1>4
  <2>5. c[1] \in PlannerCalls => c[2] \in PlannerSet /\ uss1 \in PlannerSet
    BY <1>4, <2>2, <2>3
  <2> HIDE DEF c
  <2> QED
    BY <2>4, <2>5, Answers
<1>6. phase \notin {"CleaningUp", "Complete"} /\ to_remove = None
  BY <1>1 DEF Shape, Cleaning
<1> QED
  BY <1>1, <1>2, <1>4, <1>5, <1>6 DEF Asked

\* What is left of the script after a test step that is left
LEMMA StepLeft ==
    ASSUME NEW C, NEW s \in Seq(C), s # <<>>, Closed(s),
           Head(s)[1] \in {"find_op_intent", "get_full_op_intent"}
    PROVE  AfterStep(s) \in Seq(C) /\ Closed(AfterStep(s))
<1> DEFINE E == {i \in DOMAIN s : s[i][1] = "end_test_step"}
           k == Min(E)
<1>1. Len(s) \in Nat /\ Len(s) > 0 /\ DOMAIN s = 1..Len(s) /\ Head(s) = s[1]
  BY Rest
<1>2. \E j \in 1..Len(s) : s[j][1] = "end_test_step"
  BY <1>1 DEF Closed
<1>3. E \in SUBSET Nat /\ E # {}
  BY <1>1, <1>2
<1>4. k \in E
  BY <1>3, Least
<1>5. k \in 1..Len(s)
  BY <1>1, <1>4
<1>6. AfterStep(s) = SubSeq(s, 1 + k, Len(s))
  BY DEF AfterStep
<1> HIDE DEF k
<1>7. 1 + k = k + 1 /\ k \in Nat /\ k <= Len(s)
  BY <1>1, <1>5
<1>8. /\ AfterStep(s) \in Seq(C) /\ Len(AfterStep(s)) = Len(s) - k
      /\ \A i \in 1..Len(AfterStep(s)) : AfterStep(s)[i] = s[i + k]
  BY <1>5, <1>6, <1>7, Suffix
<1> HIDE DEF E
<1>9. Closed(AfterStep(s))
  BY <1>7, <1>8, ClosedRest
<1> QED
  BY <1>8, <1>9

\* Queries keep the shape
LEMMA QueryKeepsShape ==
    ASSUME Shape, NEW r, Asked(r)
    PROVE  Shape'
<1> DEFINE c == Head(script)
           C == CallsOf(node.planners)
<1>1. /\ node # None /\ script # <<>> /\ phase \notin {"CleaningUp", "Complete"} /\ to_remove = None
      /\ UNCHANGED <<stage, stack, verdict, node, sweep, to_remove, log>>
      /\ r \in Answer /\ Goes(r) /\ Keep(c[2], r)
  BY DEF Asked
<1>2. script \in Seq(C) /\ Closed(script) /\ ToSet(node.planners) \subseteq PlannerSet
  BY <1>1, RunningScenario
<1>3. r.effect # "none" => c[2] \in PlannerSet
  <2>1. r.effect # "none" => c[1] \in PlannerCalls
    BY DEF Asked, Noticed
  <2>2. c[1] \in PlannerCalls => c[1] \notin OtherCalls
    BY DEF PlannerCalls, OtherCalls
  <2> QED
    BY <1>2, <2>1, <2>2 DEF Asked
<1>4. known' \in SUBSET PlannerSet
  BY <1>3 DEF Asked, Shape, TypeInv
<1>5. ids' \in Nat /\ faults' \in Nat
  <2>1. ids \in Nat /\ faults \in Nat
    BY DEF Shape, TypeInv
  <2>2. ids' \in {ids, ids + 1} /\ faults' \in {faults, faults + 1}
    BY DEF Asked
  <2> QED
    BY <2>1, <2>2
<1>6. created' \in [PlannerSet -> SUBSET Nat] /\ flights' \in [PlannerSet -> SUBSET Nat]
  <2>1. created \in [PlannerSet -> SUBSET Nat] /\ flights \in [PlannerSet -> SUBSET Nat] /\ ids \in Nat
    BY DEF Shape, TypeInv
  <2>2. created' = created \/ (r.effect # "none" /\ created' = [created EXCEPT ![c[2]] = @ \cup {ids}])
    BY <1>1 DEF Keep
  <2>3. \/ flights' = flights
        \/ r.effect # "none" /\ flights' = [flights EXCEPT ![c[2]] = @ \cup {ids}]
        \/ r.effect # "none" /\ flights' = [flights EXCEPT ![c[2]] = {}]
    BY <1>1 DEF Keep
  <2> QED
    BY <1>3, <2>1, <2>2, <2>3
<1>7. /\ report \in Report /\ r.failed \in SUBSET Severities /\ r.fault \in SUBSET Participants
      /\ r.blamed \in SUBSET PlannerSet
  BY <1>1 DEF Shape, TypeInv, Answer
<1>7a. hidden' \in SUBSET Nat
  <2>1. hidden \in SUBSET Nat /\ ids \in Nat
    BY DEF Shape, TypeInv
  <2>2. hidden' \in {hidden, hidden \cup {ids}}
    BY <1>1 DEF Keep
  <2> QED
    BY <2>1, <2>2
<1>8. CASE r.then = "raise" \/ phase # "RunningTestStep"
  <2>1. /\ phase' = "Complete" /\ script' = <<>>
        /\ report' = [report EXCEPT !.error = TRUE, !.faulty = @ \cup r.fault]
    BY <1>1, <1>8 DEF Goes
  <2>2. report' \in Report
    <3>1. report.faulty \cup r.fault \in SUBSET Participants
      BY <1>7 DEF Report
    <3> QED
      BY <1>7, <2>1, <3>1 DEF Report
  <2>3. <<>> \in Seq(C) /\ Closed(<<>>)
    BY HeldByNone DEF Closed
  <2>4. Cleaning'
    BY <1>1, <2>1, <2>3 DEF Cleaning
  <2>5. phase' \in Phases
    BY <2>1 DEF Phases
  <2> QED
    BY <1>1, <1>4, <1>5, <1>6, <1>7a, <2>2, <2>4, <2>5, ScenarioStep
<1>9. CASE ~(r.then = "raise" \/ phase # "RunningTestStep")
  <2>1. /\ phase' = phase /\ phase = "RunningTestStep"
        /\ report' = [report EXCEPT !.faulty = @ \cup r.fault, !.failed = @ \cup r.failed,
                                    !.blamed = @ \cup r.blamed]
    BY <1>1, <1>9 DEF Goes
  <2>2. report' \in Report
    <3>1. report.faulty \cup r.fault \in SUBSET Participants /\ report.blamed \cup r.blamed \in SUBSET PlannerSet
      BY <1>7 DEF Report
    <3>2. report.failed \cup r.failed \in SUBSET Severities
      BY <1>7 DEF Report
    <3> QED
      BY <1>7, <2>1, <3>1, <3>2 DEF Report
  <2>3. script' \in Seq(C) /\ Closed(script')
    <3>1. r.then \in {"next", "stop", "leave"}
      BY <1>1, <1>9 DEF Answer
    <3>2. CASE r.then = "next"
      <4>1. script' = Tail(script)
        BY <1>1, <1>9, <3>2 DEF Goes
      <4>2. /\ Len(script) \in Nat /\ Len(script) > 0 /\ Tail(script) \in Seq(C)
            /\ Len(Tail(script)) = Len(script) - 1
            /\ \A i \in 1..Len(Tail(script)) : Tail(script)[i] = script[i + 1]
        BY <1>1, <1>2, Rest
      <4>3. 1 \in Nat /\ 1 <= Len(script)
        BY <4>2
      <4> QED
        BY <1>2, <4>1, <4>2, <4>3, ClosedRest
    <3>3. CASE r.then = "stop"
      <4>1. script' = <<>>
        BY <1>1, <1>9, <3>3 DEF Goes
      <4> QED
        BY <4>1, HeldByNone DEF Closed
    <3>4. CASE r.then = "leave"
      <4>1. script' = AfterStep(script)
        BY <1>1, <1>9, <3>4 DEF Goes
      <4>2. Head(script)[1] \in {"find_op_intent", "get_full_op_intent"}
        BY <3>4 DEF Asked, Noticed
      <4> QED
        BY <1>1, <1>2, <4>1, <4>2, StepLeft
    <3> QED
      BY <3>1, <3>2, <3>3, <3>4
  <2>4. Cleaning'
    BY <1>1, <2>1, <2>3 DEF Cleaning
  <2>5. phase' \in Phases
    BY <2>1 DEF Phases
  <2> QED
    BY <1>1, <1>4, <1>5, <1>6, <1>7a, <2>2, <2>4, <2>5, ScenarioStep
<1> QED
  BY <1>8, <1>9

\* A flight is deleted, or known to be gone ...
Closes(u, id) ==
    /\ flights' = [flights EXCEPT ![u] = @ \ {id}]
    /\ created' = [created EXCEPT ![u] = IF id \in flights[u] THEN @ \ {id} ELSE @]
    /\ report' = IF id \in flights[u] THEN report
                 ELSE [report EXCEPT !.failed = @ \cup {"Medium"}, !.blamed = @ \cup {u}]
    /\ to_remove' = to_remove \ {id}
    /\ UNCHANGED <<faults, phase, hidden>>

\* ... or the planner only says so ...
Pretends(u, id) ==
    /\ faults' = faults + 1
    /\ created' = [created EXCEPT ![u] = @ \ {id}]
    /\ report' = [report EXCEPT !.faulty = @ \cup {u}]
    /\ to_remove' = to_remove \ {id}
    /\ hidden' = hidden \cup {id}
    /\ UNCHANGED <<flights, phase>>

\* ... or fails to delete it ...
Refuses(u, id) ==
    /\ faults' = faults + 1
    /\ report' = [report EXCEPT !.failed = @ \cup {"Medium"}, !.faulty = @ \cup {u}, !.blamed = @ \cup {u}]
    /\ to_remove' = to_remove \ {id}
    /\ UNCHANGED <<flights, created, phase, hidden>>

\* ... or does not answer
Silent(u, id) ==
    /\ faults' = faults + 1
    /\ flights' = flights \/ flights' = [flights EXCEPT ![u] = @ \ {id}]
    /\ report' = [report EXCEPT !.error = TRUE, !.faulty = @ \cup {u}]
    /\ phase' = "Complete" /\ to_remove' = None
    /\ UNCHANGED <<created, hidden>>

\* A flight is cleaned up at the planner that is first in the sweep
Removes(u, id) ==
    /\ node # None /\ phase = "CleaningUp" /\ script = <<>>
    /\ sweep # <<>> /\ sweep \in Seq(PlannerSet) /\ u = Head(sweep) /\ u \in PlannerSet
    /\ to_remove # None /\ to_remove \in SUBSET Nat /\ id \in to_remove
    /\ Closes(u, id) \/ Pretends(u, id) \/ Refuses(u, id) \/ Silent(u, id)
    /\ UNCHANGED <<stage, stack, verdict, node, script, known, sweep, ids, log>>

\* cleanup_flights
LEMMA RemoveStep ==
    ASSUME Shape, cleanup_flight
    PROVE  \E u, id : Removes(u, id)
<1> DEFINE u == Head(sweep)
           id == Min(to_remove)
<1>1. /\ node # None /\ phase = "CleaningUp" /\ to_remove \notin {None, {}}
      /\ UNCHANGED <<stage, stack, verdict, node, script, known, sweep, ids, log>>
  BY DEF cleanup_flight, Running, tree
<1>2. /\ script = <<>> /\ sweep \in Seq(PlannerSet) /\ sweep # <<>> /\ to_remove \in SUBSET Nat
  BY <1>1 DEF Shape, Cleaning
<1>3. u \in PlannerSet
  BY <1>2, Rest
<1>4. id \in to_remove
  BY <1>1, <1>2, Least
<1>5. Closes(u, id) \/ Pretends(u, id) \/ Refuses(u, id) \/ Silent(u, id)
  BY DEF cleanup_flight, Closes, Pretends, Refuses, Silent
<1> HIDE DEF u, id
<1>6. Removes(u, id)
  BY <1>1, <1>2, <1>3, <1>4, <1>5 DEF Removes, u
<1> QED
  BY <1>6

\* Deleting a flight keeps the shape
LEMMA RemoveKeepsShape ==
    ASSUME Shape, NEW u, NEW id, Removes(u, id)
    PROVE  Shape'
<1>1. /\ node # None /\ phase = "CleaningUp" /\ script = <<>>
      /\ sweep # <<>> /\ sweep \in Seq(PlannerSet) /\ u \in PlannerSet
      /\ to_remove # None /\ to_remove \in SUBSET Nat /\ id \in to_remove
      /\ UNCHANGED <<stage, stack, verdict, node, script, known, sweep, ids, log>>
  BY DEF Removes
<1>2. /\ created \in [PlannerSet -> SUBSET Nat] /\ flights \in [PlannerSet -> SUBSET Nat]
      /\ report \in Report /\ ids \in Nat /\ faults \in Nat /\ known \in SUBSET PlannerSet
      /\ hidden \in SUBSET Nat
  BY DEF Shape, TypeInv
<1>3. script \in Seq(CallsOf(node.planners)) /\ Closed(script)
  BY <1>1, RunningScenario
<1>4. "CleaningUp" \in Phases /\ "Complete" \in Phases /\ "Medium" \in Severities
  BY DEF Phases, Severities
<1>4a. /\ report.faulty \cup {u} \in SUBSET Participants /\ report.blamed \cup {u} \in SUBSET PlannerSet
       /\ report.failed \cup {"Medium"} \in SUBSET Severities
  BY <1>1, <1>2, <1>4 DEF Report, Participants
<1>5. CASE Closes(u, id)
  <2>1. created' \in [PlannerSet -> SUBSET Nat] /\ flights' \in [PlannerSet -> SUBSET Nat]
    BY <1>1, <1>2, <1>5 DEF Closes
  <2>2. report' \in Report
    <3>1. CASE id \in flights[u]
      BY <1>2, <1>5, <3>1 DEF Closes
    <3>2. CASE id \notin flights[u]
      BY <1>2, <1>4a, <1>5, <3>2 DEF Report, Closes
    <3> QED
      BY <3>1, <3>2
  <2>3. to_remove' \in SUBSET Nat /\ phase' = phase /\ faults' = faults /\ hidden' = hidden
    BY <1>1, <1>5 DEF Closes
  <2>4. Cleaning'
    BY <1>1, <1>3, <2>3 DEF Cleaning
  <2> QED
    BY <1>1, <1>2, <1>4, <2>1, <2>2, <2>3, <2>4, ScenarioStep
<1>5a. CASE Pretends(u, id)
  <2>1. flights' = flights /\ faults' = faults + 1 /\ phase' = phase
    BY <1>5a DEF Pretends
  <2>2. report' \in Report
    BY <1>2, <1>4a, <1>5a DEF Report, Pretends
  <2>3. to_remove' \in SUBSET Nat /\ faults' \in Nat /\ hidden' \in SUBSET Nat
    BY <1>1, <1>2, <1>5a, <2>1 DEF Pretends
  <2>4. Cleaning'
    BY <1>1, <1>3, <2>1, <2>3 DEF Cleaning
  <2>5. created' \in [PlannerSet -> SUBSET Nat]
    BY <1>1, <1>2, <1>5a DEF Pretends
  <2> QED
    BY <1>1, <1>2, <1>4, <2>1, <2>2, <2>3, <2>4, <2>5, ScenarioStep
<1>6. CASE Refuses(u, id)
  <2>1. created' = created /\ flights' = flights /\ faults' = faults + 1 /\ phase' = phase /\ hidden' = hidden
    BY <1>6 DEF Refuses
  <2>2. report' \in Report
    BY <1>2, <1>4a, <1>6 DEF Report, Refuses
  <2>3. to_remove' \in SUBSET Nat /\ faults' \in Nat
    BY <1>1, <1>2, <1>6, <2>1 DEF Refuses
  <2>4. Cleaning'
    BY <1>1, <1>3, <2>1, <2>3 DEF Cleaning
  <2> QED
    BY <1>1, <1>2, <1>4, <2>1, <2>2, <2>3, <2>4, ScenarioStep
<1>7. CASE Silent(u, id)
  <2>1. /\ created' = created /\ faults' = faults + 1 /\ phase' = "Complete" /\ to_remove' = None
        /\ hidden' = hidden
    BY <1>7 DEF Silent
  <2>2. report' \in Report
    BY <1>2, <1>4a, <1>7 DEF Report, Silent
  <2>3. flights' \in [PlannerSet -> SUBSET Nat] /\ faults' \in Nat
    <3>1. flights' = flights \/ flights' = [flights EXCEPT ![u] = @ \ {id}]
      BY <1>7 DEF Silent
    <3> QED
      BY <1>1, <1>2, <2>1, <3>1
  <2>4. Cleaning'
    BY <1>1, <1>3, <2>1 DEF Cleaning
  <2> QED
    BY <1>1, <1>2, <1>4, <2>1, <2>2, <2>3, <2>4, ScenarioStep
<1> QED
  BY <1>5, <1>5a, <1>6, <1>7 DEF Removes

\* The other steps of the cleanup keep the shape
LEMMA CleanupKeepsShape ==
    ASSUME Shape, go_to_cleanup \/ CleanupPlanner \/ NextPlanner \/ end_cleanup
    PROVE  Shape'
<1>1. /\ node # None /\ phase # "Complete"
      /\ UNCHANGED <<stage, stack, verdict, node, script, report, known, created, flights, ids, faults, hidden, log>>
  BY DEF go_to_cleanup, CleanupPlanner, NextPlanner, end_cleanup, Running, tree, world
<1>2. /\ created \in [PlannerSet -> SUBSET Nat] /\ flights \in [PlannerSet -> SUBSET Nat]
      /\ report \in Report /\ ids \in Nat /\ faults \in Nat /\ known \in SUBSET PlannerSet
      /\ hidden \in SUBSET Nat /\ "CleaningUp" \in Phases /\ "Complete" \in Phases
  BY DEF Shape, TypeInv, Phases
<1>3. node.planners \in Seq(PlannerSet) /\ script \in Seq(CallsOf(node.planners)) /\ Closed(script)
  BY <1>1, RunningScenario
<1>4. CASE go_to_cleanup
  <2>1. script = <<>> /\ phase # "CleaningUp" /\ to_remove' = to_remove
    BY <1>4 DEF go_to_cleanup
  <2>2. to_remove = None
    BY <2>1 DEF Shape, Cleaning
  <2>3. \/ phase' = "CleaningUp" /\ sweep' = Reverse(node.planners)
        \/ phase' = "Complete" /\ sweep' = sweep
    BY <1>4 DEF go_to_cleanup
  <2>4. Reverse(node.planners) \in Seq(PlannerSet)
    BY <1>3, Reversed
  <2>5. Cleaning'
    BY <1>1, <1>3, <2>1, <2>2, <2>3, <2>4 DEF Cleaning
  <2>6. phase' \in Phases
    BY <1>2, <2>3
  <2> QED
    BY <1>1, <1>2, <2>5, <2>6, ScenarioStep
<1>5. CASE CleanupPlanner
  <2>1. /\ phase = "CleaningUp" /\ sweep # <<>> /\ to_remove' = created[Head(sweep)]
        /\ phase' = phase /\ sweep' = sweep
    BY <1>5 DEF CleanupPlanner
  <2>2. script = <<>> /\ sweep \in Seq(PlannerSet)
    BY <2>1 DEF Shape, Cleaning
  <2>3. to_remove' \in SUBSET Nat
    BY <1>2, <2>1, <2>2, Rest
  <2>4. Cleaning'
    BY <1>1, <1>3, <2>1, <2>2, <2>3 DEF Cleaning
  <2> QED
    BY <1>1, <1>2, <2>1, <2>4, ScenarioStep
<1>6. CASE NextPlanner
  <2>1. phase = "CleaningUp" /\ to_remove = {} /\ sweep' = Tail(sweep) /\ to_remove' = None /\ phase' = phase
    BY <1>6 DEF NextPlanner
  <2>2. script = <<>> /\ sweep \in Seq(PlannerSet) /\ sweep # <<>>
    BY <2>1, ConstantsAssumption DEF Shape, Cleaning
  <2>3. sweep' \in Seq(PlannerSet)
    BY <2>1, <2>2, Rest
  <2>4. Cleaning'
    BY <1>1, <1>3, <2>1, <2>2, <2>3 DEF Cleaning
  <2> QED
    BY <1>1, <1>2, <2>1, <2>4, ScenarioStep
<1>7. CASE end_cleanup
  <2>1. phase = "CleaningUp" /\ to_remove = None /\ phase' = "Complete" /\ UNCHANGED <<sweep, to_remove>>
    BY <1>7 DEF end_cleanup
  <2>2. script = <<>>
    BY <2>1 DEF Shape, Cleaning
  <2>3. Cleaning'
    BY <1>1, <1>3, <2>1, <2>2 DEF Cleaning
  <2> QED
    BY <1>1, <1>2, <2>1, <2>3, ScenarioStep
<1> QED
  BY <1>4, <1>5, <1>6, <1>7

\* What comes after an action of a list
LEMMA AfterAction ==
    ASSUME NEW f \in Frame, NEW ok \in BOOLEAN
    PROVE  /\ After(f, ok) \in Frame /\ (After(f, ok).ok <=> f.ok /\ ok)
           /\ After(f, ok).actions = f.actions
           /\ After(f, ok).next \in {f.next + 1, Len(f.actions) + 1} /\ (ok => After(f, ok).next = f.next + 1)
<1>1. f.actions \in Seq(Nodes) /\ f.next \in Nat \ {0} /\ f.ok \in BOOLEAN
  BY DEF Frame
<1>2. PICK k : k = IF ~ok /\ f.actions[f.next].on_failure = "Abort" THEN Len(f.actions) + 1 ELSE f.next + 1
  OBVIOUS
<1>3. k \in Nat \ {0}
  <2>1. Len(f.actions) + 1 \in Nat \ {0} /\ f.next + 1 \in Nat \ {0}
    BY <1>1
  <2> QED
    BY <1>2, <2>1
<1>4. PICK b \in BOOLEAN : b = (f.ok /\ ok)
  BY <1>1
<1>5. After(f, ok) = [f EXCEPT !.ok = b, !.next = k]
  BY <1>2, <1>4 DEF After
<1>6. f = [actions |-> f.actions, next |-> f.next, ok |-> f.ok]
  BY DEF Frame
<1>7. After(f, ok) = [actions |-> f.actions, next |-> k, ok |-> b]
  BY <1>5, <1>6
<1>8. After(f, ok) \in Frame
  BY <1>1, <1>3, <1>7 DEF Frame
<1>9. After(f, ok).ok = b /\ After(f, ok).actions = f.actions /\ After(f, ok).next = k
  BY <1>7
<1> QED
  BY <1>2, <1>4, <1>8, <1>9

\* The list that is executed
LEMMA TopFrame ==
    ASSUME NEW s \in Seq(Frame), s # <<>>
    PROVE  Len(s) \in Nat /\ Len(s) > 0 /\ DOMAIN s = 1..Len(s) /\ s[Len(s)] \in Frame /\ Len(s) \in 1..Len(s)
<1>1. Len(s) \in Nat /\ DOMAIN s = 1..Len(s)
  OBVIOUS
<1>2. Len(s) > 0
  BY <1>1
<1>3. Len(s) \in 1..Len(s)
  BY <1>1, <1>2
<1> QED
  BY <1>1, <1>2, <1>3

\* Changing the last frame changes its part of the verdict
LEMMA LastFrame ==
    ASSUME NEW s \in Seq(Frame), s # <<>>, NEW ok \in BOOLEAN
    PROVE  LET t == [s EXCEPT ![Len(s)] = After(@, ok)]
           IN /\ t \in Seq(Frame) /\ t # <<>> /\ Len(t) = Len(s)
              /\ t[Len(s)] = After(s[Len(s)], ok) /\ \A k \in DOMAIN s : k # Len(s) => t[k] = s[k]
              /\ (\A k \in DOMAIN t : t[k].ok) <=> (\A k \in DOMAIN s : s[k].ok) /\ ok
<1> DEFINE t == [s EXCEPT ![Len(s)] = After(@, ok)]
<1>1. Len(s) \in Nat /\ Len(s) > 0 /\ DOMAIN s = 1..Len(s) /\ s[Len(s)] \in Frame /\ Len(s) \in 1..Len(s)
  BY TopFrame
<1>2. PICK g \in Frame : g = After(s[Len(s)], ok) /\ (g.ok <=> s[Len(s)].ok /\ ok)
  BY <1>1, AfterAction
<1>3. t = [s EXCEPT ![Len(s)] = g]
  BY <1>2
<1>4. t \in Seq(Frame) /\ DOMAIN t = DOMAIN s /\ Len(t) = Len(s) /\ t[Len(s)] = g
  BY <1>1, <1>3
<1>5. \A k \in DOMAIN s : k # Len(s) => t[k] = s[k]
  BY <1>1, <1>3
<1> HIDE DEF t
<1>6. t # <<>>
  BY <1>1, <1>4
<1>7. (\A k \in DOMAIN t : t[k].ok) <=> (\A k \in DOMAIN s : s[k].ok) /\ ok
  BY <1>1, <1>2, <1>4, <1>5
<1> QED
  BY <1>2, <1>4, <1>5, <1>6, <1>7 DEF t

\* A suite or an action generator begins, with nothing against it yet
LEMMA PushFrame ==
    ASSUME NEW s \in Seq(Frame), NEW f \in Frame, f.ok
    PROVE  LET t == Append(s, f)
           IN /\ t \in Seq(Frame) /\ t # <<>>
              /\ (\A k \in DOMAIN t : t[k].ok) <=> (\A k \in DOMAIN s : s[k].ok)
<1> DEFINE t == Append(s, f)
<1>1. /\ t \in Seq(Frame) /\ Len(s) \in Nat /\ DOMAIN s = 1..Len(s) /\ DOMAIN t = 1..(Len(s) + 1)
      /\ t[Len(s) + 1] = f /\ \A k \in 1..Len(s) : t[k] = s[k]
  OBVIOUS
<1>2. t # <<>>
  BY <1>1
<1> HIDE DEF t
<1>3. \A k \in 1..(Len(s) + 1) : k = Len(s) + 1 \/ k \in 1..Len(s)
  BY <1>1
<1>4. \A k \in 1..Len(s) : k \in 1..(Len(s) + 1)
  BY <1>1
<1>5. (\A k \in DOMAIN t : t[k].ok) <=> (\A k \in DOMAIN s : s[k].ok)
  BY <1>1, <1>3, <1>4
<1> QED
  BY <1>1, <1>2, <1>5 DEF t

\* The list below
LEMMA PopFrame ==
    ASSUME NEW s \in Seq(Frame), s # <<>>, Len(s) # 1
    PROVE  LET t == Front(s)
           IN /\ t \in Seq(Frame) /\ t # <<>> /\ Len(t) = Len(s) - 1
              /\ \A k \in 1..(Len(s) - 1) : t[k] = s[k]
              /\ (\A k \in DOMAIN s : s[k].ok) <=> (\A k \in DOMAIN t : t[k].ok) /\ s[Len(s)].ok
<1> DEFINE t == Front(s)
<1>1. Len(s) \in Nat /\ Len(s) > 1 /\ DOMAIN s = 1..Len(s)
  <2>1. Len(s) \in Nat /\ Len(s) > 0 /\ DOMAIN s = 1..Len(s)
    BY TopFrame
  <2> QED
    BY <2>1
<1>2. t = SubSeq(s, 1, Len(s) - 1)
  BY DEF Front
<1>3. \A i \in 1..(Len(s) - 1) : s[i] \in Frame
  BY <1>1
<1> DEFINE m == Len(s) - 1
<1>4. m \in Int /\ m \in Nat /\ 1 <= m /\ m - 1 + 1 = m /\ Len(s) = m + 1
  BY <1>1
<1>5. t \in Seq(Frame) /\ Len(t) = m /\ \A i \in 1..m : t[i] = s[1 + i - 1]
  <2> HIDE DEF m
  <2>1. /\ SubSeq(s, 1, m) \in Seq(Frame) /\ Len(SubSeq(s, 1, m)) = (IF 1 <= m THEN m - 1 + 1 ELSE 0)
        /\ \A i \in 1..(m - 1 + 1) : SubSeq(s, 1, m)[i] = s[1 + i - 1]
    <3>1. \A i \in 1..m : s[i] \in Frame
      BY <1>3 DEF m
    <3> QED
      BY <1>4, <3>1, SubSeqProperties
  <2>2. t = SubSeq(s, 1, m)
    BY <1>2 DEF m
  <2> HIDE DEF t
  <2> QED
    BY <1>4, <2>1, <2>2
<1> HIDE DEF t, m
<1>6. \A i \in 1..m : t[i] = s[i]
  <2>1. \A i \in 1..m : 1 + i - 1 = i
    BY <1>4
  <2> QED
    BY <1>5, <2>1
<1>7. DOMAIN t = 1..m /\ t # <<>>
  BY <1>4, <1>5
<1>8. /\ \A k \in DOMAIN s : k \in 1..m \/ k = Len(s)
      /\ \A k \in 1..m : k \in DOMAIN s
      /\ Len(s) \in DOMAIN s
  BY <1>1, <1>4
<1>9. (\A k \in DOMAIN s : s[k].ok) <=> (\A k \in DOMAIN t : t[k].ok) /\ s[Len(s)].ok
  BY <1>6, <1>7, <1>8
<1> QED
  BY <1>5, <1>6, <1>7, <1>9 DEF t, m

\* The report of a scenario that begins
Opened(n) ==
    [type |-> n.type, planners |-> n.planners, successful |-> None,
     stale |-> {u \in ToSet(n.planners) : created[u] # {}},
     crowded |-> \E u \in PlannerSet \ ToSet(n.planners) : flights[u] # {},
     faulty |-> {}, blamed |-> {}, ended |-> FALSE]

\* A scenario begins ...
Begins(n) ==
    /\ n \in Nodes /\ n.kind = "scenario"
    /\ Top.next <= Len(Top.actions) /\ n = Top.actions[Top.next]
    /\ stage = "run" /\ node = None /\ script = <<>> /\ to_remove = None /\ stack # <<>>
    /\ node' = n /\ script' = Script(n) /\ phase' = "NotStarted"
    /\ report' = NoReport /\ known' = {}
    /\ log' = Append(log, Opened(n))
    /\ UNCHANGED <<stage, suite, stack, verdict, to_remove, created, flights, ids, faults, hidden>>

\* ... or a list of actions
Enters(n) ==
    /\ n \in Nodes /\ n.kind # "scenario" /\ Actions(n) \in Seq(Nodes)
    /\ Top.next <= Len(Top.actions) /\ n = Top.actions[Top.next]
    /\ stage = "run" /\ node = None /\ stack # <<>>
    /\ stack' = Append(stack, [actions |-> Actions(n), next |-> 1, ok |-> TRUE])
    /\ UNCHANGED <<stage, suite, verdict, node, script, phase, report, known, sweep, to_remove,
                   created, flights, ids, faults, hidden, log>>

\* The action that is next is a scenario, or has actions
LEMMA RunStep ==
    ASSUME Shape, RunAction
    PROVE  \E n : Begins(n) \/ Enters(n)
<1> DEFINE n == Top.actions[Top.next]
<1>1. /\ stage = "run" /\ node = None /\ stack # <<>> /\ Top.next <= Len(Top.actions)
      /\ UNCHANGED <<stage, suite, verdict, sweep, to_remove, created, flights, ids, faults, hidden>>
  BY DEF RunAction, Idle, world
<1>2. script = <<>> /\ to_remove = None
  BY <1>1 DEF Shape, Cleaning
<1>3. Top \in Frame
  BY <1>1, TopFrame DEF Shape, TypeInv, Top
<1>4. n \in Nodes
  <2>1. Top.actions \in Seq(Nodes) /\ Top.next \in Nat \ {0}
    BY <1>3 DEF Frame
  <2>2. Top.next \in 1..Len(Top.actions)
    BY <1>1, <2>1
  <2> QED
    BY <2>1, <2>2
<1>5. CASE n.kind = "scenario"
  <2>1. /\ node' = n /\ script' = Script(n) /\ phase' = "NotStarted"
        /\ report' = NoReport /\ known' = {}
        /\ log' = Append(log, Opened(n)) /\ stack' = stack
    BY <1>5 DEF RunAction, Opened
  <2>2. Begins(n)
    BY <1>1, <1>2, <1>4, <1>5, <2>1 DEF Begins
  <2> QED
    BY <2>2
<1>6. CASE n.kind # "scenario"
  <2>1. /\ stack' = Append(stack, [actions |-> Actions(n), next |-> 1, ok |-> TRUE])
        /\ UNCHANGED <<node, script, phase, report, known, log>>
    BY <1>6 DEF RunAction
  <2>2. Actions(n) \in Seq(Nodes)
    BY <1>4, <1>6, NodesAssumption
  <2>3. Enters(n)
    BY <1>1, <1>4, <1>6, <2>1, <2>2 DEF Enters
  <2> QED
    BY <2>3
<1> QED
  BY <1>5, <1>6

\* The reports after a scenario begins
LEMMA LogOpened ==
    ASSUME Shape, NEW n, Begins(n)
    PROVE  /\ log' \in Seq(Entry) /\ Len(log) \in Nat /\ Len(log') = Len(log) + 1
           /\ log'[Len(log')] = Opened(n) /\ Opened(n) \in Entry
           /\ \A i \in 1..Len(log) : log'[i] = log[i]
           /\ Ended = 1..Len(log) /\ Ended' = 1..Len(log)
<1>1. n \in Nodes /\ n.kind = "scenario" /\ log' = Append(log, Opened(n)) /\ node = None /\ node' = n
  BY DEF Begins
<1>2. log \in Seq(Entry)
  BY DEF Shape, TypeInv
<1>3. /\ n.type \in DOMAIN Roles /\ n.planners \in Seq(PlannerSet) /\ n # None
      /\ ToSet(n.planners) \subseteq PlannerSet
  BY <1>1, ScenarioNode
<1>4. Opened(n) \in Entry
  <2>1. PICK a \in SUBSET PlannerSet : a = {u \in ToSet(n.planners) : created[u] # {}}
    BY <1>3
  <2>2. PICK b \in BOOLEAN : b = \E u \in PlannerSet \ ToSet(n.planners) : flights[u] # {}
    OBVIOUS
  <2>3. Opened(n) = [type |-> n.type, planners |-> n.planners, successful |-> None,
                     stale |-> a, crowded |-> b, faulty |-> {}, blamed |-> {}, ended |-> FALSE]
    BY <2>1, <2>2 DEF Opened
  <2> QED
    BY <1>3, <2>3 DEF Entry
<1> HIDE DEF Opened
<1>5. /\ log' \in Seq(Entry) /\ Len(log) \in Nat /\ Len(log') = Len(log) + 1
      /\ log'[Len(log) + 1] = Opened(n) /\ \A i \in 1..Len(log) : log'[i] = log[i]
      /\ DOMAIN log = 1..Len(log) /\ DOMAIN log' = 1..(Len(log) + 1)
  BY <1>1, <1>2, <1>4
<1>6. (1..(Len(log) + 1)) \ {Len(log) + 1} = 1..Len(log)
  BY <1>5
<1>7. Ended = 1..Len(log) /\ Ended' = 1..Len(log)
  BY <1>1, <1>3, <1>5, <1>6 DEF Ended
<1> QED
  BY <1>4, <1>5, <1>7

\* Beginning a scenario keeps the shape
LEMMA BeginsKeepsShape ==
    ASSUME Shape, NEW n, Begins(n)
    PROVE  Shape'
<1>1. /\ n \in Nodes /\ n.kind = "scenario" /\ stage = "run" /\ node = None /\ to_remove = None /\ stack # <<>>
      /\ node' = n /\ script' = Script(n) /\ phase' = "NotStarted" /\ report' = NoReport /\ known' = {}
      /\ UNCHANGED <<stage, stack, verdict, to_remove, created, flights, ids, faults, hidden>>
  BY DEF Begins
<1>2. /\ log' \in Seq(Entry) /\ Len(log) \in Nat /\ Len(log') = Len(log) + 1
      /\ log'[Len(log')] = Opened(n)
      /\ \A i \in 1..Len(log) : log'[i] = log[i]
      /\ Ended = 1..Len(log) /\ Ended' = 1..Len(log)
  BY LogOpened
<1>3. Formed(Script(n), n.planners) /\ n # None
  BY <1>1, AllScripted, ScenarioNode
<1>4. TypeInv'
  <2>1. NoReport \in Report
    BY DEF NoReport, Report
  <2>2. "NotStarted" \in Phases /\ {} \in SUBSET PlannerSet
    BY DEF Phases
  <2> QED
    BY <1>1, <1>2, <2>1, <2>2 DEF Shape, TypeInv
<1>5. Cleaning'
  BY <1>1, <1>3 DEF Cleaning, Formed
<1>6. Opened(n).successful = None /\ Opened(n).type = n.type
  BY DEF Opened
<1>7. Reports'
  <2>1. \A i \in Ended' : log'[i].successful \in BOOLEAN
    BY <1>2 DEF Shape, Reports
  <2>2. (\A k \in DOMAIN stack : stack[k].ok) <=> (\A i \in Ended : log[i].successful)
    BY <1>1 DEF Shape, Reports
  <2>3. (\A k \in DOMAIN stack' : stack'[k].ok) <=> (\A i \in Ended' : log'[i].successful)
    BY <1>1, <1>2, <2>2
  <2>4. Len(log') > 0
    BY <1>2
  <2> QED
    BY <1>1, <1>2, <1>6, <2>1, <2>3, <2>4 DEF Reports
<1>8. VerdictOfReports'
  BY <1>1 DEF VerdictOfReports
<1> QED
  BY <1>4, <1>5, <1>7, <1>8 DEF Shape

\* Entering a list keeps the shape
LEMMA EntersKeepsShape ==
    ASSUME Shape, NEW n, Enters(n)
    PROVE  Shape'
<1> DEFINE f == [actions |-> Actions(n), next |-> 1, ok |-> TRUE]
<1>1. /\ Actions(n) \in Seq(Nodes) /\ stage = "run" /\ node = None
      /\ stack' = Append(stack, f)
      /\ UNCHANGED <<stage, verdict, node, script, phase, report, known, sweep, to_remove,
                     created, flights, ids, faults, hidden, log>>
  BY DEF Enters
<1>2. f \in Frame /\ f.ok
  BY <1>1 DEF Frame
<1> HIDE DEF f
<1>3. /\ stack' \in Seq(Frame) /\ stack' # <<>>
      /\ (\A k \in DOMAIN stack' : stack'[k].ok) <=> (\A k \in DOMAIN stack : stack[k].ok)
  BY <1>1, <1>2, PushFrame DEF Shape, TypeInv
<1>4. TypeInv' /\ Cleaning'
  BY <1>1, <1>3 DEF Shape, TypeInv, Cleaning
<1>5. Ended' = Ended
  BY <1>1 DEF Ended
<1>6. Reports'
  BY <1>1, <1>3, <1>5 DEF Shape, Reports
<1>7. VerdictOfReports'
  BY <1>1 DEF VerdictOfReports
<1> QED
  BY <1>4, <1>6, <1>7 DEF Shape

\* The report of a scenario that has ended is final
LEMMA LogClosed ==
    ASSUME Shape, EndScenario
    PROVE  /\ log' \in Seq(Entry) /\ Len(log) \in Nat /\ Len(log) > 0 /\ Len(log') = Len(log)
           /\ \A i \in 1..Len(log) : i # Len(log) => log'[i] = log[i]
           /\ log'[Len(log)].successful = successful /\ successful \in BOOLEAN
           /\ log'[Len(log)].faulty = report.faulty
           /\ log'[Len(log)].type = log[Len(log)].type
           /\ log'[Len(log)].planners = log[Len(log)].planners
           /\ log'[Len(log)].stale = log[Len(log)].stale
           /\ log'[Len(log)].crowded = log[Len(log)].crowded
           /\ Ended = (1..Len(log)) \ {Len(log)} /\ Ended' = 1..Len(log)
<1>1. node # None /\ node' = None
  BY DEF EndScenario
<1>2. log \in Seq(Entry) /\ Len(log) > 0 /\ report \in Report
  BY <1>1 DEF Shape, TypeInv, Reports
<1>3. Len(log) \in Nat /\ Len(log) \in 1..Len(log) /\ log[Len(log)] \in Entry /\ DOMAIN log = 1..Len(log)
  BY <1>2
<1>4. PICK k : k = Len(log)
  OBVIOUS
<1>5. PICK x \in BOOLEAN : x = successful
  BY DEF successful
<1>6. PICK y \in SUBSET Participants, b \in SUBSET PlannerSet, z \in BOOLEAN :
          y = report.faulty /\ b = report.blamed /\ z = report.ended
  BY <1>2 DEF Report
<1>7. log' = [log EXCEPT ![k].successful = x, ![k].faulty = y, ![k].blamed = b, ![k].ended = z]
  BY <1>4, <1>5, <1>6 DEF EndScenario
<1>8. PICK e \in Entry : e = log[k]
  BY <1>3, <1>4
<1>9. e = [type |-> e.type, planners |-> e.planners, successful |-> e.successful,
           stale |-> e.stale, crowded |-> e.crowded, faulty |-> e.faulty, blamed |-> e.blamed,
           ended |-> e.ended]
  BY DEF Entry
<1> DEFINE g == [type |-> e.type, planners |-> e.planners, successful |-> x,
                 stale |-> e.stale, crowded |-> e.crowded, faulty |-> y, blamed |-> b, ended |-> z]
<1>10. g \in Entry
  <2>1. /\ e.type \in DOMAIN Roles /\ e.planners \in Seq(PlannerSet) /\ e.stale \in SUBSET PlannerSet
        /\ e.crowded \in BOOLEAN
    BY DEF Entry
  <2> QED
    BY <2>1 DEF Entry
<1>11. /\ k \in 1..Len(log)
       /\ log'[k] = [[[[e EXCEPT !.successful = x] EXCEPT !.faulty = y] EXCEPT !.blamed = b] EXCEPT !.ended = z]
  BY <1>3, <1>4, <1>7, <1>8
<1>12. log'[k] = g
  BY <1>9, <1>11
<1>13. DOMAIN log' = 1..Len(log) /\ \A i \in 1..Len(log) : i # k => log'[i] = log[i]
  BY <1>3, <1>7
<1>14. /\ g.successful = x /\ g.faulty = y /\ g.type = e.type /\ g.planners = e.planners /\ g.stale = e.stale /\ g.crowded = e.crowded
  OBVIOUS
<1> HIDE DEF g
<1>15. log' = [i \in 1..Len(log) |-> IF i = k THEN g ELSE log[i]]
  <2>1. log' = [i \in 1..Len(log) |-> log'[i]]
    BY <1>3, <1>7
  <2> QED
    BY <1>12, <1>13, <2>1
<1>16. \A i \in 1..Len(log) : log[i] \in Entry
  BY <1>2
<1>17. log' \in Seq(Entry) /\ Len(log') = Len(log)
  BY <1>3, <1>10, <1>15, <1>16
<1>18. Ended = (1..Len(log)) \ {Len(log)} /\ Ended' = 1..Len(log)
  BY <1>1, <1>3, <1>13 DEF Ended
<1> QED
  BY <1>2, <1>3, <1>4, <1>5, <1>6, <1>8, <1>12, <1>13, <1>14, <1>17, <1>18

\* The end of a scenario keeps the shape
LEMMA EndScenarioKeepsShape ==
    ASSUME Shape, EndScenario
    PROVE  Shape'
<1>1. /\ stage = "run" /\ node # None /\ node' = None /\ script' = <<>> /\ phase' = "Undefined"
      /\ report' = NoReport /\ known' = {} /\ sweep' = <<>> /\ to_remove' = None
      /\ stack' = [stack EXCEPT ![Len(stack)] = After(@, successful)]
      /\ UNCHANGED <<stage, verdict, created, flights, ids, faults, hidden>>
  BY DEF EndScenario, world
<1>2. /\ log' \in Seq(Entry) /\ Len(log) \in Nat /\ Len(log) > 0 /\ Len(log') = Len(log)
      /\ \A i \in 1..Len(log) : i # Len(log) => log'[i] = log[i]
      /\ log'[Len(log)].successful = successful /\ successful \in BOOLEAN
      /\ Ended = (1..Len(log)) \ {Len(log)} /\ Ended' = 1..Len(log)
  BY LogClosed
<1>3. stack \in Seq(Frame) /\ stack # <<>>
  BY <1>1 DEF Shape, TypeInv, Reports
<1>4. PICK x \in BOOLEAN : x = successful
  BY <1>2
<1>5. /\ stack' \in Seq(Frame) /\ stack' # <<>>
      /\ (\A k \in DOMAIN stack' : stack'[k].ok) <=> (\A k \in DOMAIN stack : stack[k].ok) /\ x
  BY <1>1, <1>3, <1>4, LastFrame
<1>6. TypeInv'
  <2>1. NoReport \in Report
    BY DEF NoReport, Report
  <2>2. "Undefined" \in Phases /\ {} \in SUBSET PlannerSet
    BY DEF Phases
  <2> QED
    BY <1>1, <1>2, <1>5, <2>1, <2>2 DEF Shape, TypeInv
<1>7. Cleaning'
  BY <1>1 DEF Cleaning
<1>8. Reports'
  <2>1. ASSUME NEW i \in 1..Len(log) PROVE log'[i].successful \in BOOLEAN
    <3>1. CASE i = Len(log)
      BY <1>2, <3>1
    <3>2. CASE i # Len(log)
      BY <1>2, <3>2 DEF Shape, Reports
    <3> QED
      BY <3>1, <3>2
  <2>2. (\A k \in DOMAIN stack : stack[k].ok) <=> (\A i \in Ended : log[i].successful)
    BY <1>1 DEF Shape, Reports
  <2>3. Len(log) \in 1..Len(log) /\ log'[Len(log)].successful = x
    BY <1>2, <1>4
  <2>4. (\A i \in 1..Len(log) : log'[i].successful) <=> (\A i \in Ended : log[i].successful) /\ x
    BY <1>2, <2>3
  <2>5. (\A k \in DOMAIN stack' : stack'[k].ok) <=> (\A i \in Ended' : log'[i].successful)
    BY <1>2, <1>5, <2>2, <2>4
  <2> QED
    BY <1>1, <1>2, <1>5, <2>1, <2>5 DEF Reports
<1>9. VerdictOfReports'
  BY <1>1 DEF VerdictOfReports
<1> QED
  BY <1>6, <1>7, <1>8, <1>9 DEF Shape

\* The end of a list keeps the shape, and that of the suite gives the verdict
LEMMA EndActionsKeepsShape ==
    ASSUME Shape, EndActions
    PROVE  Shape'
<1>1. /\ stage = "run" /\ node = None /\ stack # <<>>
      /\ UNCHANGED <<node, script, phase, report, known, sweep, to_remove, created, flights, ids, faults, hidden, log>>
  BY DEF EndActions, Idle, scenario, world
<1>2. stack \in Seq(Frame) /\ log \in Seq(Entry)
  BY DEF Shape, TypeInv
<1>3. Ended = DOMAIN log /\ Ended' = DOMAIN log
  BY <1>1 DEF Ended
<1>4. (\A k \in DOMAIN stack : stack[k].ok) <=> (\A i \in DOMAIN log : log[i].successful)
  BY <1>1, <1>3 DEF Shape, Reports
<1>5. /\ Len(stack) \in Nat /\ Len(stack) > 0 /\ DOMAIN stack = 1..Len(stack) /\ Top \in Frame
  BY <1>1, <1>2, TopFrame DEF Top
<1>6. PICK x \in BOOLEAN : x = Top.ok
  BY <1>5 DEF Frame
<1>7. Cleaning'
  BY <1>1 DEF Shape, Cleaning
<1>8. CASE Len(stack) = 1
  <2>1. stack' = <<>> /\ verdict' = x /\ stage' = "done"
    BY <1>6, <1>8 DEF EndActions
  <2>2. DOMAIN stack = {1} /\ Top = stack[1]
    BY <1>5, <1>8 DEF Top
  <2>3. x <=> \A i \in DOMAIN log : log[i].successful
    BY <1>4, <1>6, <2>2
  <2>4. VerdictOfReports'
    BY <1>1, <2>1, <2>3 DEF VerdictOfReports
  <2>5. TypeInv'
    BY <1>1, <2>1, HeldByNone DEF Shape, TypeInv
  <2>6. Reports'
    BY <1>1, <1>3, <2>1 DEF Shape, Reports
  <2> QED
    BY <1>7, <2>4, <2>5, <2>6 DEF Shape
<1>9. CASE Len(stack) # 1
  <2>1. stack' = [Front(stack) EXCEPT ![Len(stack) - 1] = After(@, x)] /\ verdict' = verdict /\ stage' = stage
    BY <1>6, <1>9 DEF EndActions
  <2>2. PICK t : t = Front(stack)
    OBVIOUS
  <2>3. /\ t \in Seq(Frame) /\ t # <<>> /\ Len(t) = Len(stack) - 1
        /\ (\A k \in DOMAIN stack : stack[k].ok) <=> (\A k \in DOMAIN t : t[k].ok) /\ stack[Len(stack)].ok
    BY <1>1, <1>2, <1>9, <2>2, PopFrame
  <2>4. stack' = [t EXCEPT ![Len(t)] = After(@, x)]
    BY <2>1, <2>2, <2>3
  <2>5. /\ stack' \in Seq(Frame) /\ stack' # <<>>
        /\ (\A k \in DOMAIN stack' : stack'[k].ok) <=> (\A k \in DOMAIN t : t[k].ok) /\ x
    BY <2>3, <2>4, LastFrame
  <2>6. (\A k \in DOMAIN stack' : stack'[k].ok) <=> (\A i \in DOMAIN log : log[i].successful)
    BY <1>4, <1>6, <2>3, <2>5 DEF Top
  <2>7. TypeInv'
    BY <1>1, <2>5 DEF Shape, TypeInv
  <2>8. Reports'
    BY <1>1, <1>3, <2>1, <2>5, <2>6 DEF Shape, Reports
  <2>9. VerdictOfReports'
    BY <1>1, <2>1 DEF VerdictOfReports
  <2> QED
    BY <1>7, <2>7, <2>8, <2>9 DEF Shape
<1> QED
  BY <1>8, <1>9

\* Making the resources keeps the shape
LEMMA SetupKeepsShape ==
    ASSUME Shape, stage = "resources", stage' \in {"resources", "run", "failed"},
           UNCHANGED <<tree, scenario, world, log>>
    PROVE  Shape'
<1>1. UNCHANGED <<stack, verdict, node, script, phase, report, known, sweep, to_remove,
                  created, flights, ids, faults, hidden, log>>
  BY DEF tree, scenario, world
<1>2. TypeInv' /\ Cleaning'
  BY <1>1 DEF Shape, TypeInv, Cleaning
<1>3. Ended' = Ended
  BY <1>1 DEF Ended
<1>4. Reports'
  BY <1>1, <1>3 DEF Shape, Reports
<1>5. VerdictOfReports'
  BY DEF VerdictOfReports
<1> QED
  BY <1>2, <1>4, <1>5 DEF Shape

\* The shape at first
LEMMA InitShape == Init => Shape
<1> SUFFICES ASSUME Init PROVE Shape
  OBVIOUS
<1> DEFINE f == [actions |-> suite.actions, next |-> 1, ok |-> TRUE]
<1>1. suite.actions \in Seq(Nodes)
  <2>1. suite \in Nodes /\ suite.kind = "suite"
    BY NodesAssumption DEF Init
  <2>2. Actions(suite) = suite.actions
    BY <2>1 DEF Actions
  <2> QED
    BY <2>1, <2>2, NodesAssumption
<1>2. f \in Frame /\ f.ok
  BY <1>1 DEF Frame
<1>3. stack = <<f>>
  BY DEF Init
<1> HIDE DEF f
<1>4. stack \in Seq(Frame) /\ stack # <<>> /\ DOMAIN stack = {1} /\ stack[1] = f
  BY <1>2, <1>3
<1>5. log = <<>> /\ DOMAIN log = {} /\ log \in Seq(Entry)
  BY DEF Init
<1>6. NoReport \in Report /\ "Undefined" \in Phases
  BY DEF NoReport, Report, Phases
<1>7. TypeInv
  BY <1>4, <1>5, <1>6 DEF Init, TypeInv
<1>8. Cleaning
  BY DEF Init, Cleaning
<1>9. Ended = {}
  BY <1>5 DEF Ended, Init
<1>10. Reports
  BY <1>2, <1>4, <1>9 DEF Init, Reports
<1>11. VerdictOfReports
  BY DEF Init, VerdictOfReports
<1> QED
  BY <1>7, <1>8, <1>10, <1>11 DEF Shape

\* A step that changes nothing keeps the shape
LEMMA StutteringKeepsShape ==
    ASSUME Shape, UNCHANGED vars
    PROVE  Shape'
<1>1. UNCHANGED <<stage, stack, verdict, node, script, phase, report, known, sweep, to_remove,
                  created, flights, ids, faults, hidden, log>>
  BY DEF vars, tree, scenario, world
<1>2. TypeInv' /\ Cleaning'
  BY <1>1 DEF Shape, TypeInv, Cleaning
<1> QED
  BY <1>1, <1>2, KeepsReports DEF Shape

\* Every step keeps the shape
LEMMA NextKeepsShape ==
    ASSUME Shape, [Next]_vars
    PROVE  Shape'
<1>1. CASE MakeResource \/ EndPass
  <2>1. stage = "resources" /\ stage' \in {"resources", "run", "failed"} /\ UNCHANGED <<tree, scenario, world, log>>
    BY <1>1 DEF MakeResource, EndPass
  <2> QED
    BY <2>1, SetupKeepsShape
<1>2. CASE RunAction
  BY <1>2, RunStep, BeginsKeepsShape, EntersKeepsShape
<1>3. CASE EndScenario
  BY <1>3, EndScenarioKeepsShape
<1>4. CASE EndActions
  BY <1>4, EndActionsKeepsShape
<1>5. CASE Methodical
  BY <1>5, MethodsStep, MethodsKeepShape
<1>6. CASE Query
  BY <1>6, QueryStep, QueryKeepsShape
<1>7. CASE cleanup_flight
  BY <1>7, RemoveStep, RemoveKeepsShape
<1>8. CASE go_to_cleanup \/ CleanupPlanner \/ NextPlanner \/ end_cleanup
  BY <1>8, CleanupKeepsShape
<1>9. CASE Exit \/ UNCHANGED vars
  BY <1>9, StutteringKeepsShape DEF Exit
<1> QED
  BY <1>1, <1>2, <1>3, <1>4, <1>5, <1>6, <1>7, <1>8, <1>9 DEF Next, Progress, Methodical

\* The shape is an invariant
LEMMA AlwaysShape == Spec => []Shape
BY InitShape, NextKeepsShape, PTL DEF Spec

-----------------------------------------------------------------------------
(***************************************************************************)
(* A success leaves nothing behind but what a planner hides                *)
(***************************************************************************)

\* What has been spoilt stays so until the scenario ends
LEMMA StaysSpoiled ==
    ASSUME node # None, UNCHANGED <<node, log>>, Spoiled => Spoiled'
    PROVE  Unspoiled' => Unspoiled
<1>1. Ended' = Ended
  BY DEF Ended
<1> QED
  BY <1>1 DEF Unspoiled

\* Methods keep to the flights
LEMMA MethodsKeepClean ==
    ASSUME Shape, Clean, Forward \/ Breaks
    PROVE  Clean'
<1>1. /\ node # None /\ script # <<>>
      /\ UNCHANGED <<sweep, to_remove, node, created, flights, hidden, log>>
  BY DEF Forward, Breaks, Running
<1>2. to_remove = None
  BY <1>1 DEF Shape, Cleaning
<1>3. CASE Forward
  <2>1. phase' \notin {"CleaningUp", "Complete"}
    BY <1>3, PhasesLeft DEF Forward
  <2>2. Spoiled' = Spoiled
    BY <1>3 DEF Forward, Spoiled
  <2>3. Unspoiled' => Unspoiled
    BY <1>1, <2>2, StaysSpoiled
  <2> QED
    BY <1>1, <1>2, <2>1, <2>3 DEF Clean
<1>4. CASE Breaks
  <2>1. Spoiled'
    BY <1>4 DEF Breaks, Spoiled
  <2> QED
    BY <1>1, <2>1 DEF Clean, Unspoiled
<1> QED
  BY <1>3, <1>4

\* An answer that is taken for good has an ID for every flight it plans, or
\* hides it
LEMMA QueryKeepsClean ==
    ASSUME Shape, Clean, NEW r, Asked(r)
    PROVE  Clean'
<1> DEFINE c == Head(script)
<1>1. /\ node # None /\ phase \notin {"CleaningUp", "Complete"} /\ to_remove = None
      /\ UNCHANGED <<node, sweep, to_remove, log>>
      /\ r \in Answer /\ Goes(r) /\ Keep(c[2], r)
  BY DEF Asked
<1>2. report \in Report
  BY DEF Shape, TypeInv
<1>3. SUFFICES ASSUME Unspoiled'
               PROVE  \A u \in PlannerSet :
                         /\ flights'[u] \subseteq created'[u] \cup hidden'
                         /\ created'[u] # {} => /\ node' # None /\ u \in ToSet(node'.planners)
                                                /\ phase' # "Complete"
                                                /\ phase' = "CleaningUp" => u \in ToSet(sweep')
  BY <1>1 DEF Clean
<1>4. ~report'.error /\ report'.failed = {}
  BY <1>1, <1>3 DEF Unspoiled, Spoiled
<1>5. r.then # "raise" /\ phase = "RunningTestStep"
  <2>1. CASE r.then = "raise" \/ phase # "RunningTestStep"
    <3>1. report' = [report EXCEPT !.error = TRUE, !.faulty = @ \cup r.fault]
      BY <1>1, <2>1 DEF Goes
    <3>2. report'.error = TRUE
      BY <1>2, <3>1 DEF Report
    <3> QED
      BY <1>4, <3>2
  <2> QED
    BY <2>1
<1>6. /\ phase' = phase
      /\ report' = [report EXCEPT !.faulty = @ \cup r.fault, !.failed = @ \cup r.failed,
                                  !.blamed = @ \cup r.blamed]
  BY <1>1, <1>5 DEF Goes
<1>7. report'.failed = report.failed \cup r.failed /\ report'.error = report.error
  BY <1>2, <1>6 DEF Report
<1>8. r.failed = {} /\ report.failed = {} /\ ~report.error
  BY <1>4, <1>7
<1>9. Unspoiled
  BY <1>1, <1>3, <1>8, StaysSpoiled DEF Spoiled
<1>10. r.effect = "plan_unknown" => hidden' = hidden \cup {ids}
  <2>1. r.effect = "plan_unknown" => r.then = "next"
    BY <1>5, <1>8 DEF Asked, Noticed
  <2> QED
    BY <1>1, <1>8, <2>1 DEF Keep
<1>11. hidden \subseteq hidden'
  BY <1>1 DEF Keep
<1>12. /\ created \in [PlannerSet -> SUBSET Nat] /\ flights \in [PlannerSet -> SUBSET Nat]
       /\ ToSet(node.planners) \subseteq PlannerSet
  BY <1>1, RunningScenario DEF Shape, TypeInv
<1>13. r.effect # "none" => c[2] \in ToSet(node.planners)
  <2>1. r.effect # "none" => c[1] \in PlannerCalls
    BY DEF Asked, Noticed
  <2>2. c[1] \in PlannerCalls => c[1] \notin OtherCalls
    BY DEF PlannerCalls, OtherCalls
  <2> QED
    BY <2>1, <2>2 DEF Asked
<1>14. ASSUME NEW u \in PlannerSet
       PROVE  flights'[u] \subseteq created'[u] \cup hidden' /\ (created'[u] # {} => u \in ToSet(node.planners))
  <2>1. flights[u] \subseteq created[u] \cup hidden /\ (created[u] # {} => u \in ToSet(node.planners))
    BY <1>9 DEF Clean
  <2>2. CASE r.effect = "plan"
    <3>1. /\ created' = [created EXCEPT ![c[2]] = @ \cup {ids}]
          /\ flights' = [flights EXCEPT ![c[2]] = @ \cup {ids}]
      BY <1>1, <2>2 DEF Keep
    <3>2. c[2] \in ToSet(node.planners)
      BY <1>13, <2>2
    <3>3. CASE u = c[2]
      BY <1>11, <1>12, <2>1, <3>1, <3>2, <3>3
    <3>4. CASE u # c[2]
      BY <1>11, <1>12, <2>1, <3>1, <3>4
    <3> QED
      BY <3>3, <3>4
  <2>2a. CASE r.effect = "plan_unknown"
    <3>1. created' = created /\ flights' = [flights EXCEPT ![c[2]] = @ \cup {ids}]
      BY <1>1, <2>2a DEF Keep
    <3>2. flights'[u] \subseteq flights[u] \cup {ids}
      BY <1>12, <3>1
    <3> QED
      BY <1>10, <2>1, <2>2a, <3>1, <3>2
  <2>2b. CASE r.effect = "claim"
    <3>1. created' = [created EXCEPT ![c[2]] = @ \cup {ids}] /\ flights' = flights
      BY <1>1, <2>2b DEF Keep
    <3>2. c[2] \in ToSet(node.planners)
      BY <1>13, <2>2b
    <3>3. CASE u = c[2]
      BY <1>11, <1>12, <2>1, <3>1, <3>2, <3>3
    <3>4. CASE u # c[2]
      BY <1>11, <1>12, <2>1, <3>1, <3>4
    <3> QED
      BY <3>3, <3>4
  <2>3. CASE r.effect = "clear"
    <3>1. created' = created /\ flights' = [flights EXCEPT ![c[2]] = {}]
      BY <1>1, <2>3 DEF Keep
    <3> QED
      BY <1>11, <1>12, <2>1, <3>1
  <2>4. CASE r.effect \notin {"plan", "plan_unknown", "claim", "clear"}
    <3>1. created' = created /\ flights' = flights
      BY <1>1, <2>4 DEF Keep
    <3> QED
      BY <1>11, <2>1, <3>1
  <2> QED
    BY <2>2, <2>2a, <2>2b, <2>3, <2>4
<1> QED
  BY <1>1, <1>6, <1>14

\* A flight that is deleted is one that is held, or is hidden from then on
LEMMA RemoveKeepsClean ==
    ASSUME Shape, Clean, NEW u, NEW id, Removes(u, id)
    PROVE  Clean'
<1>1. /\ node # None /\ phase = "CleaningUp" /\ u = Head(sweep) /\ u \in PlannerSet
      /\ to_remove # None /\ id \in to_remove
      /\ UNCHANGED <<node, sweep, log>>
  BY DEF Removes
<1>2. /\ created \in [PlannerSet -> SUBSET Nat] /\ flights \in [PlannerSet -> SUBSET Nat]
      /\ report \in Report
  BY DEF Shape, TypeInv
<1>3. CASE Closes(u, id)
  <2>1. /\ flights' = [flights EXCEPT ![u] = @ \ {id}]
        /\ created' = [created EXCEPT ![u] = IF id \in flights[u] THEN @ \ {id} ELSE @]
        /\ report' = IF id \in flights[u] THEN report
                     ELSE [report EXCEPT !.failed = @ \cup {"Medium"}, !.blamed = @ \cup {u}]
        /\ to_remove' = to_remove \ {id} /\ hidden' = hidden /\ phase' = phase
    BY <1>3 DEF Closes
  <2>3. CASE id \notin flights[u]
    <3>0. report'.failed = report.failed \cup {"Medium"}
      BY <1>2, <2>1, <2>3 DEF Report
    <3>1. Spoiled'
      BY <3>0 DEF Spoiled
    <3> QED
      BY <1>1, <3>1 DEF Clean, Unspoiled
  <2>4. CASE id \in flights[u]
    <3>1. Spoiled' = Spoiled
      BY <2>1, <2>4 DEF Spoiled
    <3>2. SUFFICES ASSUME Unspoiled' PROVE Clean'
      BY DEF Clean
    <3>3. Unspoiled
      BY <1>1, <3>1, <3>2, StaysSpoiled
    <3>4. to_remove = created[u]
      BY <1>1, <3>3 DEF Clean
    <3>5. created'[u] = created[u] \ {id} /\ flights'[u] = flights[u] \ {id}
      BY <1>1, <1>2, <2>1, <2>4
    <3>6. \A v \in PlannerSet : v # u => created'[v] = created[v] /\ flights'[v] = flights[v]
      BY <1>2, <2>1
    <3>7. ASSUME NEW v \in PlannerSet
          PROVE  /\ flights'[v] \subseteq created'[v] \cup hidden'
                 /\ created'[v] # {} => /\ node' # None /\ v \in ToSet(node'.planners)
                                        /\ phase' # "Complete"
                                        /\ phase' = "CleaningUp" => v \in ToSet(sweep')
      <4>1. /\ flights[v] \subseteq created[v] \cup hidden
            /\ created[v] # {} => v \in ToSet(node.planners) /\ v \in ToSet(sweep)
        BY <1>1, <3>3 DEF Clean
      <4>2. flights'[v] \subseteq created'[v] \cup hidden' /\ (created'[v] # {} => created[v] # {})
        BY <2>1, <3>5, <3>6, <4>1
      <4> QED
        BY <1>1, <2>1, <4>1, <4>2
    <3>8. to_remove' = created'[Head(sweep')]
      BY <1>1, <2>1, <3>4, <3>5
    <3> QED
      BY <3>7, <3>8 DEF Clean
  <2> QED
    BY <2>3, <2>4
<1>3a. CASE Pretends(u, id)
  <2>1. /\ flights' = flights /\ created' = [created EXCEPT ![u] = @ \ {id}]
        /\ report' = [report EXCEPT !.faulty = @ \cup {u}]
        /\ to_remove' = to_remove \ {id} /\ hidden' = hidden \cup {id} /\ phase' = phase
    BY <1>3a DEF Pretends
  <2>2. report'.error = report.error /\ report'.failed = report.failed
    BY <1>2, <2>1 DEF Report
  <2>3. Spoiled' = Spoiled
    BY <2>2 DEF Spoiled
  <2>4. SUFFICES ASSUME Unspoiled' PROVE Clean'
    BY DEF Clean
  <2>5. Unspoiled
    BY <1>1, <2>3, <2>4, StaysSpoiled
  <2>6. to_remove = created[u]
    BY <1>1, <2>5 DEF Clean
  <2>7. created'[u] = created[u] \ {id} /\ \A v \in PlannerSet : v # u => created'[v] = created[v]
    BY <1>1, <1>2, <2>1
  <2>8. ASSUME NEW v \in PlannerSet
        PROVE  /\ flights'[v] \subseteq created'[v] \cup hidden'
               /\ created'[v] # {} => /\ node' # None /\ v \in ToSet(node'.planners)
                                      /\ phase' # "Complete"
                                      /\ phase' = "CleaningUp" => v \in ToSet(sweep')
    <3>1. /\ flights[v] \subseteq created[v] \cup hidden
          /\ created[v] # {} => v \in ToSet(node.planners) /\ v \in ToSet(sweep)
      BY <1>1, <2>5 DEF Clean
    <3>2. flights'[v] \subseteq created'[v] \cup hidden' /\ (created'[v] # {} => created[v] # {})
      BY <2>1, <2>7, <3>1
    <3> QED
      BY <1>1, <2>1, <3>1, <3>2
  <2>9. to_remove' = created'[Head(sweep')]
    BY <1>1, <2>1, <2>6, <2>7
  <2> QED
    BY <2>8, <2>9 DEF Clean
<1>4. CASE Refuses(u, id)
  <2>1. report'.failed = report.failed \cup {"Medium"}
    BY <1>2, <1>4 DEF Refuses, Report
  <2>2. Spoiled'
    BY <2>1 DEF Spoiled
  <2> QED
    BY <1>1, <2>2 DEF Clean, Unspoiled
<1>5. CASE Silent(u, id)
  <2>1. report'.error = TRUE
    BY <1>2, <1>5 DEF Silent, Report
  <2>2. Spoiled'
    BY <2>1 DEF Spoiled
  <2> QED
    BY <1>1, <2>2 DEF Clean, Unspoiled
<1> QED
  BY <1>3, <1>3a, <1>4, <1>5 DEF Removes

\* The cleanup comes to every planner of the scenario
LEMMA CleanupKeepsClean ==
    ASSUME Shape, Clean, go_to_cleanup \/ CleanupPlanner \/ NextPlanner \/ end_cleanup
    PROVE  Clean'
<1>1. /\ node # None /\ phase # "Complete"
      /\ UNCHANGED <<node, report, created, flights, hidden, log>>
  BY DEF go_to_cleanup, CleanupPlanner, NextPlanner, end_cleanup, Running, tree, world
<1>2. Spoiled' = Spoiled
  BY <1>1 DEF Spoiled
<1>3. SUFFICES ASSUME Unspoiled' PROVE Clean'
  BY DEF Clean
<1>4. Unspoiled
  BY <1>1, <1>2, <1>3, StaysSpoiled
<1>5. /\ \A u \in PlannerSet :
            /\ flights[u] \subseteq created[u] \cup hidden
            /\ created[u] # {} => u \in ToSet(node.planners) /\ (phase = "CleaningUp" => u \in ToSet(sweep))
      /\ to_remove # None => to_remove = created[Head(sweep)]
  BY <1>4 DEF Clean
<1>6. node.planners \in Seq(PlannerSet)
  BY <1>1, RunningScenario
<1>7. CASE go_to_cleanup
  <2>1. phase # "CleaningUp" /\ to_remove' = to_remove
    BY <1>7 DEF go_to_cleanup
  <2>2. to_remove = None
    BY <2>1 DEF Shape, Cleaning
  <2>3. CASE HasCleanup(node)
    <3>1. phase' = "CleaningUp" /\ sweep' = Reverse(node.planners)
      BY <1>7, <2>3 DEF go_to_cleanup
    <3>2. ToSet(sweep') = ToSet(node.planners)
      BY <1>6, <3>1, Reversed
    <3> QED
      BY <1>1, <1>5, <2>1, <2>2, <3>1, <3>2 DEF Clean
  <2>4. CASE ~HasCleanup(node)
    <3>1. ToSet(node.planners) = {}
      BY <2>4, HeldByNone DEF HasCleanup
    <3> QED
      BY <1>1, <1>5, <2>1, <2>2, <3>1 DEF Clean
  <2> QED
    BY <2>3, <2>4
<1>8. CASE CleanupPlanner
  <2>1. to_remove' = created[Head(sweep)] /\ phase' = phase /\ sweep' = sweep
    BY <1>8 DEF CleanupPlanner
  <2> QED
    BY <1>1, <1>5, <2>1 DEF Clean
<1>9. CASE NextPlanner
  <2>1. phase = "CleaningUp" /\ to_remove = {} /\ sweep' = Tail(sweep) /\ to_remove' = None /\ phase' = phase
    BY <1>9 DEF NextPlanner
  <2>2. to_remove # None
    BY <2>1, ConstantsAssumption
  <2>3. sweep \in Seq(PlannerSet) /\ sweep # <<>> /\ created[Head(sweep)] = {}
    BY <1>5, <2>1, <2>2 DEF Shape, Cleaning
  <2>4. ToSet(sweep) = {Head(sweep)} \cup ToSet(Tail(sweep))
    BY <2>3, Rest
  <2> QED
    BY <1>1, <1>5, <2>1, <2>3, <2>4 DEF Clean
<1>10. CASE end_cleanup
  <2>1. phase = "CleaningUp" /\ to_remove = None /\ sweep = <<>> /\ UNCHANGED <<sweep, to_remove>>
    BY <1>10 DEF end_cleanup
  <2>2. ToSet(sweep) = {}
    BY <2>1, HeldByNone
  <2> QED
    BY <1>1, <1>5, <2>1, <2>2 DEF Clean
<1> QED
  BY <1>7, <1>8, <1>9, <1>10

\* Where no scenario runs and none has failed, nothing is left but what is hidden
LEMMA IdleClean ==
    ASSUME Clean, Unspoiled, node = None
    PROVE  \A u \in PlannerSet : created[u] = {} /\ flights[u] \subseteq hidden
<1>1. \A u \in PlannerSet : created[u] = {}
  BY DEF Clean
<1>2. \A u \in PlannerSet : flights[u] \subseteq hidden
  BY <1>1 DEF Clean
<1> QED
  BY <1>1, <1>2

\* Nothing else is there when a scenario begins
LEMMA BeginsKeepsClean ==
    ASSUME Shape, Clean, NEW n, Begins(n)
    PROVE  Clean'
<1>1. node = None /\ to_remove = None /\ UNCHANGED <<to_remove, created, flights, hidden>>
  BY DEF Begins
<1>2. SUFFICES ASSUME Unspoiled' PROVE Clean'
  BY DEF Clean
<1>3. \A i \in Ended : log[i].successful
  <2>1. Ended = 1..Len(log) /\ Ended' = 1..Len(log) /\ \A i \in 1..Len(log) : log'[i] = log[i]
    BY LogOpened
  <2>2. \A i \in Ended' : log'[i].successful
    BY <1>2 DEF Unspoiled
  <2> QED
    BY <2>1, <2>2
<1>4. Unspoiled
  BY <1>1, <1>3 DEF Unspoiled
<1>5. \A u \in PlannerSet : created[u] = {} /\ flights[u] \subseteq hidden
  BY <1>1, <1>4, IdleClean
<1> QED
  BY <1>1, <1>5 DEF Clean

\* Nothing else is there when a scenario ends with a success
LEMMA EndScenarioKeepsClean ==
    ASSUME Shape, Clean, EndScenario
    PROVE  Clean'
<1>1. /\ node # None /\ phase = "Complete" /\ to_remove' = None
      /\ UNCHANGED <<created, flights, hidden>>
  BY DEF EndScenario, world
<1>2. SUFFICES ASSUME Unspoiled' PROVE Clean'
  BY DEF Clean
<1>3. /\ \A i \in 1..Len(log) : i # Len(log) => log'[i] = log[i]
      /\ log'[Len(log)].successful = successful /\ Len(log) \in 1..Len(log)
      /\ Ended = (1..Len(log)) \ {Len(log)} /\ Ended' = 1..Len(log)
  <2>1. Len(log) \in Nat /\ Len(log) > 0
    BY LogClosed
  <2>2. Len(log) \in 1..Len(log)
    BY <2>1
  <2> QED
    BY <2>2, LogClosed
<1>4. \A i \in 1..Len(log) : log'[i].successful
  BY <1>2, <1>3 DEF Unspoiled
<1>5. \A i \in Ended : log[i].successful
  BY <1>3, <1>4
<1>6. successful
  BY <1>3, <1>4
<1>7. ~Spoiled
  <2>1. report.failed \subseteq {"Medium", "High"}
    BY DEF Shape, TypeInv, Report, Severities
  <2> QED
    BY <1>6, <2>1 DEF successful, Spoiled
<1>8. Unspoiled
  BY <1>5, <1>7 DEF Unspoiled
<1>9. \A u \in PlannerSet : created[u] = {}
  BY <1>1, <1>8 DEF Clean
<1>10. \A u \in PlannerSet : flights[u] \subseteq hidden
  BY <1>8, <1>9 DEF Clean
<1> QED
  BY <1>1, <1>9, <1>10 DEF Clean

\* Where no scenario is concerned
LEMMA OthersKeepClean ==
    ASSUME Clean, UNCHANGED <<node, phase, report, sweep, to_remove, created, flights, hidden, log>>
    PROVE  Clean'
<1>1. Ended' = Ended /\ Spoiled' = Spoiled
  BY DEF Ended, Spoiled
<1>2. Unspoiled' = Unspoiled
  BY <1>1 DEF Unspoiled
<1> QED
  BY <1>2 DEF Clean

\* Every step keeps things clean
LEMMA NextKeepsClean ==
    ASSUME Shape, Clean, [Next]_vars
    PROVE  Clean'
<1>1. CASE MakeResource \/ EndPass \/ EndActions \/ Exit \/ UNCHANGED vars
  <2>1. UNCHANGED <<scenario, world, log>>
    BY <1>1 DEF MakeResource, EndPass, EndActions, Exit, vars
  <2>2. UNCHANGED <<node, phase, report, sweep, to_remove, created, flights, hidden, log>>
    BY <2>1 DEF scenario, world
  <2> QED
    BY <2>2, OthersKeepClean
<1>2. CASE RunAction
  <2>1. PICK n : Begins(n) \/ Enters(n)
    BY <1>2, RunStep
  <2>2. CASE Begins(n)
    BY <2>2, BeginsKeepsClean
  <2>3. CASE Enters(n)
    <3>1. UNCHANGED <<node, phase, report, sweep, to_remove, created, flights, hidden, log>>
      BY <2>3 DEF Enters
    <3> QED
      BY <3>1, OthersKeepClean
  <2> QED
    BY <2>1, <2>2, <2>3
<1>3. CASE EndScenario
  BY <1>3, EndScenarioKeepsClean
<1>4. CASE Methodical
  BY <1>4, MethodsStep, MethodsKeepClean
<1>5. CASE Query
  BY <1>5, QueryStep, QueryKeepsClean
<1>6. CASE cleanup_flight
  BY <1>6, RemoveStep, RemoveKeepsClean
<1>7. CASE go_to_cleanup \/ CleanupPlanner \/ NextPlanner \/ end_cleanup
  BY <1>7, CleanupKeepsClean
<1> QED
  BY <1>1, <1>2, <1>3, <1>4, <1>5, <1>6, <1>7 DEF Next, Progress, Methodical

\* Things are clean at first
LEMMA InitClean == Init => Clean
BY DEF Init, Clean

\* A suite whose scenarios have all succeeded leaves no flight at a planner but
\* those whose planner denied planning or keeping them where no check can tell;
\* an area or a flight that was only said to be cleared or planned is found out,
\* whatever the planners are, the scenarios and their order (scenario.py:388-411,
\* test_steps.py:45-64, 206-279)
THEOREM SuccessAlwaysClean == Spec => []SuccessIsClean
<1>1. ASSUME Shape, Clean PROVE SuccessIsClean
  <2>1. SUFFICES ASSUME node = None, \A i \in DOMAIN log : log[i].successful
                 PROVE  \A u \in PlannerSet : created[u] = {} /\ flights[u] \subseteq hidden
    BY DEF SuccessIsClean, Idle
  <2>2. Unspoiled
    BY <2>1 DEF Unspoiled, Ended
  <2> QED
    BY <1>1, <2>1, <2>2, IdleClean
<1>2. Init => Clean
  BY InitClean
<1>3. Shape /\ Clean /\ [Next]_vars => Clean'
  BY NextKeepsClean
<1> QED
  BY <1>1, <1>2, <1>3, AlwaysShape, PTL DEF Spec

-----------------------------------------------------------------------------
(***************************************************************************)
(* A scenario does not fail by itself                                      *)
(***************************************************************************)

\* What the rest of a script keeps of the whole
LEMMA ScriptRest ==
    ASSUME NEW C, NEW s \in Seq(C), s # <<>>, NEW p, NEW q, Chain(s, p, q), Ordered(s)
    PROVE  /\ Before(Head(s)) = p /\ Chain(Tail(s), Afterwards(Head(s)), q) /\ Ordered(Tail(s))
           /\ \A c \in ToSet(Tail(s)) : MayPrecede(Weight(Head(s)), Weight(c))
<1>1. /\ Head(s) = s[1] /\ Len(s) \in Nat /\ Len(s) > 0
      /\ Tail(s) \in Seq(C) /\ Len(Tail(s)) = Len(s) - 1
      /\ \A i \in 1..Len(Tail(s)) : Tail(s)[i] = s[i + 1]
  BY Rest
<1> DEFINE t == Tail(s)
<1> HIDE DEF t
<1>2. t \in Seq(C) /\ Len(t) = Len(s) - 1 /\ \A i \in 1..Len(t) : t[i] = s[i + 1]
  BY <1>1 DEF t
<1>3. Before(s[1]) = p /\ Afterwards(s[Len(s)]) = q
  BY DEF Chain
<1>4. \A i \in 1..(Len(s) - 1) : Afterwards(s[i]) = Before(s[i + 1])
  BY DEF Chain
<1>5. Chain(t, Afterwards(s[1]), q)
  <2>1. CASE t = <<>>
    <3>1. Len(t) = 0
      BY <2>1, HeldByNone
    <3>2. Len(s) = 1
      <4>1. PICK n \in Nat : n = Len(s)
        BY <1>1
      <4>2. 0 = n - 1
        BY <1>2, <3>1, <4>1
      <4>3. n = 1
        BY <4>2
      <4> QED
        BY <4>1, <4>3
    <3>3. 1..(0 - 1) = {}
      OBVIOUS
    <3> QED
      BY <1>3, <2>1, <3>1, <3>2, <3>3 DEF Chain
  <2>2. CASE t # <<>>
    <3>1. Len(t) \in Nat /\ Len(t) > 0
      BY <1>2, <2>2, Rest
    <3>2. t[1] = s[2] /\ t[Len(t)] = s[Len(s)] /\ 1 \in 1..(Len(s) - 1) /\ 1 + 1 = 2
      BY <1>1, <1>2, <3>1
    <3>3. Before(t[1]) = Afterwards(s[1])
      BY <1>4, <3>2
    <3>4. ASSUME NEW i \in 1..(Len(t) - 1) PROVE Afterwards(t[i]) = Before(t[i + 1])
      <4>1. i \in 1..Len(t) /\ i + 1 \in 1..Len(t) /\ i + 1 \in 1..(Len(s) - 1)
        BY <1>1, <1>2, <3>1
      <4>2. t[i] = s[i + 1] /\ t[i + 1] = s[(i + 1) + 1]
        BY <1>2, <4>1
      <4> QED
        BY <1>4, <4>1, <4>2
    <3> QED
      BY <1>3, <2>2, <3>2, <3>3, <3>4 DEF Chain
  <2> QED
    BY <2>1, <2>2
<1>6. Ordered(t)
  <2>1. SUFFICES ASSUME NEW i \in 1..Len(t), NEW j \in 1..Len(t), i < j
                 PROVE  MayPrecede(Weight(t[i]), Weight(t[j]))
    BY DEF Ordered
  <2>2. i + 1 \in 1..Len(s) /\ j + 1 \in 1..Len(s) /\ i + 1 < j + 1
    BY <1>1, <1>2, <2>1
  <2>3. t[i] = s[i + 1] /\ t[j] = s[j + 1]
    BY <1>2
  <2> QED
    BY <2>2, <2>3 DEF Ordered
<1>7. ASSUME NEW c \in ToSet(t) PROVE MayPrecede(Weight(s[1]), Weight(c))
  <2>1. PICK i \in 1..Len(t) : t[i] = c
    BY <1>2, Held
  <2>2. 1 \in 1..Len(s) /\ i + 1 \in 1..Len(s) /\ 1 < i + 1
    BY <1>1, <1>2
  <2>3. s[i + 1] = c
    BY <1>2, <2>1
  <2> QED
    BY <2>2, <2>3 DEF Ordered
<1> QED
  BY <1>1, <1>3, <1>5, <1>6, <1>7 DEF t

\* What comes after what
LEMMA Precedence ==
    \A b, c : MayPrecede(Weight(b), Weight(c)) =>
        /\ b[1] \in {"support", "prerequisite"} => c[1] # "information"
        /\ b[1] \in {"inject", "inject_priority"} => c[1] \notin {"clear_area", "inject"}
        /\ b[1] = "attempt_conflicting" => c[1] # "inject"
        /\ b[1] = "begin_test_case" /\ c[1] = "begin_test_case" => b[2] # c[2]
<1> SUFFICES ASSUME NEW b, NEW c, MayPrecede(Weight(b), Weight(c))
             PROVE  /\ b[1] \in {"support", "prerequisite"} => c[1] # "information"
                    /\ b[1] \in {"inject", "inject_priority"} => c[1] \notin {"clear_area", "inject"}
                    /\ b[1] = "attempt_conflicting" => c[1] # "inject"
                    /\ b[1] = "begin_test_case" /\ c[1] = "begin_test_case" => b[2] # c[2]
  OBVIOUS
<1>1. ASSUME b[1] \in {"support", "prerequisite"}, c[1] = "information" PROVE FALSE
  <2>1. Weight(b) \in {3, 4} /\ Weight(c) = 2
    BY <1>1 DEF Weight
  <2> QED
    BY <2>1 DEF MayPrecede
<1>2. ASSUME b[1] \in {"inject", "inject_priority"}, c[1] \in {"clear_area", "inject"} PROVE FALSE
  <2>1. Weight(b) \in {8, 10} /\ Weight(c) \in {5, 8}
    BY <1>2 DEF Weight
  <2> QED
    BY <2>1 DEF MayPrecede
<1>3. ASSUME b[1] = "begin_test_case", c[1] = "begin_test_case", b[2] = c[2] PROVE FALSE
  <2>1. Weight(b) = Weight(c)
    BY <1>3 DEF Weight
  <2>2. Weight(b) \in {1, 6, 7, 9, 11}
    BY <1>3, CasesOnce
  <2> QED
    BY <2>1, <2>2 DEF MayPrecede
<1>4. ASSUME b[1] = "attempt_conflicting", c[1] = "inject" PROVE FALSE
  <2>1. Weight(b) = 12 /\ Weight(c) = 8
    BY <1>4 DEF Weight
  <2> QED
    BY <2>1 DEF MayPrecede
<1> QED
  BY <1>1, <1>2, <1>3, <1>4

\* A scenario without an excuse has had none before
LEMMA NoExcuse ==
    ASSUME node # None, UNCHANGED <<node, log>>, report.faulty \subseteq report'.faulty
    PROVE  Inexcusable' => Inexcusable
BY DEF Inexcusable

\* The script of a scenario without an excuse goes from phase to phase
LEMMA InnocentScript ==
    ASSUME Shape, Blameless, Inexcusable, script # <<>>
    PROVE  /\ phase = Before(Head(script))
           /\ Chain(Tail(script), Afterwards(Head(script)), "ReadyForCleanup") /\ Ordered(Tail(script))
           /\ Prepared(script)
           /\ ToSet(script) = {Head(script)} \cup ToSet(Tail(script))
           /\ \A c \in ToSet(Tail(script)) :
                 /\ Head(script)[1] \in {"support", "prerequisite"} => c[1] # "information"
                 /\ Head(script)[1] \in {"inject", "inject_priority"} => c[1] \notin {"clear_area", "inject"}
                 /\ Head(script)[1] = "attempt_conflicting" => c[1] # "inject"
                 /\ Head(script)[1] = "begin_test_case" /\ c[1] = "begin_test_case" => Head(script)[2] # c[2]
<1>1. script \in Seq(CallsOf(node.planners))
  BY RunningScenario DEF Inexcusable
<1>2. Chain(script, phase, "ReadyForCleanup") /\ Ordered(script) /\ Prepared(script)
  BY DEF Blameless
<1>3. /\ Before(Head(script)) = phase /\ Chain(Tail(script), Afterwards(Head(script)), "ReadyForCleanup")
      /\ Ordered(Tail(script))
      /\ \A c \in ToSet(Tail(script)) : MayPrecede(Weight(Head(script)), Weight(c))
  BY <1>1, <1>2, ScriptRest
<1>4. ToSet(script) = {Head(script)} \cup ToSet(Tail(script))
  BY <1>1, Rest
<1>5. \A c \in ToSet(Tail(script)) :
         /\ Head(script)[1] \in {"support", "prerequisite"} => c[1] # "information"
         /\ Head(script)[1] \in {"inject", "inject_priority"} => c[1] \notin {"clear_area", "inject"}
         /\ Head(script)[1] = "attempt_conflicting" => c[1] # "inject"
         /\ Head(script)[1] = "begin_test_case" /\ c[1] = "begin_test_case" => Head(script)[2] # c[2]
  BY <1>3, Precedence
<1> QED
  BY <1>2, <1>3, <1>4, <1>5

\* What the rest of a script needs, step by step
LEMMA PreparedRest ==
    ASSUME NEW s,
           \A c \in ToSet(s) : c[1] = "begin_test_case" => c[2] \notin report'.cases,
           \A c \in ToSet(s) : c[1] \in {"support", "prerequisite"} =>
               c[2] \in known' \/ <<"information", c[2]>> \in ToSet(s),
           \A c \in ToSet(s) : c[1] = "clear_area" => created'[c[2]] = {},
           \A c \in ToSet(s) : c[1] = "inject" =>
               \A u \in PlannerSet : flights'[u] = {} \/ <<"clear_area", u>> \in ToSet(s),
           \A c \in ToSet(s) : c[1] = "attempt_conflicting" => Backed(s) \/ (Occupied' /\ Uncleared(s)),
           script' = s
    PROVE  Prepared(script)'
<1>1. Backed(script)' = Backed(s) /\ Uncleared(script)' = Uncleared(s)
  BY DEF Backed, Uncleared
<1> QED
  BY <1>1 DEF Prepared

\* The methods of a scenario that nobody has disturbed do not raise
LEMMA MethodsKeepBlameless ==
    ASSUME Shape, Blameless, Forward \/ Breaks
    PROVE  Blameless'
<1>1. /\ node # None /\ script # <<>> /\ Head(script)[1] \in Methods /\ report'.faulty = report.faulty
      /\ UNCHANGED <<known, sweep, to_remove, node, created, flights, log>>
  BY DEF Forward, Breaks, Running
<1>2. SUFFICES ASSUME Inexcusable' PROVE Blameless'
  BY DEF Blameless
<1>3. Inexcusable
  BY <1>1, <1>2, NoExcuse
<1>4. /\ phase = Before(Head(script))
      /\ Chain(Tail(script), Afterwards(Head(script)), "ReadyForCleanup") /\ Ordered(Tail(script))
      /\ Prepared(script)
      /\ ToSet(script) = {Head(script)} \cup ToSet(Tail(script))
      /\ \A c \in ToSet(Tail(script)) :
            Head(script)[1] = "begin_test_case" /\ c[1] = "begin_test_case" => Head(script)[2] # c[2]
  BY <1>1, <1>3, InnocentScript
<1>5. Head(script)[1] = "begin_test_case" => Head(script)[2] \notin report.cases
  BY <1>4 DEF Prepared
<1>6. ~Breaks
  BY <1>4, <1>5 DEF Breaks
<1>7. /\ phase' = Afterwards(Head(script)) /\ script' = Tail(script)
      /\ report'.failed = report.failed /\ report'.error = report.error
      /\ report'.cases = IF Head(script)[1] = "begin_test_case" THEN report.cases \cup {Head(script)[2]}
                         ELSE report.cases
  BY <1>6 DEF Forward
<1>8. ~Spoiled'
  <2>1. ~Spoiled
    BY <1>3 DEF Blameless
  <2> QED
    BY <1>7, <2>1 DEF Spoiled
<1>9. Prepared(script)'
  <2> DEFINE s == Tail(script)
  <2>1. \A c \in ToSet(s) : c[1] = "begin_test_case" => c[2] \notin report'.cases
    BY <1>4, <1>7 DEF Prepared
  <2>2. \A q, u : q \in {"information", "clear_area", "inject"} /\ <<q, u>> \in ToSet(script) => <<q, u>> \in ToSet(s)
    <3>1. \A q, u : q \in {"information", "clear_area", "inject"} => <<q, u>> # Head(script)
      BY <1>1 DEF Methods
    <3> QED
      BY <1>4, <3>1
  <2>3. \A c \in ToSet(s) : c[1] \in {"support", "prerequisite"} =>
            c[2] \in known' \/ <<"information", c[2]>> \in ToSet(s)
    BY <1>1, <1>4, <2>2 DEF Prepared
  <2>4. \A c \in ToSet(s) : c[1] = "clear_area" => created'[c[2]] = {}
    BY <1>1, <1>4 DEF Prepared
  <2>5. \A c \in ToSet(s) : c[1] = "inject" =>
            \A u \in PlannerSet : flights'[u] = {} \/ <<"clear_area", u>> \in ToSet(s)
    BY <1>1, <1>4, <2>2 DEF Prepared
  <2>6. \A c \in ToSet(s) : c[1] = "attempt_conflicting" => Backed(s) \/ (Occupied' /\ Uncleared(s))
    <3>1. (Backed(script) => Backed(s)) /\ (Uncleared(script) => Uncleared(s)) /\ Occupied' = Occupied
      BY <1>1, <1>4, <2>2 DEF Backed, Uncleared, Occupied
    <3> QED
      BY <1>4, <3>1 DEF Prepared
  <2> QED
    BY <1>7, <2>1, <2>3, <2>4, <2>5, <2>6, PreparedRest
<1>10. phase' # "CleaningUp" /\ to_remove = None
  BY <1>1, <1>7, PhasesLeft DEF Shape, Cleaning
<1>11. Chain(script, phase, "ReadyForCleanup")' /\ Ordered(script)'
  BY <1>4, <1>7 DEF Chain, Ordered
<1>12. \A u \in PlannerSet : /\ u \in ToSet(node.planners) => created[u] \subseteq flights[u]
                             /\ u \notin ToSet(node.planners) => flights[u] = {}
  BY <1>3 DEF Blameless
<1> QED
  BY <1>1, <1>8, <1>9, <1>10, <1>11, <1>12 DEF Blameless

\* A scenario that nobody has disturbed is answered without a fault: no check
\* fails, nothing raises, and what is planned is held
LEMMA QueryKeepsBlameless ==
    ASSUME Shape, Blameless, NEW r, Asked(r)
    PROVE  Blameless'
<1> DEFINE c == Head(script)
           s == Tail(script)
<1>1. /\ node # None /\ script # <<>> /\ phase \notin {"CleaningUp", "Complete"} /\ to_remove = None
      /\ UNCHANGED <<node, sweep, to_remove, log>>
      /\ r \in Answer /\ Noticed(c, r) /\ Fair(c, r) /\ Goes(r) /\ Keep(c[2], r)
      /\ known' = IF r.effect = "know" THEN known \cup {c[2]} ELSE known
  BY DEF Asked
<1>2. report \in Report
  BY DEF Shape, TypeInv
<1>3. report'.faulty = report.faulty \cup r.fault
  BY <1>1, <1>2 DEF Goes, Report
<1>4. SUFFICES ASSUME Inexcusable' PROVE Blameless'
  BY DEF Blameless
<1>5. report'.faulty = {}
  BY <1>4 DEF Inexcusable
<1>6. r.fault = {} /\ report.faulty = {}
  BY <1>3, <1>5
<1>7. Inexcusable
  BY <1>1, <1>4, <1>6, NoExcuse
<1>8. /\ phase = Before(c) /\ Chain(s, Afterwards(c), "ReadyForCleanup") /\ Ordered(s)
      /\ Prepared(script) /\ ToSet(script) = {c} \cup ToSet(s)
      /\ \A d \in ToSet(s) :
            /\ c[1] \in {"support", "prerequisite"} => d[1] # "information"
            /\ c[1] \in {"inject", "inject_priority"} => d[1] \notin {"clear_area", "inject"}
            /\ c[1] = "attempt_conflicting" => d[1] # "inject"
  BY <1>1, <1>7, InnocentScript
<1>9. Before(c) = "RunningTestStep" /\ Afterwards(c) = "RunningTestStep"
  <2>1. c[1] \in PlannerCalls \cup OtherCalls
    BY DEF Asked
  <2> QED
    BY <2>1 DEF Before, Afterwards, PlannerCalls, OtherCalls
<1>10. ~(c[1] \in {"support", "prerequisite"} /\ c[2] \notin known)
  <2>1. SUFFICES ASSUME c[1] \in {"support", "prerequisite"}, c[2] \notin known PROVE FALSE
    OBVIOUS
  <2>2. PICK d : d = <<"information", c[2]>>
    OBVIOUS
  <2>3. d \in ToSet(script) /\ d[1] = "information"
    BY <1>8, <2>1, <2>2 DEF Prepared
  <2>4. d # c
    BY <2>1, <2>3
  <2> QED
    BY <1>8, <2>1, <2>3, <2>4
<1>11. ~(c[1] = "inject" /\ Occupied)
  <2>1. SUFFICES ASSUME c[1] = "inject", Occupied PROVE FALSE
    OBVIOUS
  <2>2. PICK u \in PlannerSet : flights[u] # {}
    BY <2>1 DEF Occupied
  <2>3. PICK d : d = <<"clear_area", u>>
    OBVIOUS
  <2>4. d \in ToSet(script) /\ d[1] = "clear_area"
    BY <1>8, <2>1, <2>2, <2>3 DEF Prepared
  <2>5. d # c
    BY <2>1, <2>4
  <2> QED
    BY <1>8, <2>1, <2>4, <2>5
<1>11a. ~(c[1] = "attempt_conflicting" /\ ~Occupied)
  <2>1. SUFFICES ASSUME c[1] = "attempt_conflicting", ~Occupied PROVE FALSE
    OBVIOUS
  <2>2. Backed(script)
    BY <1>8, <2>1 DEF Prepared
  <2>3. PICK u, d : d = <<"inject", u>> /\ d \in ToSet(script)
    BY <2>2 DEF Backed
  <2>4. d[1] = "inject" /\ d # c
    BY <2>1, <2>3
  <2> QED
    BY <1>8, <2>1, <2>3, <2>4
<1>12. r.failed = {} /\ r.then # "raise"
  BY <1>1, <1>6, <1>10, <1>11, <1>11a DEF Fair
<1>13. /\ phase' = phase
       /\ report' = [report EXCEPT !.faulty = @ \cup r.fault, !.failed = @ \cup r.failed,
                                   !.blamed = @ \cup r.blamed]
  BY <1>1, <1>8, <1>9, <1>12 DEF Goes
<1>14. report'.failed = report.failed /\ report'.error = report.error /\ report'.cases = report.cases
  BY <1>2, <1>12, <1>13 DEF Report
<1>15. ~Spoiled'
  <2>1. ~Spoiled
    BY <1>7 DEF Blameless
  <2> QED
    BY <1>14, <2>1 DEF Spoiled
<1>16. /\ created \in [PlannerSet -> SUBSET Nat] /\ flights \in [PlannerSet -> SUBSET Nat]
       /\ ToSet(node.planners) \subseteq PlannerSet
  BY <1>1, RunningScenario DEF Shape, TypeInv
<1>17. r.effect # "none" => c[2] \in ToSet(node.planners)
  <2>1. r.effect # "none" => c[1] \in PlannerCalls
    BY DEF Asked, Noticed
  <2>2. c[1] \in PlannerCalls => c[1] \notin OtherCalls
    BY DEF PlannerCalls, OtherCalls
  <2> QED
    BY <2>1, <2>2 DEF Asked
<1>18. r.effect \notin {"plan_unknown", "claim"}
  BY <1>1, <1>6 DEF Fair
<1>19. /\ r.effect = "plan" => /\ c[1] \in {"inject", "inject_priority"}
                               /\ created' = [created EXCEPT ![c[2]] = @ \cup {ids}]
                               /\ flights' = [flights EXCEPT ![c[2]] = @ \cup {ids}]
       /\ r.effect = "clear" => /\ c[1] = "clear_area"
                                /\ created' = created /\ flights' = [flights EXCEPT ![c[2]] = {}]
       /\ r.effect \notin {"plan", "clear"} =>
             c[1] # "clear_area" /\ created' = created /\ flights' = flights
  BY <1>1, <1>6, <1>11a, <1>18 DEF Keep, Fair
<1>20. ASSUME NEW u \in PlannerSet
       PROVE  /\ u \in ToSet(node.planners) => created'[u] \subseteq flights'[u]
              /\ u \notin ToSet(node.planners) => flights'[u] = {}
  <2>1. /\ u \in ToSet(node.planners) => created[u] \subseteq flights[u]
        /\ u \notin ToSet(node.planners) => flights[u] = {}
    BY <1>7 DEF Blameless
  <2>2. CASE r.effect = "plan"
    <3>1. CASE u = c[2]
      BY <1>16, <1>17, <1>19, <2>1, <2>2, <3>1
    <3>2. CASE u # c[2]
      BY <1>16, <1>19, <2>1, <2>2, <3>2
    <3> QED
      BY <3>1, <3>2
  <2>3. CASE r.effect = "clear"
    <3>1. created[c[2]] = {}
      BY <1>8, <1>19, <2>3 DEF Prepared
    <3>2. CASE u = c[2]
      BY <1>16, <1>19, <2>1, <2>3, <3>1, <3>2
    <3>3. CASE u # c[2]
      BY <1>16, <1>19, <2>1, <2>3, <3>3
    <3> QED
      BY <3>2, <3>3
  <2>4. CASE r.effect \notin {"plan", "clear"}
    BY <1>19, <2>1, <2>4
  <2> QED
    BY <2>2, <2>3, <2>4
<1>21. r.then \in {"next", "stop"}
  BY <1>1, <1>6, <1>12 DEF Answer, Noticed
<1>22. script' # <<>> => script' = s
  BY <1>1, <1>8, <1>9, <1>12, <1>21 DEF Goes
<1>23. ASSUME script' = s PROVE Prepared(script)'
  <2>1. \A d \in ToSet(s) : d[1] = "begin_test_case" => d[2] \notin report'.cases
    BY <1>8, <1>14 DEF Prepared
  <2>2. ASSUME NEW d \in ToSet(s), d[1] \in {"support", "prerequisite"}
        PROVE  d[2] \in known' \/ <<"information", d[2]>> \in ToSet(s)
    <3>1. d[2] \in known \/ <<"information", d[2]>> \in ToSet(script)
      BY <1>8, <2>2 DEF Prepared
    <3>2. known \subseteq known'
      BY <1>1
    <3>3. <<"information", d[2]>> = c => d[2] \in known'
      <4>1. SUFFICES ASSUME c[1] = "information", c[2] = d[2] PROVE d[2] \in known'
        OBVIOUS
      <4>2. r.effect = "know"
        BY <1>1, <1>6, <4>1 DEF Fair
      <4> QED
        BY <1>1, <4>1, <4>2
    <3> QED
      BY <1>8, <3>1, <3>2, <3>3
  <2>3. ASSUME NEW d \in ToSet(s), d[1] = "clear_area" PROVE created'[d[2]] = {}
    <3>1. r.effect # "plan"
      BY <1>8, <1>19, <2>3
    <3>2. created' = created
      BY <1>19, <3>1
    <3> QED
      BY <1>8, <2>3, <3>2 DEF Prepared
  <2>4. ASSUME NEW d \in ToSet(s), d[1] = "inject", NEW u \in PlannerSet
        PROVE  flights'[u] = {} \/ <<"clear_area", u>> \in ToSet(s)
    <3>1. r.effect # "plan"
      BY <1>8, <1>19, <2>4
    <3>2. flights[u] = {} \/ <<"clear_area", u>> \in ToSet(script)
      BY <1>8, <2>4 DEF Prepared
    <3>3. CASE <<"clear_area", u>> = c
      <4>1. c[1] = "clear_area" /\ c[2] = u
        BY <3>3
      <4>2. flights' = [flights EXCEPT ![u] = {}]
        BY <1>19, <3>1, <4>1
      <4> QED
        BY <1>16, <4>2
    <3>4. CASE <<"clear_area", u>> # c
      <4>1. flights[u] = {} => flights'[u] = {}
        BY <1>16, <1>19, <3>1
      <4> QED
        BY <1>8, <3>2, <3>4, <4>1
    <3> QED
      BY <3>3, <3>4
  <2>5. ASSUME NEW d \in ToSet(s), d[1] = "attempt_conflicting"
        PROVE  Backed(s) \/ (Occupied' /\ Uncleared(s))
    <3>1. Backed(script) \/ (Occupied /\ Uncleared(script))
      BY <1>8, <2>5 DEF Prepared
    <3>2. CASE Backed(script)
      <4>1. PICK u : <<"inject", u>> \in ToSet(script)
        BY <3>2 DEF Backed
      <4>2. CASE <<"inject", u>> # c
        BY <1>8, <4>1, <4>2 DEF Backed
      <4>3. CASE <<"inject", u>> = c
        <5>1. c[1] = "inject"
          BY <4>3
        <5>2. r.effect = "plan"
          BY <1>1, <1>6, <1>11, <5>1 DEF Fair
        <5>3. c[2] \in PlannerSet /\ flights' = [flights EXCEPT ![c[2]] = @ \cup {ids}]
          BY <1>16, <1>17, <1>19, <5>2
        <5>4. Occupied'
          BY <1>16, <5>3 DEF Occupied
        <5>5. Uncleared(s)
          BY <1>8, <5>1 DEF Uncleared
        <5> QED
          BY <5>4, <5>5
      <4> QED
        BY <4>2, <4>3
    <3>3. CASE Occupied /\ Uncleared(script)
      <4>1. c[1] # "clear_area" /\ Uncleared(s)
        BY <1>8, <3>3 DEF Uncleared
      <4>2. PICK u \in PlannerSet : flights[u] # {}
        BY <3>3 DEF Occupied
      <4>3. flights[u] \subseteq flights'[u]
        BY <1>16, <1>19, <4>1
      <4>4. Occupied'
        BY <4>2, <4>3 DEF Occupied
      <4> QED
        BY <4>1, <4>4
    <3> QED
      BY <3>1, <3>2, <3>3
  <2> QED
    BY <1>23, <2>1, <2>2, <2>3, <2>4, <2>5, PreparedRest
<1>24. script' # <<>> =>
          Chain(script, phase, "ReadyForCleanup")' /\ Ordered(script)' /\ Prepared(script)'
  <2>1. SUFFICES ASSUME script' = s
                 PROVE  Chain(script, phase, "ReadyForCleanup")' /\ Ordered(script)' /\ Prepared(script)'
    BY <1>22
  <2>2. Chain(s, phase, "ReadyForCleanup") /\ Ordered(s)
    BY <1>8, <1>9
  <2>3. Chain(script, phase, "ReadyForCleanup")' /\ Ordered(script)'
    BY <1>13, <2>1, <2>2 DEF Chain, Ordered
  <2> QED
    BY <1>23, <2>1, <2>3
<1> HIDE DEF c, s
<1> QED
  BY <1>1, <1>13, <1>15, <1>20, <1>24 DEF Blameless

\* A flight that is kept is held, so that it can be deleted
LEMMA RemoveKeepsBlameless ==
    ASSUME Shape, Blameless, NEW u, NEW id, Removes(u, id)
    PROVE  Blameless'
<1>1. /\ node # None /\ phase = "CleaningUp" /\ script = <<>> /\ u = Head(sweep) /\ u \in PlannerSet
      /\ to_remove # None /\ id \in to_remove
      /\ UNCHANGED <<node, script, sweep, log>>
  BY DEF Removes
<1>2. /\ created \in [PlannerSet -> SUBSET Nat] /\ flights \in [PlannerSet -> SUBSET Nat]
      /\ report \in Report
  BY DEF Shape, TypeInv
<1>3. SUFFICES ASSUME Inexcusable' PROVE Blameless'
  BY DEF Blameless
<1>4. CASE Closes(u, id)
  <2>1. /\ flights' = [flights EXCEPT ![u] = @ \ {id}]
        /\ created' = [created EXCEPT ![u] = IF id \in flights[u] THEN @ \ {id} ELSE @]
        /\ report' = IF id \in flights[u] THEN report
                     ELSE [report EXCEPT !.failed = @ \cup {"Medium"}, !.blamed = @ \cup {u}]
        /\ to_remove' = to_remove \ {id} /\ phase' = phase
    BY <1>4 DEF Closes
  <2>2. /\ report'.faulty = report.faulty
        /\ id \in flights[u] => report' = report
    BY <1>2, <2>1 DEF Report
  <2>3. Inexcusable
    BY <1>1, <1>3, <2>2, NoExcuse
  <2>4. /\ ~Spoiled /\ to_remove \subseteq created[u] /\ u \in ToSet(node.planners)
        /\ ToSet(sweep) \subseteq ToSet(node.planners)
    BY <1>1, <2>3 DEF Blameless
  <2>5. created[u] \subseteq flights[u]
    BY <1>1, <2>3, <2>4 DEF Blameless
  <2>6. id \in flights[u]
    BY <1>1, <2>4, <2>5
  <2>7. ~Spoiled'
    BY <2>2, <2>4, <2>6 DEF Spoiled
  <2>8. created'[u] = created[u] \ {id} /\ flights'[u] = flights[u] \ {id}
    BY <1>1, <1>2, <2>1, <2>6
  <2>9. \A v \in PlannerSet : v # u => created'[v] = created[v] /\ flights'[v] = flights[v]
    BY <1>2, <2>1
  <2>10. ASSUME NEW v \in PlannerSet
         PROVE  /\ v \in ToSet(node.planners) => created'[v] \subseteq flights'[v]
                /\ v \notin ToSet(node.planners) => flights'[v] = {}
    <3>1. /\ v \in ToSet(node.planners) => created[v] \subseteq flights[v]
          /\ v \notin ToSet(node.planners) => flights[v] = {}
      BY <2>3 DEF Blameless
    <3> QED
      BY <2>4, <2>8, <2>9, <3>1
  <2>11. to_remove' \subseteq created'[u]
    BY <2>1, <2>4, <2>8
  <2> QED
    BY <1>1, <2>1, <2>4, <2>7, <2>10, <2>11 DEF Blameless
<1>4a. CASE Pretends(u, id)
  <2>1. report'.faulty = report.faulty \cup {u}
    BY <1>2, <1>4a DEF Pretends, Report
  <2> QED
    BY <1>3, <2>1 DEF Inexcusable
<1>5. CASE Refuses(u, id)
  <2>1. report'.faulty = report.faulty \cup {u}
    BY <1>2, <1>5 DEF Refuses, Report
  <2> QED
    BY <1>3, <2>1 DEF Inexcusable
<1>6. CASE Silent(u, id)
  <2>1. report'.faulty = report.faulty \cup {u}
    BY <1>2, <1>6 DEF Silent, Report
  <2> QED
    BY <1>3, <2>1 DEF Inexcusable
<1> QED
  BY <1>4, <1>4a, <1>5, <1>6 DEF Removes

\* The rest of the cleanup
LEMMA CleanupKeepsBlameless ==
    ASSUME Shape, Blameless, go_to_cleanup \/ CleanupPlanner \/ NextPlanner \/ end_cleanup
    PROVE  Blameless'
<1>1. /\ node # None /\ phase # "Complete" /\ script = <<>>
      /\ UNCHANGED <<node, script, report, created, flights, log>>
  BY DEF go_to_cleanup, CleanupPlanner, NextPlanner, end_cleanup, Running, tree, world, Shape, Cleaning
<1>2. SUFFICES ASSUME Inexcusable' PROVE Blameless'
  BY DEF Blameless
<1>3. Inexcusable
  BY <1>1, <1>2, NoExcuse
<1>4. /\ ~Spoiled
      /\ \A u \in PlannerSet : /\ u \in ToSet(node.planners) => created[u] \subseteq flights[u]
                               /\ u \notin ToSet(node.planners) => flights[u] = {}
      /\ phase = "CleaningUp" => ToSet(sweep) \subseteq ToSet(node.planners)
  BY <1>3 DEF Blameless
<1>5. ~Spoiled'
  BY <1>1, <1>4 DEF Spoiled
<1>6. node.planners \in Seq(PlannerSet)
  BY <1>1, RunningScenario
<1>7. CASE go_to_cleanup
  <2>1. phase # "CleaningUp" /\ to_remove' = to_remove
    BY <1>7 DEF go_to_cleanup
  <2>2. to_remove = None
    BY <2>1 DEF Shape, Cleaning
  <2>3. \/ phase' = "CleaningUp" /\ sweep' = Reverse(node.planners)
        \/ phase' = "Complete"
    BY <1>7 DEF go_to_cleanup
  <2>4. ToSet(Reverse(node.planners)) = ToSet(node.planners)
    BY <1>6, Reversed
  <2> QED
    BY <1>1, <1>4, <1>5, <2>1, <2>2, <2>3, <2>4 DEF Blameless
<1>8. CASE CleanupPlanner
  <2>1. phase = "CleaningUp" /\ sweep # <<>> /\ to_remove' = created[Head(sweep)] /\ phase' = phase /\ sweep' = sweep
    BY <1>8 DEF CleanupPlanner
  <2>2. sweep \in Seq(PlannerSet)
    BY <2>1 DEF Shape, Cleaning
  <2>3. Head(sweep) \in ToSet(sweep)
    BY <2>1, <2>2, Rest
  <2> QED
    BY <1>1, <1>4, <1>5, <2>1, <2>3 DEF Blameless
<1>9. CASE NextPlanner
  <2>1. phase = "CleaningUp" /\ to_remove = {} /\ sweep' = Tail(sweep) /\ to_remove' = None /\ phase' = phase
    BY <1>9 DEF NextPlanner
  <2>2. sweep \in Seq(PlannerSet) /\ sweep # <<>>
    BY <2>1, ConstantsAssumption DEF Shape, Cleaning
  <2>3. ToSet(Tail(sweep)) \subseteq ToSet(sweep)
    BY <2>2, Rest
  <2> QED
    BY <1>1, <1>4, <1>5, <2>1, <2>3 DEF Blameless
<1>10. CASE end_cleanup
  <2>1. to_remove = None /\ phase' = "Complete" /\ UNCHANGED <<sweep, to_remove>>
    BY <1>10 DEF end_cleanup
  <2> QED
    BY <1>1, <1>4, <1>5, <2>1 DEF Blameless
<1> QED
  BY <1>7, <1>8, <1>9, <1>10


\* What a script needs before it has begun: nothing is known of the planners, no
\* flight is kept for them, and none is held by others
LEMMA PreparedAtFirst ==
    ASSUME NEW s, NEW us, Scripted(s, us), s # <<>>, script' = s, report'.cases = {}, known' = {},
           \A u \in ToSet(us) : created'[u] = {},
           \A u \in PlannerSet \ ToSet(us) : flights'[u] = {}
    PROVE  Prepared(script)'
<1>1. ToSet(s) \subseteq CallsOf(us)
  BY Held DEF Scripted, Formed
<1>2. ASSUME NEW c \in ToSet(s), c[1] \in {"support", "prerequisite", "clear_area"}
      PROVE  c[2] \in ToSet(us)
  <2>1. c \in CallsOf(us) /\ c[1] \notin Methods /\ c[1] \notin OtherCalls
    BY <1>1, <1>2 DEF Methods, OtherCalls
  <2> QED
    BY <2>1, Queried
<1>3. \A c \in ToSet(s) : c[1] = "begin_test_case" => c[2] \notin report'.cases
  OBVIOUS
<1>4. \A c \in ToSet(s) : c[1] \in {"support", "prerequisite"} =>
          c[2] \in known' \/ <<"information", c[2]>> \in ToSet(s)
  BY <1>2 DEF Scripted, Asks
<1>5. \A c \in ToSet(s) : c[1] = "clear_area" => created'[c[2]] = {}
  BY <1>2
<1>6. \A c \in ToSet(s) : c[1] = "inject" =>
          \A u \in PlannerSet : flights'[u] = {} \/ <<"clear_area", u>> \in ToSet(s)
  BY DEF Scripted, Asks
<1>7. \A c \in ToSet(s) : c[1] = "attempt_conflicting" => Backed(s) \/ (Occupied' /\ Uncleared(s))
  BY DEF Scripted
<1> QED
  BY <1>3, <1>4, <1>5, <1>6, <1>7, PreparedRest

\* A scenario that finds nothing left behind begins without an excuse
LEMMA BeginsKeepsBlameless ==
    ASSUME Shape, NEW n, Begins(n)
    PROVE  Blameless'
<1>1. /\ n \in Nodes /\ n.kind = "scenario" /\ to_remove = None
      /\ node' = n /\ script' = Script(n) /\ phase' = "NotStarted" /\ report' = NoReport /\ known' = {}
      /\ UNCHANGED <<to_remove, created, flights>>
  BY DEF Begins
<1>2. SUFFICES ASSUME Inexcusable' PROVE Blameless'
  BY DEF Blameless
<1>3. log'[Len(log')] = Opened(n)
  BY LogOpened
<1>4. Opened(n).stale = {} /\ ~Opened(n).crowded /\ (n.type = "Validation" => Invalid = 1)
  BY <1>1, <1>2, <1>3 DEF Inexcusable
<1>5. \A u \in ToSet(n.planners) : created[u] = {}
  BY <1>4 DEF Opened
<1>6. \A u \in PlannerSet \ ToSet(n.planners) : flights[u] = {}
  BY <1>4 DEF Opened
<1>7. Scripted(Script(n), n.planners)
  BY <1>1, <1>4, AllScripted
<1>8. /\ report'.cases = {} /\ report'.failed = {} /\ report'.error = FALSE
  BY <1>1 DEF NoReport
<1>9. ~Spoiled'
  BY <1>8 DEF Spoiled
<1>10. script' # <<>> => Prepared(script)'
  BY <1>1, <1>5, <1>6, <1>7, <1>8, PreparedAtFirst
<1>11. Chain(script, phase, "ReadyForCleanup")' /\ Ordered(script)'
  BY <1>1, <1>7 DEF Scripted, Chain, Ordered
<1>12. \A u \in PlannerSet : /\ u \in ToSet(n.planners) => created[u] \subseteq flights[u]
                             /\ u \notin ToSet(n.planners) => flights[u] = {}
  BY <1>5, <1>6
<1> QED
  BY <1>1, <1>9, <1>10, <1>11, <1>12 DEF Blameless

\* Where no scenario is concerned
LEMMA OthersKeepBlameless ==
    ASSUME Blameless,
           UNCHANGED <<node, phase, report, known, sweep, to_remove, script, created, flights, log>>
    PROVE  Blameless'
<1>1. Inexcusable' = Inexcusable /\ Spoiled' = Spoiled
  BY DEF Inexcusable, Spoiled
<1>2. /\ Prepared(script)' = Prepared(script) /\ Ordered(script)' = Ordered(script)
      /\ Chain(script, phase, "ReadyForCleanup")' = Chain(script, phase, "ReadyForCleanup")
  BY DEF Prepared, Backed, Uncleared, Occupied, Ordered, Chain
<1> QED
  BY <1>1, <1>2 DEF Blameless

\* Every step keeps a scenario without an excuse from failing
LEMMA NextKeepsBlameless ==
    ASSUME Shape, Blameless, [Next]_vars
    PROVE  Blameless'
<1>1. CASE MakeResource \/ EndPass \/ EndActions \/ Exit \/ UNCHANGED vars
  <2>1. UNCHANGED <<scenario, world, log>>
    BY <1>1 DEF MakeResource, EndPass, EndActions, Exit, vars
  <2>2. UNCHANGED <<node, phase, report, known, sweep, to_remove, script, created, flights, log>>
    BY <2>1 DEF scenario, world
  <2> QED
    BY <2>2, OthersKeepBlameless
<1>2. CASE RunAction
  <2>1. PICK n : Begins(n) \/ Enters(n)
    BY <1>2, RunStep
  <2>2. CASE Begins(n)
    BY <2>2, BeginsKeepsBlameless
  <2>3. CASE Enters(n)
    <3>1. UNCHANGED <<node, phase, report, known, sweep, to_remove, script, created, flights, log>>
      BY <2>3 DEF Enters
    <3> QED
      BY <3>1, OthersKeepBlameless
  <2> QED
    BY <2>1, <2>2, <2>3
<1>3. CASE EndScenario
  <2>1. ~Inexcusable'
    BY <1>3 DEF EndScenario, Inexcusable
  <2> QED
    BY <2>1 DEF Blameless
<1>4. CASE Methodical
  BY <1>4, MethodsStep, MethodsKeepBlameless
<1>5. CASE Query
  BY <1>5, QueryStep, QueryKeepsBlameless
<1>6. CASE cleanup_flight
  BY <1>6, RemoveStep, RemoveKeepsBlameless
<1>7. CASE go_to_cleanup \/ CleanupPlanner \/ NextPlanner \/ end_cleanup
  BY <1>7, CleanupKeepsBlameless
<1> QED
  BY <1>1, <1>2, <1>3, <1>4, <1>5, <1>6, <1>7 DEF Next, Progress, Methodical

\* A report that is a failure has an excuse
LEMMA EndScenarioKeepsJustified ==
    ASSUME Shape, Blameless, FailuresJustified, EndScenario
    PROVE  FailuresJustified'
<1>1. /\ node # None /\ Len(log) \in Nat /\ Len(log) > 0 /\ Len(log') = Len(log) /\ log' \in Seq(Entry)
      /\ \A i \in 1..Len(log) : i # Len(log) => log'[i] = log[i]
      /\ log \in Seq(Entry) /\ report \in Report
  BY LogClosed DEF EndScenario, Shape, TypeInv
<1>2. DOMAIN log' = 1..Len(log) /\ DOMAIN log = 1..Len(log)
  BY <1>1
<1> DEFINE k == Len(log)
<1>3. /\ log'[k].successful = successful /\ log'[k].faulty = report.faulty
      /\ log'[k].type = node.type
      /\ log'[k].stale = log[k].stale /\ log'[k].crowded = log[k].crowded
  BY <1>1, LogClosed DEF Shape, Reports
<1>4. ASSUME log'[k].successful = FALSE
      PROVE  \/ log'[k].faulty # {} \/ log'[k].stale # {} \/ log'[k].crowded
             \/ log'[k].type = "Validation" /\ Invalid > 1
  <2>1. ~successful
    BY <1>3, <1>4
  <2>2. Spoiled
    BY <2>1 DEF successful, Spoiled
  <2>3. ~Inexcusable
    BY <2>2 DEF Blameless
  <2>4. report.faulty # {} \/ log[k].stale # {} \/ log[k].crowded \/ (node.type = "Validation" /\ Invalid # 1)
    BY <1>1, <2>3 DEF Inexcusable
  <2>5. Invalid # 1 => Invalid > 1
    BY ConstantsAssumption
  <2> QED
    BY <1>3, <2>4, <2>5
<1>5. ASSUME NEW i \in 1..Len(log), i # k
      PROVE  log'[i].successful = FALSE =>
                \/ log'[i].faulty # {} \/ log'[i].stale # {} \/ log'[i].crowded
                \/ log'[i].type = "Validation" /\ Invalid > 1
  <2>1. log'[i] = log[i] /\ i \in DOMAIN log
    BY <1>1, <1>2, <1>5
  <2> QED
    BY <2>1 DEF FailuresJustified
<1> HIDE DEF k
<1>6. \A i \in 1..Len(log) :
         log'[i].successful = FALSE =>
            \/ log'[i].faulty # {} \/ log'[i].stale # {} \/ log'[i].crowded
            \/ log'[i].type = "Validation" /\ Invalid > 1
  BY <1>4, <1>5
<1> QED
  BY <1>2, <1>6 DEF FailuresJustified

\* The report of a scenario that begins is no failure yet
LEMMA BeginsKeepsJustified ==
    ASSUME Shape, FailuresJustified, NEW n, Begins(n)
    PROVE  FailuresJustified'
<1>1. /\ log' \in Seq(Entry) /\ Len(log) \in Nat /\ Len(log') = Len(log) + 1
      /\ log'[Len(log')] = Opened(n) /\ \A i \in 1..Len(log) : log'[i] = log[i]
      /\ log \in Seq(Entry)
  BY LogOpened DEF Shape, TypeInv
<1>2. Opened(n).successful # FALSE
  <2>1. None # FALSE
    BY ConstantsAssumption
  <2> QED
    BY <2>1 DEF Opened
<1>3. DOMAIN log' = 1..Len(log') /\ DOMAIN log = 1..Len(log)
  BY <1>1
<1>4. \A i \in 1..Len(log') : i \in 1..Len(log) \/ i = Len(log')
  BY <1>1
<1>5. \A i \in 1..Len(log) :
         log'[i].successful = FALSE =>
            \/ log'[i].faulty # {} \/ log'[i].stale # {} \/ log'[i].crowded
            \/ log'[i].type = "Validation" /\ Invalid > 1
  BY <1>1, <1>3 DEF FailuresJustified
<1>6. log'[Len(log')].successful # FALSE
  BY <1>1, <1>2
<1> QED
  BY <1>3, <1>4, <1>5, <1>6 DEF FailuresJustified

\* Every step keeps failures justified
LEMMA NextKeepsJustified ==
    ASSUME Shape, Justified, [Next]_vars
    PROVE  Justified'
<1>1. Blameless'
  BY NextKeepsBlameless DEF Justified
<1>2. FailuresJustified'
  <2>1. CASE UNCHANGED log
    BY <2>1 DEF Justified, FailuresJustified
  <2>2. CASE EndScenario
    BY <2>2, EndScenarioKeepsJustified DEF Justified
  <2>3. CASE RunAction
    <3>1. PICK n : Begins(n) \/ Enters(n)
      BY <2>3, RunStep
    <3>2. CASE Begins(n)
      BY <3>2, BeginsKeepsJustified DEF Justified
    <3>3. CASE Enters(n)
      BY <2>1, <3>3 DEF Enters
    <3> QED
      BY <3>1, <3>2, <3>3
  <2>4. CASE MakeResource \/ EndPass \/ EndActions \/ Exit \/ UNCHANGED vars
    <3>1. UNCHANGED log
      BY <2>4 DEF MakeResource, EndPass, EndActions, Exit, vars
    <3> QED
      BY <2>1, <3>1
  <2>5. CASE Methodical
    <3>1. UNCHANGED log
      BY <2>5, MethodsStep DEF Forward, Breaks
    <3> QED
      BY <2>1, <3>1
  <2>6. CASE Query \/ cleanup_flight
    <3>1. UNCHANGED log
      BY <2>6 DEF Query, cleanup_flight
    <3> QED
      BY <2>1, <3>1
  <2>7. CASE go_to_cleanup \/ CleanupPlanner \/ NextPlanner \/ end_cleanup
    <3>1. UNCHANGED log
      BY <2>7 DEF go_to_cleanup, CleanupPlanner, NextPlanner, end_cleanup
    <3> QED
      BY <2>1, <3>1
  <2> QED
    BY <2>2, <2>3, <2>4, <2>5, <2>6, <2>7 DEF Next, Progress, Methodical
<1> QED
  BY <1>1, <1>2 DEF Justified

\* Nothing has failed at first
LEMMA InitJustified == Init => Justified
<1> SUFFICES ASSUME Init PROVE Justified
  OBVIOUS
<1>1. node = None /\ log = <<>>
  BY DEF Init
<1>2. DOMAIN log = {}
  BY <1>1
<1> QED
  BY <1>1, <1>2 DEF Justified, Blameless, Inexcusable, FailuresJustified

\* No scenario fails by itself, whatever the planners are, the scenarios and
\* their order: a scenario whose report is a failure has had a faulty answer,
\* was begun with a flight that an earlier one had left, or is Validation with more
\* than one invalid flight intent (scenario.py:198-386, validation.py:104-134)
THEOREM FailuresAlwaysJustified == Spec => []FailuresJustified
<1>1. Init => Justified
  BY InitJustified
<1>2. Shape /\ Justified /\ [Next]_vars => Justified'
  BY NextKeepsJustified
<1>3. Justified => FailuresJustified
  BY DEF Justified
<1> QED
  BY <1>1, <1>2, <1>3, AlwaysShape, PTL DEF Spec

-----------------------------------------------------------------------------
(***************************************************************************)
(* FlightPlannerCombinations: the odometer runs through all assignments    *)
(***************************************************************************)
Assignments(n) == [1..n -> 1..Len(Planners)]
IsLast(a, n) == \A j \in 1..n : a[j] = Len(Planners)

\* What is counted later: the first role that differs decides
Later == {p \in (1..Len(Planners)) \X (1..Len(Planners)) : p[1] > p[2]}
Follows(n) == LexProductOrdering(Later, 1..Len(Planners), n)

\* The assignments from one on
UpFrom(a, n) == {b \in Assignments(n) : b = a \/ <<b, a>> \in Follows(n)}

\* A set of indices has a greatest
LEMMA GreatestIndex ==
    ASSUME NEW n \in Nat, NEW S \in SUBSET (1..n), S # {}
    PROVE  \E x \in S : \A y \in S : x >= y
<1> DEFINE T == {n - x : x \in S}
<1>0. \A x \in S : x \in Nat /\ n - x \in Nat
  <2>1. \A x \in 1..n : x \in Nat /\ n - x \in Nat
    OBVIOUS
  <2> QED
    BY <2>1
<1>1. T \in SUBSET Nat /\ T # {}
  BY <1>0
<1>2. PICK m \in T : \A k \in T : m <= k
  BY <1>1, LeastNatural
<1>3. PICK x \in S : m = n - x
  OBVIOUS
<1>4. \A y \in S : n - y \in T
  OBVIOUS
<1>5. ASSUME NEW y \in S PROVE x >= y
  <2>1. n - x <= n - y
    BY <1>2, <1>3, <1>4
  <2>2. x \in Nat /\ y \in Nat
    BY <1>0
  <2> QED
    BY <2>1, <2>2
<1> QED
  BY <1>5

\* Planners are many enough for an index
LEMMA PlannerIndices == Len(Planners) \in Nat /\ 1 \in 1..Len(Planners) /\ DOMAIN Planners = 1..Len(Planners)
<1>1. Len(Planners) \in Nat /\ Len(Planners) > 0 /\ DOMAIN Planners = 1..Len(Planners)
  BY ConstantsAssumption
<1> QED
  BY <1>1

\* No assignment is followed for ever
LEMMA FollowsWellFounded ==
    ASSUME NEW n \in Nat
    PROVE  IsWellFoundedOn(Follows(n), Assignments(n))
<1> DEFINE K == 1..Len(Planners)
<1>1. ASSUME NEW T \in SUBSET K, T # {}
      PROVE  \E x \in T : \A y \in T : ~(<<y, x>> \in Later)
  <2>1. PICK x \in T : \A y \in T : x >= y
    BY <1>1, PlannerIndices, GreatestIndex
  <2>2. ASSUME NEW y \in T PROVE ~(<<y, x>> \in Later)
    <3>1. x \in Nat /\ y \in Nat /\ x >= y
      BY <2>1
    <3>2. ~(y > x)
      BY <3>1
    <3> QED
      BY <3>2 DEF Later
  <2> QED
    BY <2>2
<1>2. IsWellFoundedOn(Later, K)
  BY <1>1, MinWF
<1> HIDE DEF K
<1>3. IsWellFoundedOn(LexProductOrdering(Later, K, n), [1..n -> K])
  BY <1>2, WFLexProductOrdering
<1> QED
  BY <1>3 DEF K, Follows, Assignments

\* The first role that differs decides
LEMMA FollowsByFirst ==
    ASSUME NEW n \in Nat, NEW a \in Assignments(n), NEW b \in Assignments(n)
    PROVE  <<b, a>> \in Follows(n) <=> \E j \in 1..n : (\A i \in 1..(j - 1) : b[i] = a[i]) /\ b[j] > a[j]
<1>1. <<b, a>> \in Follows(n) <=>
          \E j \in 1..n : (\A i \in 1..(j - 1) : b[i] = a[i]) /\ <<b[j], a[j]>> \in Later
  BY DEF Follows, LexProductOrdering, Assignments
<1>2. \A j \in 1..n : <<b[j], a[j]>> \in Later <=> b[j] > a[j]
  BY DEF Later, Assignments
<1> QED
  BY <1>1, <1>2

\* Of two assignments one follows the other
LEMMA FollowsTotal ==
    ASSUME NEW n \in Nat, NEW a \in Assignments(n), NEW b \in Assignments(n), a # b
    PROVE  <<b, a>> \in Follows(n) \/ <<a, b>> \in Follows(n)
<1> DEFINE S == {j \in 1..n : a[j] # b[j]}
<1>1. S # {}
  <2>1. SUFFICES ASSUME \A j \in 1..n : a[j] = b[j] PROVE FALSE
    OBVIOUS
  <2>2. a = [j \in 1..n |-> a[j]] /\ b = [j \in 1..n |-> b[j]]
    BY DEF Assignments
  <2>3. a = b
    BY <2>1, <2>2
  <2> QED
    BY <2>3
<1>2. S \in SUBSET Nat
  OBVIOUS
<1>3. PICK j \in S : \A k \in S : j <= k
  BY <1>1, <1>2, LeastNatural
<1>4. \A i \in 1..(j - 1) : a[i] = b[i]
  <2>1. ASSUME NEW i \in 1..(j - 1), a[i] # b[i] PROVE FALSE
    <3>1. j \in 1..n /\ i \in 1..n /\ i < j
      OBVIOUS
    <3>2. i \in S
      BY <2>1, <3>1
    <3>3. j <= i
      BY <1>3, <3>2
    <3> QED
      BY <3>1, <3>3
  <2> QED
    BY <2>1
<1>5. j \in 1..n /\ a[j] # b[j]
  OBVIOUS
<1>6. a[j] \in Nat /\ b[j] \in Nat
  BY <1>5 DEF Assignments
<1>7. b[j] > a[j] \/ a[j] > b[j]
  BY <1>5, <1>6
<1> QED
  BY <1>4, <1>5, <1>7, FollowsByFirst

\* What follows an assignment that follows another follows that one
LEMMA FollowsTransitive ==
    ASSUME NEW n \in Nat, NEW a \in Assignments(n), NEW b \in Assignments(n), NEW c \in Assignments(n),
           <<b, a>> \in Follows(n), <<c, b>> \in Follows(n)
    PROVE  <<c, a>> \in Follows(n)
<1>1. PICK i \in 1..n : (\A k \in 1..(i - 1) : b[k] = a[k]) /\ b[i] > a[i]
  BY FollowsByFirst
<1>2. PICK j \in 1..n : (\A k \in 1..(j - 1) : c[k] = b[k]) /\ c[j] > b[j]
  BY FollowsByFirst
<1>3. \A k \in 1..n : a[k] \in Nat /\ b[k] \in Nat /\ c[k] \in Nat
  BY DEF Assignments
<1>4. CASE i < j
  <2>1. i \in 1..(j - 1) /\ \A k \in 1..(i - 1) : k \in 1..(j - 1)
    BY <1>4
  <2>2. c[i] > a[i] /\ \A k \in 1..(i - 1) : c[k] = a[k]
    BY <1>1, <1>2, <2>1
  <2> QED
    BY <2>2, FollowsByFirst
<1>5. CASE j < i
  <2>1. j \in 1..(i - 1) /\ \A k \in 1..(j - 1) : k \in 1..(i - 1)
    BY <1>5
  <2>2. c[j] > a[j] /\ \A k \in 1..(j - 1) : c[k] = a[k]
    BY <1>1, <1>2, <2>1
  <2> QED
    BY <2>2, FollowsByFirst
<1>6. CASE i = j
  <2>1. c[i] > a[i]
    BY <1>1, <1>2, <1>3, <1>6
  <2>2. \A k \in 1..(i - 1) : c[k] = a[k]
    BY <1>1, <1>2, <1>6
  <2> QED
    BY <2>1, <2>2, FollowsByFirst
<1> QED
  BY <1>4, <1>5, <1>6

\* The odometer counts to the next assignment: there is none between
LEMMA IncrementFollows ==
    ASSUME NEW n \in Nat, NEW a \in Assignments(n), ~IsLast(a, n)
    PROVE  /\ Increment(a) \in Assignments(n) /\ <<Increment(a), a>> \in Follows(n)
           /\ \A b \in Assignments(n) : <<b, a>> \in Follows(n) => b \in UpFrom(Increment(a), n)
<1> DEFINE S == {j \in DOMAIN a : a[j] < Len(Planners)}
           m == Max(S)
           c == Increment(a)
<1>1. DOMAIN a = 1..n /\ Len(Planners) \in Nat /\ \A j \in 1..n : a[j] \in 1..Len(Planners)
  BY PlannerIndices DEF Assignments
<1>2. S \in SUBSET (1..n) /\ S # {}
  <2>1. PICK j \in 1..n : a[j] # Len(Planners)
    BY DEF IsLast
  <2>2. a[j] < Len(Planners)
    BY <1>1, <2>1
  <2> QED
    BY <1>1, <2>2
<1> HIDE DEF S
<1>3. m \in S /\ \A y \in S : m >= y
  <2>1. \E x \in S : \A y \in S : x >= y
    BY <1>2, GreatestIndex
  <2> QED
    BY <2>1 DEF Max
<1>4. c = [j \in 1..n |-> IF j < m THEN a[j] ELSE IF j = m THEN a[j] + 1 ELSE 1]
  BY <1>1 DEF Increment, S
<1> HIDE DEF m, c
<1>5. m \in 1..n /\ a[m] < Len(Planners)
  BY <1>2, <1>3 DEF S
<1>6. /\ \A j \in 1..(m - 1) : j \in 1..n /\ c[j] = a[j]
      /\ c[m] = a[m] + 1
      /\ \A j \in 1..n : j > m => c[j] = 1
  BY <1>4, <1>5
<1>7. c \in Assignments(n)
  <2>1. 1 \in 1..Len(Planners)
    BY PlannerIndices
  <2>2. a[m] + 1 \in 1..Len(Planners)
    BY <1>1, <1>5
  <2>3. \A j \in 1..n : (IF j < m THEN a[j] ELSE IF j = m THEN a[j] + 1 ELSE 1) \in 1..Len(Planners)
    BY <1>1, <2>1, <2>2
  <2> QED
    BY <1>4, <2>3 DEF Assignments
<1>8. <<c, a>> \in Follows(n)
  <2>1. c[m] > a[m]
    BY <1>1, <1>5, <1>6
  <2> QED
    BY <1>5, <1>6, <1>7, <2>1, FollowsByFirst
<1>9. ASSUME NEW b \in Assignments(n), <<b, a>> \in Follows(n), <<c, b>> \in Follows(n)
      PROVE  FALSE
  <2>1. PICK p \in 1..n : (\A i \in 1..(p - 1) : b[i] = a[i]) /\ b[p] > a[p]
    BY <1>9, FollowsByFirst
  <2>2. PICK q \in 1..n : (\A i \in 1..(q - 1) : c[i] = b[i]) /\ c[q] > b[q]
    BY <1>7, <1>9, FollowsByFirst
  <2>3. \A j \in 1..n : b[j] \in 1..Len(Planners)
    BY DEF Assignments
  <2>4. p <= m
    <3>1. a[p] < Len(Planners)
      BY <1>1, <2>1, <2>3
    <3>2. p \in S
      BY <1>1, <3>1 DEF S
    <3>3. m >= p
      BY <1>3, <3>2
    <3> QED
      BY <1>5, <3>3
  <2>5. q <= m
    <3>1. SUFFICES ASSUME q > m PROVE FALSE
      BY <1>5
    <3>2. c[q] = 1
      BY <1>6, <3>1
    <3>3. b[q] \in 1..Len(Planners)
      BY <2>3
    <3> QED
      BY <1>1, <2>2, <3>2, <3>3
  <2>6. CASE p < q
    <3>1. c[p] = b[p]
      BY <2>2, <2>6
    <3>2. p \in 1..(m - 1)
      BY <1>5, <2>5, <2>6
    <3>3. c[p] = a[p]
      BY <1>6, <3>2
    <3> QED
      BY <1>1, <2>1, <3>1, <3>3
  <2>7. CASE q < p
    <3>1. b[q] = a[q]
      BY <2>1, <2>7
    <3>2. q \in 1..(m - 1)
      BY <1>5, <2>4, <2>7
    <3>3. c[q] = a[q]
      BY <1>6, <3>2
    <3> QED
      BY <1>1, <2>2, <3>1, <3>3
  <2>8. CASE p = q
    <3>1. b[p] \in Nat /\ a[p] \in Nat /\ b[p] > a[p] /\ c[p] > b[p]
      BY <1>1, <2>1, <2>2, <2>3, <2>8
    <3>2. c[p] = a[p] \/ c[p] = a[p] + 1
      BY <1>5, <1>6, <2>4
    <3> QED
      BY <3>1, <3>2
  <2> QED
    BY <2>6, <2>7, <2>8
<1>10. ASSUME NEW b \in Assignments(n), <<b, a>> \in Follows(n) PROVE b \in UpFrom(c, n)
  <2>1. b = c \/ <<b, c>> \in Follows(n)
    BY <1>7, <1>9, <1>10, FollowsTotal
  <2> QED
    BY <2>1 DEF UpFrom
<1> QED
  BY <1>7, <1>8, <1>10 DEF c

\* The assignments from one on are it and those from the next on
LEMMA UpFromNext ==
    ASSUME NEW n \in Nat, NEW a \in Assignments(n), ~IsLast(a, n)
    PROVE  /\ UpFrom(a, n) = {a} \cup UpFrom(Increment(a), n) /\ a \notin UpFrom(Increment(a), n)
           /\ Increment(a) \in Assignments(n) /\ Increment(a) \in UpFrom(Increment(a), n)
<1> DEFINE c == Increment(a)
<1> HIDE DEF c
<1>1. /\ c \in Assignments(n) /\ <<c, a>> \in Follows(n)
      /\ \A b \in Assignments(n) : <<b, a>> \in Follows(n) => b \in UpFrom(c, n)
  BY IncrementFollows DEF c
<1>2. a \notin UpFrom(c, n)
  <2>1. IsWellFoundedOn(Follows(n), Assignments(n))
    BY FollowsWellFounded
  <2>2. a # c
    BY <1>1, <2>1, WellFoundedIsIrreflexive
  <2>3. ~(<<a, c>> \in Follows(n))
    BY <1>1, <2>1, WellFoundedIsAsymmetric
  <2> QED
    BY <2>2, <2>3 DEF UpFrom
<1>3. ASSUME NEW b \in UpFrom(c, n) PROVE b \in UpFrom(a, n)
  <2>1. b \in Assignments(n) /\ (b = c \/ <<b, c>> \in Follows(n))
    BY DEF UpFrom
  <2>2. <<b, a>> \in Follows(n)
    BY <1>1, <2>1, FollowsTransitive
  <2> QED
    BY <2>1, <2>2 DEF UpFrom
<1>4. ASSUME NEW b \in UpFrom(a, n) PROVE b = a \/ b \in UpFrom(c, n)
  BY <1>1 DEF UpFrom
<1>5. a \in UpFrom(a, n) /\ c \in UpFrom(c, n)
  BY <1>1 DEF UpFrom
<1>6. UpFrom(a, n) = {a} \cup UpFrom(c, n)
  BY <1>3, <1>4, <1>5
<1> QED
  BY <1>1, <1>2, <1>5, <1>6 DEF c

\* Nothing follows the last
LEMMA UpFromLast ==
    ASSUME NEW n \in Nat, NEW a \in Assignments(n), IsLast(a, n)
    PROVE  UpFrom(a, n) = {a}
<1>1. ASSUME NEW b \in Assignments(n), <<b, a>> \in Follows(n) PROVE FALSE
  <2>1. PICK j \in 1..n : b[j] > a[j]
    BY <1>1, FollowsByFirst
  <2>2. b[j] \in 1..Len(Planners) /\ a[j] = Len(Planners)
    BY DEF Assignments, IsLast
  <2> QED
    BY <2>1, <2>2, PlannerIndices
<1> QED
  BY <1>1 DEF UpFrom

\* All are from the first on
LEMMA UpFromFirst ==
    ASSUME NEW n \in Nat
    PROVE  /\ [j \in 1..n |-> 1] \in Assignments(n)
           /\ UpFrom([j \in 1..n |-> 1], n) = Assignments(n)
<1> DEFINE a == [j \in 1..n |-> 1]
<1>1. a \in Assignments(n) /\ \A j \in 1..n : a[j] = 1
  BY PlannerIndices DEF Assignments
<1> HIDE DEF a
<1>2. ASSUME NEW b \in Assignments(n), <<a, b>> \in Follows(n) PROVE FALSE
  <2>1. PICK j \in 1..n : a[j] > b[j]
    BY <1>1, <1>2, FollowsByFirst
  <2>2. b[j] \in 1..Len(Planners) /\ a[j] = 1
    BY <1>1 DEF Assignments
  <2> QED
    BY <2>1, <2>2, PlannerIndices
<1>3. \A b \in Assignments(n) : b \in UpFrom(a, n)
  BY <1>1, <1>2, FollowsTotal DEF UpFrom
<1>4. UpFrom(a, n) = Assignments(n)
  BY <1>3 DEF UpFrom
<1> QED
  BY <1>1, <1>4 DEF a

\* The loop over the assignments of a set that is closed under Increment
Loops(f, D, n, selector) ==
    f = [a \in D |-> Selected(a, selector) \o (IF IsLast(a, n) THEN <<>> ELSE f[Increment(a)])]

\* The loop comes to an end from every assignment, and so has a result
LEMMA LoopEnds ==
    ASSUME NEW n \in Nat, NEW selector
    PROVE  \A a \in Assignments(n) : \E f : Loops(f, UpFrom(a, n), n, selector)
<1> DEFINE Bad == {a \in Assignments(n) : ~\E f : Loops(f, UpFrom(a, n), n, selector)}
<1>1. SUFFICES ASSUME Bad # {} PROVE FALSE
  OBVIOUS
<1>2. PICK a \in Bad : \A b \in Bad : ~(<<b, a>> \in Follows(n))
  <2>1. IsWellFoundedOn(Follows(n), Assignments(n)) /\ Bad \subseteq Assignments(n)
    BY FollowsWellFounded
  <2> HIDE DEF Bad
  <2> QED
    BY <1>1, <2>1, WFMin
<1>3. a \in Assignments(n) /\ ~\E f : Loops(f, UpFrom(a, n), n, selector)
  OBVIOUS
<1>4. CASE IsLast(a, n)
  <2> DEFINE f == [b \in {a} |-> Selected(b, selector) \o <<>>]
  <2>1. UpFrom(a, n) = {a}
    BY <1>3, <1>4, UpFromLast
  <2>2. Loops(f, {a}, n, selector)
    BY <1>4 DEF Loops
  <2> QED
    BY <1>3, <2>1, <2>2
<1>5. CASE ~IsLast(a, n)
  <2> DEFINE c == Increment(a)
             U == UpFrom(c, n)
  <2>1. /\ UpFrom(a, n) = {a} \cup U /\ a \notin U
        /\ c \in Assignments(n) /\ c \in U
    BY <1>3, <1>5, UpFromNext
  <2>2. <<c, a>> \in Follows(n)
    BY <1>3, <1>5, IncrementFollows
  <2>3. c \notin Bad
    BY <1>2, <2>2
  <2>4. PICK g : Loops(g, U, n, selector)
    BY <2>1, <2>3
  <2>5. \A b \in U : IsLast(b, n) \/ Increment(b) \in U
    <3>1. ASSUME NEW b \in U, ~IsLast(b, n) PROVE Increment(b) \in U
      <4>1. b \in Assignments(n) /\ (b = c \/ <<b, c>> \in Follows(n))
        BY DEF UpFrom
      <4>2. Increment(b) \in Assignments(n) /\ <<Increment(b), b>> \in Follows(n)
        BY <3>1, <4>1, IncrementFollows
      <4>3. <<Increment(b), c>> \in Follows(n)
        BY <2>1, <4>1, <4>2, FollowsTransitive
      <4> QED
        BY <4>2, <4>3 DEF UpFrom
    <3> QED
      BY <3>1
  <2> HIDE DEF U, c
  <2> DEFINE f == [b \in {a} \cup U |-> IF b = a THEN Selected(a, selector) \o g[c] ELSE g[b]]
  <2>6. f[a] = Selected(a, selector) \o g[c] /\ \A b \in U : f[b] = g[b]
    BY <2>1
  <2>7. f[a] = Selected(a, selector) \o (IF IsLast(a, n) THEN <<>> ELSE f[Increment(a)])
    BY <1>5, <2>1, <2>6 DEF c
  <2>8. ASSUME NEW b \in U
        PROVE  f[b] = Selected(b, selector) \o (IF IsLast(b, n) THEN <<>> ELSE f[Increment(b)])
    <3>1. g[b] = Selected(b, selector) \o (IF IsLast(b, n) THEN <<>> ELSE g[Increment(b)])
      BY <2>4 DEF Loops
    <3>2. f[b] = g[b] /\ (IsLast(b, n) \/ f[Increment(b)] = g[Increment(b)])
      BY <2>5, <2>6
    <3> QED
      BY <3>1, <3>2
  <2>9. f = [b \in {a} \cup U |-> f[b]]
    OBVIOUS
  <2> HIDE DEF f
  <2>10. \A b \in {a} \cup U :
            f[b] = Selected(b, selector) \o (IF IsLast(b, n) THEN <<>> ELSE f[Increment(b)])
    BY <2>7, <2>8
  <2>11. Loops(f, {a} \cup U, n, selector)
    BY <2>9, <2>10 DEF Loops
  <2> QED
    BY <1>3, <2>1, <2>11
<1> QED
  BY <1>4, <1>5

\* What the loop adds for each assignment
LEMMA LoopUnfolds ==
    ASSUME NEW n \in Nat, NEW selector
    PROVE  Loops(CombinationsFrom(n, selector), Assignments(n), n, selector)
<1>1. PICK f : Loops(f, Assignments(n), n, selector)
  BY LoopEnds, UpFromFirst
<1>2. CombinationsFrom(n, selector) = CHOOSE g : Loops(g, Assignments(n), n, selector)
  BY DEF CombinationsFrom, Loops, Assignments, IsLast
<1> QED
  BY <1>1, <1>2

\* Different assignments name different planners
LEMMA SubsetsDiffer ==
    ASSUME NEW n \in Nat, NEW a \in Assignments(n), NEW b \in Assignments(n), make_subset(a) = make_subset(b)
    PROVE  a = b
<1>1. DOMAIN a = 1..n /\ DOMAIN b = 1..n /\ \A j \in 1..n : a[j] \in DOMAIN Planners /\ b[j] \in DOMAIN Planners
  BY PlannerIndices DEF Assignments
<1>2. \A j \in 1..n : Planners[a[j]] = Planners[b[j]]
  <2>1. ASSUME NEW j \in 1..n PROVE Planners[a[j]] = Planners[b[j]]
    <3>1. make_subset(a)[j] = Planners[a[j]] /\ make_subset(b)[j] = Planners[b[j]]
      BY <1>1 DEF make_subset
    <3> QED
      BY <3>1
  <2> QED
    BY <2>1
<1>3. \A j \in 1..n : a[j] = b[j]
  BY <1>1, <1>2, ConstantsAssumption DEF IsInjective
<1>4. a = [j \in 1..n |-> a[j]] /\ b = [j \in 1..n |-> b[j]]
  BY DEF Assignments
<1> QED
  BY <1>3, <1>4

\* Every choice of planners is that of an assignment
LEMMA SubsetsAll ==
    ASSUME NEW n \in Nat
    PROVE  /\ \A a \in Assignments(n) : make_subset(a) \in [1..n -> PlannerSet]
           /\ \A us \in [1..n -> PlannerSet] : \E a \in Assignments(n) : make_subset(a) = us
<1>1. ASSUME NEW a \in Assignments(n) PROVE make_subset(a) \in [1..n -> PlannerSet]
  <2>1. DOMAIN a = 1..n /\ \A j \in 1..n : a[j] \in DOMAIN Planners
    BY PlannerIndices DEF Assignments
  <2>2. \A i \in DOMAIN Planners : Planners[i] \in PlannerSet
    BY DEF PlannerSet, ToSet
  <2> QED
    BY <2>1, <2>2 DEF make_subset
<1>2. ASSUME NEW us \in [1..n -> PlannerSet] PROVE \E a \in Assignments(n) : make_subset(a) = us
  <2> DEFINE a == [j \in 1..n |-> CHOOSE i \in DOMAIN Planners : Planners[i] = us[j]]
  <2>1. ASSUME NEW j \in 1..n PROVE a[j] \in DOMAIN Planners /\ Planners[a[j]] = us[j]
    <3>1. \E i \in DOMAIN Planners : Planners[i] = us[j]
      BY DEF PlannerSet, ToSet
    <3> QED
      BY <3>1
  <2>2. a = [j \in 1..n |-> a[j]]
    OBVIOUS
  <2> HIDE DEF a
  <2>3. a \in Assignments(n)
    BY <2>1, <2>2, PlannerIndices DEF Assignments
  <2>4. make_subset(a) = [j \in 1..n |-> Planners[a[j]]]
    BY <2>3 DEF make_subset, Assignments
  <2>5. make_subset(a) = us
    BY <2>1, <2>4
  <2> QED
    BY <2>3, <2>5
<1> QED
  BY <1>1, <1>2

\* What comes from each assignment on: the combinations of the assignments from
\* there on that the selector admits, each only once
LEMMA LoopResult ==
    ASSUME NEW n \in Nat, NEW selector, NEW a \in Assignments(n)
    PROVE  LET c == CombinationsFrom(n, selector)[a] IN
           /\ c \in Seq([1..n -> PlannerSet])
           /\ IsInjective(c)
           /\ ToSet(c) = {make_subset(b) : b \in {x \in UpFrom(a, n) : is_valid_combination(make_subset(x), selector)}}
<1> DEFINE f == CombinationsFrom(n, selector)
           C == [1..n -> PlannerSet]
           Valid(x) == is_valid_combination(make_subset(x), selector)
           From(x) == {make_subset(b) : b \in {y \in UpFrom(x, n) : Valid(y)}}
           Good(x) == f[x] \in Seq(C) /\ IsInjective(f[x]) /\ ToSet(f[x]) = From(x)
           Bad == {x \in Assignments(n) : ~Good(x)}
<1>1. SUFFICES ASSUME Bad # {} PROVE FALSE
  OBVIOUS
<1>2. PICK x \in Bad : \A y \in Bad : ~(<<y, x>> \in Follows(n))
  <2>1. Bad \in SUBSET Assignments(n)
    OBVIOUS
  <2> HIDE DEF Bad
  <2>2. IsWellFoundedOn(Follows(n), Assignments(n))
    BY FollowsWellFounded
  <2> QED
    BY <1>1, <2>1, <2>2, WFMin
<1>3. x \in Assignments(n)
  OBVIOUS
<1> DEFINE one == Selected(x, selector)
           rest == IF IsLast(x, n) THEN <<>> ELSE f[Increment(x)]
           Others == IF IsLast(x, n) THEN {} ELSE UpFrom(Increment(x), n)
<1>4. f[x] = one \o rest
  <2>1. Loops(f, Assignments(n), n, selector)
    BY LoopUnfolds
  <2> HIDE DEF f
  <2> QED
    BY <1>3, <2>1 DEF Loops
<1>5. make_subset(x) \in C
  BY <1>3, SubsetsAll
<1>6. /\ one \in Seq(C) /\ Len(one) \in {0, 1}
      /\ ToSet(one) = {u \in {make_subset(x)} : Valid(x)}
  <2> DEFINE m == make_subset(x)
  <2> HIDE DEF m, C
  <2>1. m \in C
    BY <1>5 DEF m
  <2>2. CASE Valid(x)
    <3>1. one = <<m>>
      BY <2>2 DEF Selected, m
    <3>2. <<m>> \in Seq(C) /\ Len(<<m>>) = 1 /\ ToSet(<<m>>) = {m}
      BY <2>1, One
    <3>3. {u \in {make_subset(x)} : Valid(x)} = {m}
      BY <2>2 DEF m
    <3> QED
      BY <3>1, <3>2, <3>3
  <2>3. CASE ~Valid(x)
    <3>1. one = <<>>
      BY <2>3 DEF Selected
    <3>2. {u \in {make_subset(x)} : Valid(x)} = {}
      BY <2>3
    <3> QED
      BY <3>1, <3>2, HeldByNone
  <2> QED
    BY <2>2, <2>3
<1>7. /\ UpFrom(x, n) = {x} \cup Others /\ x \notin Others /\ Others \in SUBSET Assignments(n)
  <2>1. CASE IsLast(x, n)
    BY <1>3, <2>1, UpFromLast
  <2>2. CASE ~IsLast(x, n)
    <3>1. /\ UpFrom(x, n) = {x} \cup UpFrom(Increment(x), n) /\ x \notin UpFrom(Increment(x), n)
      BY <1>3, <2>2, UpFromNext
    <3>2. UpFrom(Increment(x), n) \in SUBSET Assignments(n)
      BY DEF UpFrom
    <3> QED
      BY <2>2, <3>1, <3>2
  <2> QED
    BY <2>1, <2>2
<1>8. /\ rest \in Seq(C) /\ IsInjective(rest)
      /\ ToSet(rest) = {make_subset(b) : b \in {y \in Others : Valid(y)}}
  <2>1. CASE IsLast(x, n)
    <3>1. rest = <<>> /\ Others = {}
      BY <2>1
    <3>2. IsInjective(<<>>)
      BY DEF IsInjective
    <3> QED
      BY <3>1, <3>2, HeldByNone
  <2>2. CASE ~IsLast(x, n)
    <3>1. Increment(x) \in Assignments(n) /\ <<Increment(x), x>> \in Follows(n)
      BY <1>3, <2>2, IncrementFollows
    <3>2. Good(Increment(x))
      BY <1>2, <3>1
    <3> QED
      BY <2>2, <3>2
  <2> QED
    BY <2>1, <2>2
<1>9. make_subset(x) \notin ToSet(rest)
  <2>1. ASSUME NEW b \in Others, make_subset(b) = make_subset(x) PROVE FALSE
    <3>1. b \in Assignments(n)
      BY <1>7
    <3>2. b = x
      BY <1>3, <2>1, <3>1, SubsetsDiffer
    <3> QED
      BY <1>7, <3>2
  <2> QED
    BY <1>8, <2>1
<1>10. f[x] \in Seq(C) /\ ToSet(f[x]) = ToSet(one) \cup ToSet(rest)
  <2> HIDE DEF one, rest, f, C
  <2> QED
    BY <1>4, <1>6, <1>8, Joined
<1>11. ToSet(f[x]) = From(x)
  <2>1. From(x) = {make_subset(b) : b \in {y \in {x} \cup Others : Valid(y)}}
    BY <1>7
  <2>2. {make_subset(b) : b \in {y \in {x} \cup Others : Valid(y)}} =
            {u \in {make_subset(x)} : Valid(x)} \cup {make_subset(b) : b \in {y \in Others : Valid(y)}}
    <3> HIDE DEF Valid, Others
    <3> QED
      OBVIOUS
  <2> QED
    BY <1>6, <1>8, <1>10, <2>1, <2>2
<1>12. IsInjective(f[x])
  <2> HIDE DEF one, rest, f, C, Others, Valid
  <2>1. /\ Len(f[x]) = Len(one) + Len(rest) /\ f[x] \in Seq(C)
        /\ \A i \in 1..Len(one) : f[x][i] = one[i]
        /\ \A i \in 1..Len(f[x]) :
              i \in 1..Len(one) \/ (i - Len(one) \in 1..Len(rest) /\ f[x][i] = rest[i - Len(one)])
    BY <1>4, <1>6, <1>8, Joined
  <2>2. DOMAIN f[x] = 1..Len(f[x]) /\ DOMAIN rest = 1..Len(rest) /\ DOMAIN one = 1..Len(one)
        /\ Len(f[x]) \in Nat /\ Len(rest) \in Nat /\ Len(one) \in Nat
    BY <1>6, <1>8, <2>1
  <2>3. \A i \in 1..Len(one) : i = 1 /\ f[x][i] = make_subset(x)
    <3>1. ASSUME NEW i \in 1..Len(one) PROVE i = 1 /\ one[i] \in ToSet(one)
      <4>1. i = 1
        <5>1. \A m \in {0, 1} : \A j \in 1..m : j = 1
          OBVIOUS
        <5> QED
          BY <1>6, <5>1
      <4>2. one[i] \in ToSet(one)
        BY <2>2 DEF ToSet
      <4> QED
        BY <4>1, <4>2
    <3> QED
      BY <1>6, <2>1, <3>1
  <2>4. \A i \in 1..Len(f[x]) : ~(i \in 1..Len(one)) =>
            i - Len(one) \in DOMAIN rest /\ f[x][i] = rest[i - Len(one)] /\ f[x][i] # make_subset(x)
    <3>1. ASSUME NEW k \in DOMAIN rest PROVE rest[k] \in ToSet(rest)
      BY DEF ToSet
    <3> QED
      BY <1>9, <2>1, <2>2, <3>1
  <2>5. SUFFICES ASSUME NEW i \in 1..Len(f[x]), NEW j \in 1..Len(f[x]), f[x][i] = f[x][j] PROVE i = j
    BY <2>2 DEF IsInjective
  <2>6. CASE i \in 1..Len(one)
    BY <2>3, <2>4, <2>5, <2>6
  <2>7. CASE ~(i \in 1..Len(one))
    <3>1. ~(j \in 1..Len(one))
      BY <2>3, <2>4, <2>5, <2>7
    <3>2. i - Len(one) = j - Len(one)
      BY <1>8, <2>4, <2>5, <2>7, <3>1 DEF IsInjective
    <3> QED
      BY <2>2, <3>2
  <2> QED
    BY <2>6, <2>7
<1>13. Good(x)
  BY <1>10, <1>11, <1>12
<1> QED
  BY <1>13

\* The combinations are those the selector admits, whatever it asks for and
\* however many roles and planners there are
LEMMA AllCombinations ==
    ASSUME NEW n \in Nat, NEW selector
    PROVE  /\ IsInjective(Combinations(n, selector))
           /\ ToSet(Combinations(n, selector)) = {us \in [1..n -> PlannerSet] : is_valid_combination(us, selector)}
<1> DEFINE first == [j \in 1..n |-> 1]
           Valid(us) == is_valid_combination(us, selector)
<1>1. first \in Assignments(n) /\ UpFrom(first, n) = Assignments(n)
  BY UpFromFirst
<1>2. Combinations(n, selector) = CombinationsFrom(n, selector)[first]
  BY DEF Combinations
<1> HIDE DEF first
<1>3. /\ IsInjective(Combinations(n, selector))
      /\ ToSet(Combinations(n, selector)) = {make_subset(b) : b \in {x \in Assignments(n) : Valid(make_subset(x))}}
  BY <1>1, <1>2, LoopResult
<1>4. {make_subset(b) : b \in {x \in Assignments(n) : Valid(make_subset(x))}} = {us \in [1..n -> PlannerSet] : Valid(us)}
  <2>1. /\ \A a \in Assignments(n) : make_subset(a) \in [1..n -> PlannerSet]
        /\ \A us \in [1..n -> PlannerSet] : \E a \in Assignments(n) : make_subset(a) = us
    BY SubsetsAll
  <2> HIDE DEF Valid
  <2> QED
    BY <2>1
<1> QED
  BY <1>3, <1>4

\* What a list is about to run is an action that was declared or generated
LEMMA GeneratorsAreNodes ==
    ASSUME TypeInv, NEW g \in Generators
    PROVE  g \in Nodes
<1>1. PICK i \in DOMAIN stack : stack[i].next <= Len(stack[i].actions) /\ g = stack[i].actions[stack[i].next]
  BY DEF Generators
<1>2. stack[i] \in Frame
  BY <1>1 DEF TypeInv
<1>3. stack[i].actions \in Seq(Nodes) /\ stack[i].next \in 1..Len(stack[i].actions)
  BY <1>1, <1>2 DEF Frame
<1> QED
  BY <1>1, <1>3

\* FlightPlannerCombinations runs its action for every assignment of planners to
\* roles that the selector admits, and for each only once, for every number of
\* planners and roles and every selector (planner_combinations.py:46-120)
THEOREM CombinationsAlwaysComplete == Spec => []CombinationsComplete
<1>1. TypeInv => CombinationsComplete
  <2>1. SUFFICES ASSUME TypeInv, NEW g \in Generators, g.kind = "combinations"
                 PROVE  /\ IsInjective(Combinations(g.roles, g.selector))
                        /\ ToSet(Combinations(g.roles, g.selector)) =
                              {us \in [1..g.roles -> PlannerSet] : is_valid_combination(us, g.selector)}
    BY DEF CombinationsComplete
  <2>2. g \in Nodes
    BY <2>1, GeneratorsAreNodes
  <2>3. g.roles \in Nat
    BY <2>1, <2>2, NodesAssumption
  <2> QED
    BY <2>3, AllCombinations
<1> QED
  BY <1>1, AlwaysShape, PTL DEF Shape

-----------------------------------------------------------------------------
(***************************************************************************)
(* What a suite comes to: its scenarios, in the order of the tree          *)
(***************************************************************************)
\* FlattenSeq's function for the first of these sequences
Flattens(f, s, m) == f = [i \in 1..m |-> IF i = 1 THEN s[i] ELSE f[i - 1] \o s[i]]

Flat(s, m) == FlattenSeq([i \in 1..m |-> s[i]])

\* There is such a function
LEMMA FlattenEnds ==
    ASSUME NEW s, NEW m \in Nat
    PROVE  \E f : Flattens(f, s, m)
<1> DEFINE Bad == {k \in Nat : ~\E f : Flattens(f, s, k)}
<1>1. SUFFICES ASSUME Bad # {} PROVE FALSE
  OBVIOUS
<1>2. PICK k \in Bad : \A j \in Bad : k <= j
  BY <1>1, LeastNatural
<1>3. k \in Nat /\ ~\E f : Flattens(f, s, k)
  OBVIOUS
<1>4. CASE k = 0
  <2>1. Flattens([i \in 1..0 |-> {}], s, 0)
    BY DEF Flattens
  <2> QED
    BY <1>3, <1>4, <2>1
<1>5. CASE k # 0
  <2>1. k - 1 \in Nat /\ ~(k <= k - 1)
    BY <1>3, <1>5
  <2>2. k - 1 \notin Bad
    BY <1>2, <2>1
  <2>3. PICK g : Flattens(g, s, k - 1)
    BY <2>1, <2>2
  <2> DEFINE f == [i \in 1..k |-> IF i < k THEN g[i] ELSE IF i = 1 THEN s[i] ELSE g[i - 1] \o s[i]]
  <2>4. ASSUME NEW i \in 1..k
        PROVE  f[i] = IF i = 1 THEN s[i] ELSE f[i - 1] \o s[i]
    <3>1. CASE i < k
      <4>1. i \in 1..(k - 1) /\ f[i] = g[i]
        BY <1>3, <3>1
      <4>2. g[i] = IF i = 1 THEN s[i] ELSE g[i - 1] \o s[i]
        BY <2>3, <4>1 DEF Flattens
      <4>3. i # 1 => i - 1 \in 1..k /\ i - 1 < k
        BY <1>3, <3>1
      <4>4. i # 1 => f[i - 1] = g[i - 1]
        BY <4>3
      <4> HIDE DEF f
      <4> QED
        BY <4>1, <4>2, <4>4
    <3>2. CASE i = k
      <4>1. f[i] = IF i = 1 THEN s[i] ELSE g[i - 1] \o s[i]
        BY <1>3, <3>2
      <4>2. i # 1 => i - 1 \in 1..k /\ i - 1 < k
        BY <1>3, <3>2
      <4>3. i # 1 => f[i - 1] = g[i - 1]
        BY <4>2
      <4> HIDE DEF f
      <4> QED
        BY <4>1, <4>3
    <3> QED
      BY <1>3, <3>1, <3>2
  <2>5. f = [i \in 1..k |-> f[i]]
    OBVIOUS
  <2> HIDE DEF f
  <2>6. Flattens(f, s, k)
    BY <2>4, <2>5 DEF Flattens
  <2> QED
    BY <1>3, <2>6
<1> QED
  BY <1>4, <1>5

\* It depends on no more than these sequences
LEMMA FlattensSame ==
    ASSUME NEW s, NEW t, NEW m \in Nat, NEW k \in Nat, m <= k, \A i \in 1..m : s[i] = t[i],
           NEW f, NEW g, Flattens(f, s, m), Flattens(g, t, k)
    PROVE  \A i \in 1..m : f[i] = g[i]
<1> DEFINE Bad == {i \in 1..m : f[i] # g[i]}
<1>1. SUFFICES ASSUME Bad # {} PROVE FALSE
  OBVIOUS
<1>2. Bad \in SUBSET Nat
  OBVIOUS
<1>3. PICK i \in Bad : \A j \in Bad : i <= j
  BY <1>1, <1>2, LeastNatural
<1>4. i \in 1..m /\ i \in 1..k /\ f[i] # g[i]
  OBVIOUS
<1>5. /\ f[i] = IF i = 1 THEN s[i] ELSE f[i - 1] \o s[i]
      /\ g[i] = IF i = 1 THEN t[i] ELSE g[i - 1] \o t[i]
  BY <1>4 DEF Flattens
<1>6. i # 1 => f[i - 1] = g[i - 1]
  <2>1. ASSUME i # 1 PROVE i - 1 \in 1..m /\ ~(i <= i - 1)
    BY <1>4, <2>1
  <2>2. ASSUME i # 1 PROVE i - 1 \notin Bad
    BY <1>3, <2>1, <2>2
  <2> QED
    BY <2>1, <2>2
<1> QED
  BY <1>4, <1>5, <1>6

\* What FlattenSeq gives
LEMMA FlatValue ==
    ASSUME NEW s, NEW m \in Nat, m # 0, NEW f, Flattens(f, s, m)
    PROVE  Flat(s, m) = f[m]
<1> DEFINE t == [i \in 1..m |-> s[i]]
           g == CHOOSE h : Flattens(h, t, m)
<1>1. Len(t) = m /\ \A i \in 1..m : s[i] = t[i]
  OBVIOUS
<1>2. FlattenSeq(t) = g[m]
  <2> HIDE DEF t
  <2> QED
    BY <1>1 DEF FlattenSeq, Flattens
<1>3. Flattens(g, t, m)
  <2> HIDE DEF t
  <2> QED
    BY FlattenEnds
<1>4. m \in 1..m /\ m <= m
  OBVIOUS
<1> HIDE DEF t, g
<1>5. f[m] = g[m]
  BY <1>1, <1>3, <1>4, FlattensSame
<1> QED
  BY <1>2, <1>5 DEF Flat, t

\* No sequences
LEMMA FlatNone == \A s : Flat(s, 0) = <<>>
<1>1. \A s : [i \in 1..0 |-> s[i]] = <<>>
  OBVIOUS
<1>2. Len(<<>>) = 0
  OBVIOUS
<1> QED
  BY <1>1, <1>2 DEF Flat, FlattenSeq

\* Sequences flattened one after the other
LEMMA FlatNext ==
    ASSUME NEW C, NEW s, NEW m \in Nat, \A i \in 1..(m + 1) : s[i] \in Seq(C)
    PROVE  Flat(s, m + 1) = Flat(s, m) \o s[m + 1]
<1>1. Flat(s, 0) = <<>>
  BY FlatNone
<1>2. m + 1 \in Nat /\ m + 1 # 0 /\ m + 1 \in 1..(m + 1) /\ (m + 1) - 1 = m
  OBVIOUS
<1>3. PICK f : Flattens(f, s, m + 1)
  BY <1>2, FlattenEnds
<1>4. Flat(s, m + 1) = f[m + 1]
  BY <1>3, <1>2, FlatValue
<1>5. f[m + 1] = IF m + 1 = 1 THEN s[m + 1] ELSE f[m] \o s[m + 1]
  <2>1. f[m + 1] = IF m + 1 = 1 THEN s[m + 1] ELSE f[(m + 1) - 1] \o s[m + 1]
    BY <1>3, <1>2 DEF Flattens
  <2> QED
    BY <1>2, <2>1
<1>6. CASE m = 0
  <2>1. f[m + 1] = s[m + 1]
    BY <1>5, <1>6
  <2>2. <<>> \o s[m + 1] = s[m + 1]
    <3>1. s[m + 1] \in Seq(C)
      BY <1>2
    <3> QED
      BY <3>1
  <2> QED
    BY <1>1, <1>4, <1>6, <2>1, <2>2
<1>7. CASE m # 0
  <2>1. PICK g : Flattens(g, s, m)
    BY FlattenEnds
  <2>2. Flat(s, m) = g[m]
    BY <1>7, <2>1, FlatValue
  <2>3. m <= m + 1 /\ m \in 1..m /\ m + 1 # 1
    BY <1>7
  <2>4. g[m] = f[m]
    BY <1>3, <1>2, <2>1, <2>3, FlattensSame
  <2> QED
    BY <1>4, <1>5, <2>2, <2>3, <2>4
<1> QED
  BY <1>6, <1>7

\* The actions of a node, and what Scenarios makes of it
Children(n) == IF n.kind = "scenario" THEN {} ELSE {Actions(n)[i] : i \in DOMAIN Actions(n)}

Body(f, n) ==
    IF n.kind = "scenario" THEN <<<<n.type, n.planners>>>>
    ELSE FlattenSeq([i \in DOMAIN Actions(n) |-> f[Actions(n)[i]]])

\* Scenarios for a part of the nodes, with all that is within them
Unfolds(f, D) ==
    /\ D \in SUBSET Nodes
    /\ \A n \in D : Children(n) \subseteq D
    /\ f = [n \in D |-> Body(f, n)]

\* Nesting comes to an end
LEMMA Innermost ==
    ASSUME NEW S \in SUBSET Nodes, S # {}
    PROVE  \E n \in S : Children(n) \cap S = {}
<1>1. CASE \E n \in S : n.kind = "scenario"
  BY <1>1 DEF Children
<1>2. CASE \A n \in S : n.kind # "scenario"
  <2>1. S \in SUBSET {n \in Nodes : n.kind # "scenario"}
    BY <1>2
  <2>2. PICK n \in S : ToSet(Actions(n)) \cap S = {}
    BY <2>1, NestingAssumption
  <2> QED
    BY <1>2, <2>2 DEF Children, ToSet
<1> QED
  BY <1>1, <1>2

\* The actions of a node are nodes
LEMMA ChildrenAreNodes ==
    ASSUME NEW n \in Nodes
    PROVE  Children(n) \subseteq Nodes
<1>1. CASE n.kind = "scenario"
  BY <1>1 DEF Children
<1>2. CASE n.kind # "scenario"
  <2>1. Actions(n) \in Seq(Nodes)
    BY <1>2, NodesAssumption
  <2>2. \A i \in DOMAIN Actions(n) : Actions(n)[i] \in Nodes
    BY <2>1
  <2> QED
    BY <1>2, <2>2 DEF Children
<1> QED
  BY <1>1, <1>2

\* What it makes of a node depends on no more than the actions of the node
LEMMA BodySame ==
    ASSUME NEW n, NEW f, NEW g, \A c \in Children(n) : f[c] = g[c]
    PROVE  Body(f, n) = Body(g, n)
<1>1. CASE n.kind = "scenario"
  BY <1>1 DEF Body
<1>2. CASE n.kind # "scenario"
  <2>1. \A i \in DOMAIN Actions(n) : f[Actions(n)[i]] = g[Actions(n)[i]]
    BY <1>2 DEF Children
  <2>2. [i \in DOMAIN Actions(n) |-> f[Actions(n)[i]]] = [i \in DOMAIN Actions(n) |-> g[Actions(n)[i]]]
    BY <2>1
  <2> QED
    BY <1>2, <2>2 DEF Body
<1> QED
  BY <1>1, <1>2

\* Two of them agree where both are
LEMMA UnfoldsSame ==
    ASSUME NEW f, NEW D, NEW g, NEW E, Unfolds(f, D), Unfolds(g, E)
    PROVE  \A n \in D \cap E : f[n] = g[n]
<1> DEFINE Bad == {n \in D \cap E : f[n] # g[n]}
<1>1. SUFFICES ASSUME Bad # {} PROVE FALSE
  OBVIOUS
<1>2. Bad \in SUBSET Nodes
  BY DEF Unfolds
<1>3. PICK n \in Bad : Children(n) \cap Bad = {}
  BY <1>1, <1>2, Innermost
<1>4. n \in D /\ n \in E /\ f[n] # g[n]
  OBVIOUS
<1>5. Children(n) \subseteq D \cap E
  BY <1>4 DEF Unfolds
<1>6. \A c \in Children(n) : f[c] = g[c]
  BY <1>3, <1>5
<1>7. Body(f, n) = Body(g, n)
  BY <1>6, BodySame
<1>8. f[n] = Body(f, n) /\ g[n] = Body(g, n)
  BY <1>4 DEF Unfolds
<1> QED
  BY <1>4, <1>7, <1>8

\* Together they reach every node, so that Scenarios is what it says
LEMMA ScenariosUnfold == Unfolds(Scenarios, Nodes)
<1> DEFINE Reached(n) == \E f, D : Unfolds(f, D) /\ n \in D
           H == {n \in Nodes : Reached(n)}
           F == [n \in H |-> CHOOSE v : \E f, D : Unfolds(f, D) /\ n \in D /\ v = f[n]]
<1>1. ASSUME NEW f, NEW D, Unfolds(f, D)
      PROVE  D \subseteq H /\ \A n \in D : F[n] = f[n]
  <2>1. D \subseteq H
    BY <1>1 DEF Unfolds
  <2>2. ASSUME NEW n \in D PROVE F[n] = f[n]
    <3> DEFINE P(v) == \E g, E : Unfolds(g, E) /\ n \in E /\ v = g[n]
    <3>1. n \in H /\ F[n] = CHOOSE v : P(v)
      BY <2>1
    <3>2. P(f[n])
      BY <1>1
    <3>3. ASSUME NEW v, P(v) PROVE v = f[n]
      BY <1>1, <3>3, UnfoldsSame
    <3>4. P(CHOOSE v : P(v))
      <4> HIDE DEF P
      <4> QED
        BY <3>2
    <3> QED
      BY <3>1, <3>3, <3>4
  <2> QED
    BY <2>1, <2>2
<1>2. Unfolds(F, H)
  <2>1. ASSUME NEW n \in H
        PROVE  Children(n) \subseteq H /\ F[n] = Body(F, n)
    <3>1. PICK f, D : Unfolds(f, D) /\ n \in D
      OBVIOUS
    <3>2. D \subseteq H /\ \A c \in D : F[c] = f[c]
      BY <1>1, <3>1
    <3>3. Children(n) \subseteq D /\ f[n] = Body(f, n)
      BY <3>1 DEF Unfolds
    <3> HIDE DEF F, H
    <3>4. \A c \in Children(n) : F[c] = f[c]
      BY <3>2, <3>3
    <3>5. Body(F, n) = Body(f, n)
      BY <3>4, BodySame
    <3> QED
      BY <3>1, <3>2, <3>3, <3>5
  <2>2. F = [n \in H |-> F[n]] /\ H \in SUBSET Nodes
    OBVIOUS
  <2> HIDE DEF F, H
  <2> QED
    BY <2>1, <2>2 DEF Unfolds
<1>3. H = Nodes
  <2>1. SUFFICES ASSUME Nodes \ H # {} PROVE FALSE
    OBVIOUS
  <2>2. PICK n \in Nodes \ H : Children(n) \cap (Nodes \ H) = {}
    <3> HIDE DEF H
    <3> QED
      BY <2>1, Innermost
  <2>3. n \in Nodes /\ n \notin H /\ Children(n) \subseteq H
    <3>1. Children(n) \subseteq Nodes
      BY <2>2, ChildrenAreNodes
    <3> HIDE DEF H
    <3> QED
      BY <2>2, <3>1
  <2> DEFINE G == [c \in H \cup {n} |-> IF c = n THEN Body(F, n) ELSE F[c]]
  <2> HIDE DEF F, H
  <2>4. G[n] = Body(F, n) /\ \A c \in H : G[c] = F[c]
    BY <2>3
  <2>5. G = [c \in H \cup {n} |-> G[c]]
    OBVIOUS
  <2> HIDE DEF G
  <2>6. ASSUME NEW c \in H \cup {n} PROVE Children(c) \subseteq H /\ G[c] = Body(G, c)
    <3>1. Children(c) \subseteq H /\ G[c] = Body(F, c)
      BY <1>2, <2>3, <2>4 DEF Unfolds
    <3>2. \A d \in Children(c) : G[d] = F[d]
      BY <2>4, <3>1
    <3>3. Body(G, c) = Body(F, c)
      BY <3>2, BodySame
    <3> QED
      BY <3>1, <3>3
  <2>7. H \in SUBSET Nodes
    BY DEF H
  <2>8. Unfolds(G, H \cup {n})
    BY <2>3, <2>5, <2>6, <2>7 DEF Unfolds
  <2>9. H \cup {n} \subseteq H
    BY <1>1, <2>8
  <2> QED
    BY <2>3, <2>9
<1> HIDE DEF F, H
<1>4. F = [n \in Nodes |-> Body(F, n)]
  BY <1>2, <1>3 DEF Unfolds
<1>5. Scenarios = CHOOSE g : g = [n \in Nodes |-> Body(g, n)]
  BY DEF Scenarios, Body
<1>6. Scenarios = [n \in Nodes |-> Body(Scenarios, n)]
  BY <1>4, <1>5
<1> QED
  BY <1>6, ChildrenAreNodes DEF Unfolds

\* A scenario that has run
Outcome == (DOMAIN Roles) \X Seq(PlannerSet)

\* The scenarios of the first of these actions
Executed(actions, m) == Flat([i \in DOMAIN actions |-> Scenarios[actions[i]]], m)

\* Flattened sequences are sequences
LEMMA FlatTyped ==
    ASSUME NEW C, NEW s, NEW k \in Nat, \A i \in 1..k : s[i] \in Seq(C)
    PROVE  \A m \in 0..k : Flat(s, m) \in Seq(C)
<1> DEFINE Bad == {m \in 0..k : Flat(s, m) \notin Seq(C)}
<1>1. SUFFICES ASSUME Bad # {} PROVE FALSE
  OBVIOUS
<1>2. Bad \in SUBSET Nat
  OBVIOUS
<1>3. PICK m \in Bad : \A j \in Bad : m <= j
  BY <1>1, <1>2, LeastNatural
<1>4. m \in 0..k /\ Flat(s, m) \notin Seq(C)
  OBVIOUS
<1>5. CASE m = 0
  BY <1>4, <1>5, FlatNone, HeldByNone
<1>6. CASE m # 0
  <2>1. PICK j \in Nat : m = j + 1
    <3>1. m - 1 \in Nat /\ m = (m - 1) + 1
      BY <1>4, <1>6
    <3> QED
      BY <3>1
  <2>2. j \in 0..k /\ ~(m <= j) /\ m \in 1..k /\ \A i \in 1..(j + 1) : i \in 1..k
    BY <1>4, <2>1
  <2>3. Flat(s, j) \in Seq(C)
    BY <1>3, <2>2
  <2>4. Flat(s, m) = Flat(s, j) \o s[m]
    BY <2>1, <2>2, FlatNext
  <2>5. s[m] \in Seq(C)
    BY <2>2
  <2> QED
    BY <1>4, <2>3, <2>4, <2>5, Joined
<1> QED
  BY <1>5, <1>6

\* The scenarios of a suite or generator are those of its actions
LEMMA ScenariosOfList ==
    ASSUME NEW n \in Nodes, n.kind # "scenario"
    PROVE  Scenarios[n] = Executed(Actions(n), Len(Actions(n)))
<1>1. Scenarios[n] = Body(Scenarios, n)
  BY ScenariosUnfold DEF Unfolds
<1>2. Actions(n) \in Seq(Nodes)
  BY NodesAssumption
<1>3. PICK a \in Seq(Nodes) : a = Actions(n)
  BY <1>2
<1>4. DOMAIN a = 1..Len(a)
  OBVIOUS
<1> DEFINE s == [i \in DOMAIN a |-> Scenarios[a[i]]]
<1>5. Scenarios[n] = FlattenSeq(s)
  BY <1>1, <1>3 DEF Body
<1>6. s = [i \in 1..Len(a) |-> s[i]]
  BY <1>4
<1> HIDE DEF s
<1>7. Flat(s, Len(a)) = FlattenSeq(s)
  BY <1>6 DEF Flat
<1> QED
  BY <1>3, <1>5, <1>7 DEF Executed, s

\* A scenario comes to itself
LEMMA ScenariosOfScenario ==
    ASSUME NEW n \in Nodes, n.kind = "scenario"
    PROVE  Scenarios[n] = <<<<n.type, n.planners>>>> /\ <<n.type, n.planners>> \in Outcome
<1>1. Scenarios[n] = Body(Scenarios, n)
  BY ScenariosUnfold DEF Unfolds
<1>2. n.type \in DOMAIN Roles /\ n.planners \in Seq(PlannerSet)
  BY NodesAssumption
<1> QED
  BY <1>1, <1>2 DEF Body, Outcome

\* What a node comes to is a sequence of scenarios
LEMMA ScenariosTyped == \A n \in Nodes : Scenarios[n] \in Seq(Outcome)
<1> DEFINE Bad == {n \in Nodes : Scenarios[n] \notin Seq(Outcome)}
<1>1. SUFFICES ASSUME Bad # {} PROVE FALSE
  OBVIOUS
<1>2. PICK n \in Bad : Children(n) \cap Bad = {}
  <2>1. Bad \in SUBSET Nodes
    OBVIOUS
  <2> HIDE DEF Bad
  <2> QED
    BY <1>1, <2>1, Innermost
<1>3. n \in Nodes /\ Scenarios[n] \notin Seq(Outcome)
  OBVIOUS
<1>4. CASE n.kind = "scenario"
  <2> DEFINE o == <<n.type, n.planners>>
  <2>1. Scenarios[n] = <<o>> /\ o \in Outcome
    BY <1>3, <1>4, ScenariosOfScenario
  <2> HIDE DEF o
  <2>2. <<o>> \in Seq(Outcome)
    BY <2>1
  <2> QED
    BY <1>3, <2>1, <2>2
<1>5. CASE n.kind # "scenario"
  <2>1. Actions(n) \in Seq(Nodes)
    BY <1>3, <1>5, NodesAssumption
  <2>2. PICK a \in Seq(Nodes) : a = Actions(n)
    BY <2>1
  <2>3. DOMAIN a = 1..Len(a) /\ Len(a) \in Nat
    OBVIOUS
  <2> DEFINE s == [i \in DOMAIN a |-> Scenarios[a[i]]]
  <2>4. ASSUME NEW i \in 1..Len(a) PROVE s[i] \in Seq(Outcome)
    <3>1. a[i] \in Nodes /\ a[i] \in Children(n)
      BY <1>5, <2>2, <2>3 DEF Children
    <3>2. Scenarios[a[i]] \in Seq(Outcome)
      BY <1>2, <3>1
    <3> QED
      BY <2>3, <3>2
  <2> HIDE DEF s
  <2>5. Len(a) \in 0..Len(a)
    BY <2>3
  <2>6. Flat(s, Len(a)) \in Seq(Outcome)
    BY <2>3, <2>4, <2>5, FlatTyped
  <2>7. Scenarios[n] = Flat(s, Len(a))
    BY <1>3, <1>5, <2>2, ScenariosOfList DEF Executed, s
  <2> QED
    BY <1>3, <2>6, <2>7
<1> QED
  BY <1>4, <1>5

\* One action more
LEMMA ExecutedNext ==
    ASSUME NEW a \in Seq(Nodes), NEW k \in 1..Len(a)
    PROVE  /\ Executed(a, k - 1) \in Seq(Outcome) /\ Scenarios[a[k]] \in Seq(Outcome)
           /\ Executed(a, k) = Executed(a, k - 1) \o Scenarios[a[k]]
<1>1. DOMAIN a = 1..Len(a) /\ Len(a) \in Nat /\ k \in Nat /\ k - 1 \in Nat /\ (k - 1) + 1 = k /\ k - 1 \in 0..Len(a)
  OBVIOUS
<1> DEFINE s == [i \in DOMAIN a |-> Scenarios[a[i]]]
<1>2. \A i \in 1..Len(a) : s[i] = Scenarios[a[i]] /\ s[i] \in Seq(Outcome)
  BY <1>1, ScenariosTyped
<1> HIDE DEF s
<1>3. Flat(s, k - 1) \in Seq(Outcome)
  BY <1>1, <1>2, FlatTyped
<1>4. PICK j \in Nat : j = k - 1
  BY <1>1
<1>5. \A i \in 1..(j + 1) : s[i] \in Seq(Outcome)
  BY <1>1, <1>2, <1>4
<1>6. Flat(s, j + 1) = Flat(s, j) \o s[j + 1]
  BY <1>5, FlatNext
<1>7. Flat(s, k) = Flat(s, k - 1) \o s[k]
  BY <1>1, <1>4, <1>6
<1> QED
  BY <1>2, <1>3, <1>7 DEF Executed, s

\* Before the first action
LEMMA ExecutedNone == \A a : Executed(a, 0) = <<>>
BY FlatNone DEF Executed

\* What the lists on the stack have executed, and all of them together
Done(s) == [k \in DOMAIN s |-> Executed(s[k].actions, s[k].next - 1)]
Passed(s) == Flat(Done(s), Len(s))

\* A list is that of the suite or of the action its parent is at
Nests(s) ==
    /\ s[1].actions = Actions(suite)
    /\ \A k \in 1..Len(s) : s[k].next \in 1..(Len(s[k].actions) + 1)
    /\ \A k \in 1..(Len(s) - 1) :
          /\ s[k].next <= Len(s[k].actions)
          /\ s[k].actions[s[k].next].kind # "scenario"
          /\ s[k + 1].actions = Actions(s[k].actions[s[k].next])

\* The scenarios that have ended
Ran == [i \in Ended |-> <<log[i].type, log[i].planners>>]

Followed ==
    /\ suite \in Nodes /\ suite.kind # "scenario"
    /\ stage \in {"resources", "run"} =>
          /\ Nests(stack)
          /\ (\A k \in DOMAIN stack : stack[k].ok) => Ran = Passed(stack)
          /\ node # None => /\ Top.next <= Len(Top.actions) /\ node = Top.actions[Top.next]
                            /\ log[Len(log)].planners = node.planners
    /\ stage = "done" => node = None
    /\ stage = "done" /\ verdict => Ran = Scenarios[suite]

\* What has been executed depends on no more than this
LEMMA FlatSame ==
    ASSUME NEW s, NEW t, NEW m, \A i \in 1..m : s[i] = t[i]
    PROVE  Flat(s, m) = Flat(t, m)
<1>1. [i \in 1..m |-> s[i]] = [i \in 1..m |-> t[i]]
  OBVIOUS
<1> QED
  BY <1>1 DEF Flat

\* The scenarios of some of the actions are a sequence
LEMMA ExecutedTyped ==
    ASSUME NEW a \in Seq(Nodes), NEW m \in 0..Len(a)
    PROVE  Executed(a, m) \in Seq(Outcome)
<1>1. DOMAIN a = 1..Len(a) /\ Len(a) \in Nat
  OBVIOUS
<1> DEFINE s == [i \in DOMAIN a |-> Scenarios[a[i]]]
<1>2. \A i \in 1..Len(a) : s[i] \in Seq(Outcome)
  BY <1>1, ScenariosTyped
<1> HIDE DEF s
<1>3. Flat(s, m) \in Seq(Outcome)
  BY <1>1, <1>2, FlatTyped
<1> QED
  BY <1>3 DEF Executed, s

\* What each list has executed, and all before the last
LEMMA DoneTyped ==
    ASSUME NEW s \in Seq(Frame), s # <<>>, Nests(s)
    PROVE  /\ \A k \in 1..Len(s) : Done(s)[k] = Executed(s[k].actions, s[k].next - 1)
           /\ \A k \in 1..Len(s) : Done(s)[k] \in Seq(Outcome)
           /\ \A m \in 0..Len(s) : Flat(Done(s), m) \in Seq(Outcome)
           /\ \A m \in 1..Len(s) : Flat(Done(s), m) = Flat(Done(s), m - 1) \o Done(s)[m]
<1>1. Len(s) \in Nat /\ DOMAIN s = 1..Len(s)
  OBVIOUS
<1>2. \A k \in 1..Len(s) : Done(s)[k] = Executed(s[k].actions, s[k].next - 1)
  BY <1>1 DEF Done
<1>3. ASSUME NEW k \in 1..Len(s) PROVE Done(s)[k] \in Seq(Outcome)
  <2>1. s[k] \in Frame
    BY <1>1
  <2>2. s[k].actions \in Seq(Nodes) /\ s[k].next \in Nat \ {0} /\ s[k].next \in 1..(Len(s[k].actions) + 1)
    BY <2>1 DEF Frame, Nests
  <2>3. s[k].next - 1 \in 0..Len(s[k].actions)
    BY <2>2
  <2> QED
    BY <1>2, <2>2, <2>3, ExecutedTyped
<1>4. \A m \in 0..Len(s) : Flat(Done(s), m) \in Seq(Outcome)
  BY <1>1, <1>3, FlatTyped
<1>5. ASSUME NEW m \in 1..Len(s) PROVE Flat(Done(s), m) = Flat(Done(s), m - 1) \o Done(s)[m]
  <2>1. PICK j \in Nat : j = m - 1
    OBVIOUS
  <2>2. m = j + 1 /\ \A i \in 1..(j + 1) : i \in 1..Len(s)
    BY <1>1, <2>1
  <2>3. Flat(Done(s), j + 1) = Flat(Done(s), j) \o Done(s)[j + 1]
    BY <1>3, <2>2, FlatNext
  <2> QED
    BY <2>1, <2>2, <2>3
<1> QED
  BY <1>2, <1>3, <1>4, <1>5

\* The action that is next
LEMMA NextAction ==
    ASSUME NEW f \in Frame, f.next <= Len(f.actions)
    PROVE  /\ f.next \in 1..Len(f.actions) /\ f.actions \in Seq(Nodes) /\ f.actions[f.next] \in Nodes
           /\ Executed(f.actions, f.next - 1) \in Seq(Outcome)
           /\ Scenarios[f.actions[f.next]] \in Seq(Outcome)
           /\ Executed(f.actions, f.next) = Executed(f.actions, f.next - 1) \o Scenarios[f.actions[f.next]]
<1>1. f.actions \in Seq(Nodes) /\ f.next \in 1..Len(f.actions)
  BY DEF Frame
<1>2. f.actions[f.next] \in Nodes
  BY <1>1
<1> QED
  BY <1>1, <1>2, ExecutedNext

\* Sequences may be joined in any order
LEMMA JoinedThrice ==
    ASSUME NEW C, NEW r \in Seq(C), NEW s \in Seq(C), NEW t \in Seq(C)
    PROVE  (r \o s) \o t = r \o (s \o t)
OBVIOUS

\* An action of the last list has ended well: the list has executed it as well
LEMMA AdvanceFollows ==
    ASSUME NEW s \in Seq(Frame), s # <<>>, Nests(s), NEW ok \in BOOLEAN,
           s[Len(s)].next <= Len(s[Len(s)].actions)
    PROVE  LET t == [s EXCEPT ![Len(s)] = After(@, ok)]
               n == s[Len(s)].actions[s[Len(s)].next]
           IN Nests(t) /\ (ok => Passed(t) = Passed(s) \o Scenarios[n])
<1> DEFINE t == [s EXCEPT ![Len(s)] = After(@, ok)]
           L == Len(s)
           f == s[L]
           g == After(f, ok)
           n == f.actions[f.next]
<1>1. L \in Nat /\ L > 0 /\ DOMAIN s = 1..L /\ f \in Frame /\ L \in 1..L
  BY TopFrame
<1>2. /\ t \in Seq(Frame) /\ t # <<>> /\ Len(t) = L
      /\ t[L] = g /\ \A k \in DOMAIN s : k # L => t[k] = s[k]
  BY LastFrame
<1>3. /\ g.actions = f.actions /\ g.next \in {f.next + 1, Len(f.actions) + 1} /\ (ok => g.next = f.next + 1)
  BY <1>1, AfterAction
<1>4. /\ f.next \in 1..Len(f.actions) /\ f.actions \in Seq(Nodes) /\ n \in Nodes
      /\ Executed(f.actions, f.next - 1) \in Seq(Outcome) /\ Scenarios[n] \in Seq(Outcome)
      /\ Executed(f.actions, f.next) = Executed(f.actions, f.next - 1) \o Scenarios[n]
  BY <1>1, NextAction
<1>5. Len(f.actions) \in Nat /\ f.next \in Nat
  BY <1>4
<1> HIDE DEF t, f, g, n, L
<1>6. \A k \in 1..L : t[k].actions = s[k].actions
  BY <1>1, <1>2, <1>3 DEF f
<1>7. \A k \in 1..(L - 1) : k \in 1..L /\ k # L /\ k + 1 \in 1..L
  BY <1>1
<1>8. Nests(t)
  <2>1. t[1].actions = Actions(suite)
    BY <1>1, <1>6 DEF Nests, L
  <2>2. ASSUME NEW k \in 1..L PROVE t[k].next \in 1..(Len(t[k].actions) + 1)
    <3>1. CASE k = L
      <4>1. t[k].next = g.next /\ t[k].actions = f.actions
        BY <1>2, <1>3, <3>1
      <4>2. f.next + 1 \in 1..(Len(f.actions) + 1) /\ Len(f.actions) + 1 \in 1..(Len(f.actions) + 1)
        BY <1>4, <1>5
      <4> QED
        BY <1>3, <4>1, <4>2
    <3>2. CASE k # L
      BY <1>1, <1>2, <3>2 DEF Nests, L
    <3> QED
      BY <3>1, <3>2
  <2>3. ASSUME NEW k \in 1..(L - 1)
        PROVE  /\ t[k].next <= Len(t[k].actions)
               /\ t[k].actions[t[k].next].kind # "scenario"
               /\ t[k + 1].actions = Actions(t[k].actions[t[k].next])
    <3>1. t[k] = s[k] /\ t[k + 1].actions = s[k + 1].actions
      BY <1>1, <1>2, <1>6, <1>7
    <3> QED
      BY <3>1 DEF Nests, L
  <2> QED
    BY <1>2, <2>1, <2>2, <2>3 DEF Nests
<1>9. ASSUME ok PROVE Passed(t) = Passed(s) \o Scenarios[n]
  <2>1. /\ \A k \in 1..L : Done(s)[k] = Executed(s[k].actions, s[k].next - 1)
        /\ Flat(Done(s), L - 1) \in Seq(Outcome)
        /\ Flat(Done(s), L) = Flat(Done(s), L - 1) \o Done(s)[L]
    <3>1. L - 1 \in 0..L
      BY <1>1
    <3> QED
      BY <1>1, <3>1, DoneTyped DEF L
  <2>2. /\ \A k \in 1..L : Done(t)[k] = Executed(t[k].actions, t[k].next - 1)
        /\ Flat(Done(t), L) = Flat(Done(t), L - 1) \o Done(t)[L]
    BY <1>1, <1>2, <1>8, DoneTyped
  <2>3. \A k \in 1..(L - 1) : Done(s)[k] = Done(t)[k]
    BY <1>1, <1>2, <1>7, <2>1, <2>2
  <2>4. Flat(Done(s), L - 1) = Flat(Done(t), L - 1)
    BY <2>3, FlatSame
  <2>5. Done(s)[L] = Executed(f.actions, f.next - 1)
    BY <1>1, <2>1 DEF f
  <2>6. Done(t)[L] = Executed(f.actions, f.next)
    <3>1. g.next = f.next + 1 /\ (f.next + 1) - 1 = f.next
      BY <1>3, <1>5, <1>9
    <3> QED
      BY <1>1, <1>2, <1>3, <2>2, <3>1
  <2>7. Flat(Done(t), L) = Flat(Done(s), L - 1) \o (Executed(f.actions, f.next - 1) \o Scenarios[n])
    BY <1>4, <2>2, <2>4, <2>6
  <2>8. Flat(Done(s), L) = Flat(Done(s), L - 1) \o Executed(f.actions, f.next - 1)
    BY <2>1, <2>5
  <2>9. Flat(Done(t), L) = Flat(Done(s), L) \o Scenarios[n]
    <3>1. PICK p \in Seq(Outcome), x \in Seq(Outcome), y \in Seq(Outcome) :
              p = Flat(Done(s), L - 1) /\ x = Executed(f.actions, f.next - 1) /\ y = Scenarios[n]
      BY <1>4, <2>1
    <3>2. Flat(Done(t), L) = p \o (x \o y) /\ Flat(Done(s), L) = p \o x
      BY <2>7, <2>8, <3>1
    <3>3. p \o (x \o y) = (p \o x) \o y
      BY JoinedThrice
    <3> QED
      BY <3>1, <3>2, <3>3
  <2> QED
    BY <1>2, <2>9 DEF Passed, L
<1> QED
  BY <1>8, <1>9 DEF t, n, f, L

\* A list begins, and has executed nothing
LEMMA PushFollows ==
    ASSUME NEW s \in Seq(Frame), s # <<>>, Nests(s), NEW n \in Nodes, n.kind # "scenario",
           s[Len(s)].next <= Len(s[Len(s)].actions), n = s[Len(s)].actions[s[Len(s)].next]
    PROVE  LET t == Append(s, [actions |-> Actions(n), next |-> 1, ok |-> TRUE])
           IN Nests(t) /\ Passed(t) = Passed(s)
<1> DEFINE f == [actions |-> Actions(n), next |-> 1, ok |-> TRUE]
           t == Append(s, f)
           L == Len(s)
<1>1. Actions(n) \in Seq(Nodes)
  BY NodesAssumption
<1>2. f \in Frame /\ f.actions = Actions(n) /\ f.next = 1
  BY <1>1 DEF Frame
<1> HIDE DEF f
<1>3. L \in Nat /\ L > 0 /\ DOMAIN s = 1..L /\ L \in 1..L
  BY TopFrame
<1>4. /\ t \in Seq(Frame) /\ Len(t) = L + 1 /\ t[L + 1] = f /\ \A k \in 1..L : t[k] = s[k]
  BY <1>2
<1>5. t # <<>>
  BY <1>3, <1>4
<1> HIDE DEF t, L
<1>6. /\ \A k \in 1..(L + 1) : k \in 1..L \/ k = L + 1
      /\ \A k \in 1..((L + 1) - 1) : k \in 1..L
      /\ \A k \in 1..L : k = L \/ k \in 1..(L - 1)
      /\ \A k \in 1..(L - 1) : k + 1 \in 1..L
      /\ 1 \in 1..L /\ L + 1 \in 1..(L + 1) /\ (L + 1) - 1 = L
  BY <1>3
<1>7. Nests(t)
  <2>1. t[1].actions = Actions(suite)
    BY <1>4, <1>6 DEF Nests
  <2>2. ASSUME NEW k \in 1..(L + 1) PROVE t[k].next \in 1..(Len(t[k].actions) + 1)
    <3>1. CASE k = L + 1
      <4>1. Len(Actions(n)) \in Nat
        BY <1>1
      <4>2. 1 \in 1..(Len(Actions(n)) + 1)
        BY <4>1
      <4> QED
        BY <1>2, <1>4, <3>1, <4>2
    <3>2. CASE k \in 1..L
      BY <1>4, <3>2 DEF Nests, L
    <3> QED
      BY <1>6, <3>1, <3>2
  <2>3. ASSUME NEW k \in 1..L
        PROVE  /\ t[k].next <= Len(t[k].actions)
               /\ t[k].actions[t[k].next].kind # "scenario"
               /\ t[k + 1].actions = Actions(t[k].actions[t[k].next])
    <3>1. CASE k = L
      BY <1>2, <1>4, <3>1 DEF L
    <3>2. CASE k \in 1..(L - 1)
      <4>1. t[k] = s[k] /\ t[k + 1] = s[k + 1]
        BY <1>4, <1>6, <3>2
      <4> QED
        BY <3>2, <4>1 DEF Nests, L
    <3> QED
      BY <1>6, <3>1, <3>2
  <2> QED
    BY <1>4, <1>6, <2>1, <2>2, <2>3 DEF Nests
<1>8. /\ \A k \in 1..L : Done(s)[k] = Executed(s[k].actions, s[k].next - 1)
      /\ Flat(Done(s), L) \in Seq(Outcome)
  <2>1. L \in 0..L
    BY <1>3
  <2> QED
    BY <2>1, DoneTyped DEF L
<1>9. /\ \A k \in 1..(L + 1) : Done(t)[k] = Executed(t[k].actions, t[k].next - 1)
      /\ Flat(Done(t), L + 1) = Flat(Done(t), (L + 1) - 1) \o Done(t)[L + 1]
  BY <1>4, <1>5, <1>6, <1>7, DoneTyped
<1>10. Flat(Done(t), L) = Flat(Done(s), L)
  <2>1. \A k \in 1..L : k \in 1..(L + 1)
    BY <1>3
  <2>2. \A k \in 1..L : Done(t)[k] = Done(s)[k]
    BY <1>4, <1>8, <1>9, <2>1
  <2> QED
    BY <2>2, FlatSame
<1>11. Done(t)[L + 1] = <<>>
  <2>1. 1 - 1 = 0
    OBVIOUS
  <2> QED
    BY <1>2, <1>4, <1>6, <1>9, <2>1, ExecutedNone
<1>12. Flat(Done(t), L + 1) = Flat(Done(s), L)
  <2>1. ASSUME NEW r \in Seq(Outcome) PROVE r \o <<>> = r
    OBVIOUS
  <2> QED
    BY <1>6, <1>8, <1>9, <1>10, <1>11, <2>1
<1> QED
  BY <1>4, <1>7, <1>12 DEF Passed, t, f, L

\* A list has ended: what it has executed is what its parent's action comes to
LEMMA PopFollows ==
    ASSUME NEW s \in Seq(Frame), s # <<>>, Nests(s), Len(s) # 1,
           s[Len(s)].next > Len(s[Len(s)].actions)
    PROVE  LET t == Front(s)
               f == t[Len(t)]
           IN /\ Nests(t) /\ f.next <= Len(f.actions)
              /\ Passed(s) = Passed(t) \o Scenarios[f.actions[f.next]]
<1> DEFINE t == Front(s)
           M == Len(s) - 1
           f == s[M]
           g == s[Len(s)]
<1>1. Len(s) \in Nat /\ Len(s) > 0 /\ DOMAIN s = 1..Len(s) /\ g \in Frame
  BY TopFrame
<1>2. M \in Nat /\ M \in 1..M /\ M > 0 /\ Len(s) = M + 1 /\ (M + 1) - 1 = M
  BY <1>1
<1>3. t \in Seq(Frame) /\ t # <<>> /\ Len(t) = M /\ \A k \in 1..M : t[k] = s[k]
  BY PopFrame
<1> HIDE DEF t, M, f, g
<1>4. /\ f.next <= Len(f.actions) /\ f.actions[f.next].kind # "scenario"
      /\ g.actions = Actions(f.actions[f.next])
  <2>1. s[M].next <= Len(s[M].actions) /\ s[M].actions[s[M].next].kind # "scenario"
        /\ s[M + 1].actions = Actions(s[M].actions[s[M].next])
    BY <1>2 DEF Nests
  <2> QED
    BY <1>2, <2>1 DEF f, g
<1>5. f \in Frame
  BY <1>1, <1>2 DEF f
<1>6. f.actions[f.next] \in Nodes
  BY <1>4, <1>5, NextAction
<1>7. g.next - 1 = Len(g.actions)
  <2>1. g.next \in 1..(Len(g.actions) + 1) /\ g.next > Len(g.actions)
    BY <1>1, <1>2 DEF Nests, g
  <2>2. Len(g.actions) \in Nat
    BY <1>1 DEF Frame
  <2> QED
    BY <2>1, <2>2
<1>8. Nests(t)
  <2>1. t[1].actions = Actions(suite)
    <3>1. 1 \in 1..M
      BY <1>2
    <3> QED
      BY <1>3, <3>1 DEF Nests
  <2>2. ASSUME NEW k \in 1..M PROVE t[k].next \in 1..(Len(t[k].actions) + 1)
    <3>1. k \in 1..Len(s)
      BY <1>2
    <3> QED
      BY <1>3, <3>1 DEF Nests
  <2>3. ASSUME NEW k \in 1..(M - 1)
        PROVE  /\ t[k].next <= Len(t[k].actions)
               /\ t[k].actions[t[k].next].kind # "scenario"
               /\ t[k + 1].actions = Actions(t[k].actions[t[k].next])
    <3>1. k \in 1..(Len(s) - 1) /\ k \in 1..M /\ k + 1 \in 1..M
      BY <1>2
    <3> QED
      BY <1>3, <3>1 DEF Nests
  <2> QED
    BY <1>3, <2>1, <2>2, <2>3 DEF Nests
<1>9. /\ \A k \in 1..Len(s) : Done(s)[k] = Executed(s[k].actions, s[k].next - 1)
      /\ Flat(Done(s), M + 1) = Flat(Done(s), (M + 1) - 1) \o Done(s)[M + 1]
  <2>1. M + 1 \in 1..Len(s)
    BY <1>2
  <2> QED
    BY <2>1, DoneTyped
<1>10. \A k \in 1..M : Done(t)[k] = Executed(t[k].actions, t[k].next - 1)
  BY <1>3, <1>8, DoneTyped
<1>11. Flat(Done(s), M) = Flat(Done(t), M)
  <2>1. \A k \in 1..M : k \in 1..Len(s)
    BY <1>2
  <2>2. \A k \in 1..M : Done(s)[k] = Done(t)[k]
    BY <1>3, <1>9, <1>10, <2>1
  <2> QED
    BY <2>2, FlatSame
<1>12. Done(s)[M + 1] = Scenarios[f.actions[f.next]]
  <2>1. M + 1 \in 1..Len(s)
    BY <1>2
  <2>2. Done(s)[M + 1] = Executed(g.actions, Len(g.actions))
    BY <1>2, <1>7, <1>9, <2>1 DEF g
  <2> QED
    BY <1>4, <1>6, <2>2, ScenariosOfList
<1>13. Passed(s) = Passed(t) \o Scenarios[f.actions[f.next]]
  BY <1>2, <1>3, <1>9, <1>11, <1>12 DEF Passed
<1>14. t[Len(t)] = f
  BY <1>2, <1>3 DEF f
<1> QED
  BY <1>4, <1>8, <1>13, <1>14 DEF t

\* Where the reports, the tree and the scenario stay as they are
LEMMA OthersKeepFollowed ==
    ASSUME Followed, UNCHANGED <<stage, suite, stack, verdict, node, log>>
    PROVE  Followed'
<1>1. Ended' = Ended /\ Top' = Top /\ Nests(stack)' = Nests(stack) /\ Passed(stack)' = Passed(stack)
  BY DEF Ended, Top, Nests, Passed
<1>2. Ran' = Ran
  BY <1>1 DEF Ran
<1> QED
  BY <1>1, <1>2 DEF Followed

\* Making the resources leaves the tree alone
LEMMA SetupKeepsFollowed ==
    ASSUME Followed, stage = "resources", stage' \in {"resources", "run", "failed"},
           UNCHANGED <<suite, stack, verdict, node, log>>
    PROVE  Followed'
<1>1. Ended' = Ended /\ Top' = Top /\ Nests(stack)' = Nests(stack) /\ Passed(stack)' = Passed(stack)
  BY DEF Ended, Top, Nests, Passed
<1>2. Ran' = Ran
  BY <1>1 DEF Ran
<1> QED
  BY <1>1, <1>2 DEF Followed

\* A scenario begins, where the list is
LEMMA BeginsKeepsFollowed ==
    ASSUME Shape, Followed, NEW n, Begins(n)
    PROVE  Followed'
<1>1. /\ stage = "run" /\ node' = n /\ Top.next <= Len(Top.actions) /\ n = Top.actions[Top.next]
      /\ UNCHANGED <<stage, suite, stack, verdict>>
  BY DEF Begins
<1>2. /\ Len(log') = Len(log) + 1 /\ log'[Len(log')] = Opened(n)
      /\ \A i \in 1..Len(log) : log'[i] = log[i]
      /\ Ended = 1..Len(log) /\ Ended' = 1..Len(log)
  BY LogOpened
<1>3. Ran' = Ran
  BY <1>2 DEF Ran
<1>4. Top' = Top /\ Nests(stack)' = Nests(stack) /\ Passed(stack)' = Passed(stack)
  BY <1>1 DEF Top, Nests, Passed
<1>5. Opened(n).planners = n.planners
  BY DEF Opened
<1> QED
  BY <1>1, <1>2, <1>3, <1>4, <1>5 DEF Followed

\* A list begins, of the action its parent is at
LEMMA EntersKeepsFollowed ==
    ASSUME Shape, Followed, NEW n, Enters(n)
    PROVE  Followed'
<1> DEFINE f == [actions |-> Actions(n), next |-> 1, ok |-> TRUE]
<1>1. /\ n \in Nodes /\ n.kind # "scenario" /\ Actions(n) \in Seq(Nodes)
      /\ Top.next <= Len(Top.actions) /\ n = Top.actions[Top.next]
      /\ stage = "run" /\ node = None /\ stack # <<>> /\ stack' = Append(stack, f)
      /\ UNCHANGED <<stage, suite, verdict, node, log>>
  BY DEF Enters
<1>2. stack \in Seq(Frame)
  BY DEF Shape, TypeInv
<1>3. Nests(stack)
  BY <1>1 DEF Followed
<1> DEFINE t == Append(stack, f)
<1>4. Nests(t) /\ Passed(t) = Passed(stack)
  BY <1>1, <1>2, <1>3, PushFollows DEF Top
<1>5. f \in Frame /\ f.ok
  BY <1>1 DEF Frame
<1> HIDE DEF f
<1>6. (\A k \in DOMAIN t : t[k].ok) <=> (\A k \in DOMAIN stack : stack[k].ok)
  BY <1>2, <1>5, PushFrame
<1> HIDE DEF t
<1>7. stack' = t
  BY <1>1 DEF t
<1>8. Nests(stack)' /\ Passed(stack)' = Passed(t)
  BY <1>1, <1>4, <1>7 DEF Nests, Passed
<1>9. Ran' = Ran
  BY <1>1 DEF Ran, Ended
<1> QED
  BY <1>1, <1>4, <1>6, <1>7, <1>8, <1>9 DEF Followed

\* A scenario has ended, and if it has succeeded its list has executed it
LEMMA EndScenarioKeepsFollowed ==
    ASSUME Shape, Followed, EndScenario
    PROVE  Followed'
<1>1. /\ stage = "run" /\ node # None /\ node' = None
      /\ stack' = [stack EXCEPT ![Len(stack)] = After(@, successful)]
      /\ UNCHANGED <<stage, suite, verdict>>
  BY DEF EndScenario
<1>2. /\ log' \in Seq(Entry) /\ Len(log) \in Nat /\ Len(log) > 0 /\ Len(log') = Len(log)
      /\ \A i \in 1..Len(log) : i # Len(log) => log'[i] = log[i]
      /\ successful \in BOOLEAN
      /\ log'[Len(log)].type = log[Len(log)].type
      /\ log'[Len(log)].planners = log[Len(log)].planners
      /\ Ended = (1..Len(log)) \ {Len(log)} /\ Ended' = 1..Len(log)
  BY LogClosed
<1>3. /\ stack \in Seq(Frame) /\ stack # <<>> /\ log \in Seq(Entry) /\ node \in Nodes
      /\ node.kind = "scenario" /\ log[Len(log)].type = node.type
  BY <1>1 DEF Shape, TypeInv, Reports
<1>4. /\ Nests(stack) /\ Top.next <= Len(Top.actions) /\ node = Top.actions[Top.next]
      /\ log[Len(log)].planners = node.planners
  BY <1>1 DEF Followed
<1>5. PICK x \in BOOLEAN : x = successful
  BY <1>2
<1> DEFINE t == [stack EXCEPT ![Len(stack)] = After(@, x)]
           o == <<node.type, node.planners>>
<1>6. stack' = t
  BY <1>1, <1>5
<1>7. Nests(t) /\ (x => Passed(t) = Passed(stack) \o Scenarios[node])
  BY <1>3, <1>4, AdvanceFollows DEF Top
<1>8. (\A k \in DOMAIN t : t[k].ok) <=> (\A k \in DOMAIN stack : stack[k].ok) /\ x
  BY <1>3, LastFrame
<1> HIDE DEF t
<1>9. Nests(stack)' /\ Passed(stack)' = Passed(t)
  BY <1>1, <1>6, <1>7 DEF Nests, Passed
<1>10. Scenarios[node] = <<o>> /\ o \in Outcome
  BY <1>3, ScenariosOfScenario
<1>11. log'[Len(log)].type = node.type /\ log'[Len(log)].planners = node.planners
  BY <1>2, <1>3, <1>4
<1>12. Ran' = Ran \o <<o>>
  <2> DEFINE m == Len(log) - 1
             P(i) == <<log[i].type, log[i].planners>>
  <2>1. m \in Nat /\ Len(log) = m + 1 /\ Ended = 1..m
    BY <1>2
  <2>2. \A i \in 1..m : P(i) \in Outcome
    <3>1. \A i \in 1..m : log[i] \in Entry
      BY <1>3, <2>1
    <3>2. \A e \in Entry : <<e.type, e.planners>> \in Outcome
      BY DEF Entry, Outcome
    <3> QED
      BY <3>1, <3>2
  <2>3. Ran = [i \in 1..m |-> P(i)]
    BY <2>1 DEF Ran
  <2>4. ASSUME NEW i \in 1..(m + 1)
        PROVE  <<log'[i].type, log'[i].planners>> = IF i = m + 1 THEN o ELSE P(i)
    <3>1. CASE i = m + 1
      BY <1>11, <2>1, <3>1
    <3>2. CASE i # m + 1
      BY <1>2, <2>1, <3>2
    <3> QED
      BY <3>1, <3>2
  <2>5. Ran' = [i \in 1..(m + 1) |-> IF i = m + 1 THEN o ELSE P(i)]
    <3>1. Ran' = [i \in 1..(m + 1) |-> <<log'[i].type, log'[i].planners>>]
      BY <1>2, <2>1 DEF Ran
    <3> QED
      BY <2>4, <3>1
  <2> HIDE DEF m, P, o
  <2>6. [i \in 1..m |-> P(i)] \in Seq(Outcome) /\ Len([i \in 1..m |-> P(i)]) = m
    BY <2>1, <2>2
  <2>7. Ran \in Seq(Outcome) /\ Len(Ran) = m /\ \A i \in 1..m : Ran[i] = P(i)
    BY <2>3, <2>6
  <2>8. /\ <<o>> \in Seq(Outcome) /\ Len(<<o>>) = 1 /\ <<o>>[1] = o
    BY <1>10, One
  <2>9. PICK r, b : r = Ran /\ b = <<o>>
    OBVIOUS
  <2>10. /\ r \o b \in Seq(Outcome) /\ Len(r \o b) = m + 1
         /\ \A i \in 1..m : (r \o b)[i] = P(i) /\ (r \o b)[m + 1] = o
    <3>1. /\ r \o b \in Seq(Outcome) /\ Len(r \o b) = Len(r) + Len(b)
          /\ \A i \in 1..Len(r) : (r \o b)[i] = r[i]
          /\ \A i \in 1..Len(b) : (r \o b)[Len(r) + i] = b[i]
      BY <2>7, <2>8, <2>9, Joined
    <3>2. 1 \in 1..1
      OBVIOUS
    <3> QED
      BY <2>7, <2>8, <2>9, <3>1, <3>2
  <2> QED
    BY <2>1, <2>5, <2>7, <2>8, <2>9, <2>10
<1> HIDE DEF o
<1>13. (\A k \in DOMAIN t : t[k].ok) => Ran' = Passed(t)
  <2>1. SUFFICES ASSUME \A k \in DOMAIN t : t[k].ok PROVE Ran' = Passed(t)
    OBVIOUS
  <2>2. (\A k \in DOMAIN stack : stack[k].ok) /\ x
    BY <1>8, <2>1
  <2>3. Ran = Passed(stack)
    BY <1>1, <2>2 DEF Followed
  <2> QED
    BY <1>7, <1>10, <1>12, <2>2, <2>3
<1> QED
  BY <1>1, <1>6, <1>9, <1>13 DEF Followed

\* A list has ended, and with the last of them the suite
LEMMA EndActionsKeepsFollowed ==
    ASSUME Shape, Followed, EndActions
    PROVE  Followed'
<1>1. /\ stage = "run" /\ node = None /\ stack # <<>> /\ Top.next > Len(Top.actions)
      /\ UNCHANGED <<suite, node, log>>
  BY DEF EndActions, Idle, scenario
<1>2. stack \in Seq(Frame) /\ Nests(stack) /\ suite \in Nodes /\ suite.kind # "scenario"
  BY <1>1 DEF Shape, TypeInv, Followed
<1>3. Ran' = Ran
  BY <1>1 DEF Ran, Ended
<1>4. /\ Len(stack) \in Nat /\ Len(stack) > 0 /\ DOMAIN stack = 1..Len(stack) /\ Top \in Frame
  BY <1>1, <1>2, TopFrame DEF Top
<1>5. PICK x \in BOOLEAN : x = Top.ok
  BY <1>4 DEF Frame
<1>6. CASE Len(stack) = 1
  <2>1. stage' = "done" /\ verdict' = x
    BY <1>5, <1>6 DEF EndActions
  <2>2. ASSUME x PROVE Ran = Scenarios[suite]
    <3>1. DOMAIN stack = {1} /\ Top = stack[1]
      BY <1>4, <1>6 DEF Top
    <3>2. Ran = Passed(stack)
      BY <1>1, <1>5, <2>2, <3>1 DEF Followed
    <3>3. /\ Done(stack)[1] = Executed(Top.actions, Top.next - 1)
          /\ Done(stack)[1] \in Seq(Outcome)
          /\ Flat(Done(stack), 1) = Flat(Done(stack), 1 - 1) \o Done(stack)[1]
      <4>1. 1 \in 1..Len(stack)
        BY <1>6
      <4> QED
        BY <1>1, <1>2, <3>1, <4>1, DoneTyped
    <3>4. Passed(stack) = Done(stack)[1]
      <4>1. 1 - 1 = 0
        OBVIOUS
      <4>2. ASSUME NEW r \in Seq(Outcome) PROVE <<>> \o r = r
        OBVIOUS
      <4> QED
        BY <1>6, <3>3, <4>1, <4>2, FlatNone DEF Passed
    <3>5. Top.next - 1 = Len(Top.actions)
      <4>1. Top.next \in 1..(Len(Top.actions) + 1)
        BY <1>2, <1>6, <3>1 DEF Nests
      <4>2. Len(Top.actions) \in Nat
        BY <1>4 DEF Frame
      <4> QED
        BY <1>1, <4>1, <4>2
    <3>6. Top.actions = Actions(suite)
      BY <1>2, <3>1 DEF Nests
    <3> QED
      BY <1>2, <3>2, <3>3, <3>4, <3>5, <3>6, ScenariosOfList
  <2> QED
    BY <1>1, <1>2, <1>3, <2>1, <2>2 DEF Followed
<1>7. CASE Len(stack) # 1
  <2>1. stack' = [Front(stack) EXCEPT ![Len(stack) - 1] = After(@, x)] /\ verdict' = verdict /\ stage' = stage
    BY <1>5, <1>7 DEF EndActions
  <2>2. PICK t : t = Front(stack)
    OBVIOUS
  <2>3. /\ t \in Seq(Frame) /\ t # <<>> /\ Len(t) = Len(stack) - 1
        /\ (\A k \in DOMAIN stack : stack[k].ok) <=> (\A k \in DOMAIN t : t[k].ok) /\ stack[Len(stack)].ok
    BY <1>1, <1>2, <1>7, <2>2, PopFrame
  <2> DEFINE n == t[Len(t)].actions[t[Len(t)].next]
  <2>4. /\ Nests(t) /\ t[Len(t)].next <= Len(t[Len(t)].actions)
        /\ Passed(stack) = Passed(t) \o Scenarios[n]
    BY <1>1, <1>2, <1>7, <2>2, PopFollows DEF Top
  <2> DEFINE u == [t EXCEPT ![Len(t)] = After(@, x)]
  <2>5. stack' = u
    BY <2>1, <2>2, <2>3
  <2>6. Nests(u) /\ (x => Passed(u) = Passed(t) \o Scenarios[n])
    BY <2>3, <2>4, AdvanceFollows
  <2>7. (\A k \in DOMAIN u : u[k].ok) <=> (\A k \in DOMAIN t : t[k].ok) /\ x
    BY <2>3, LastFrame
  <2> HIDE DEF u, n
  <2>8. Nests(stack)' /\ Passed(stack)' = Passed(u)
    BY <1>1, <2>5, <2>6 DEF Nests, Passed
  <2>9. (\A k \in DOMAIN u : u[k].ok) => Ran' = Passed(u)
    <3>1. SUFFICES ASSUME \A k \in DOMAIN u : u[k].ok PROVE Ran' = Passed(u)
      OBVIOUS
    <3>2. (\A k \in DOMAIN t : t[k].ok) /\ x
      BY <2>7, <3>1
    <3>3. \A k \in DOMAIN stack : stack[k].ok
      BY <1>5, <2>3, <3>2 DEF Top
    <3>4. Ran = Passed(stack)
      BY <1>1, <3>3 DEF Followed
    <3> QED
      BY <1>3, <2>4, <2>6, <3>2, <3>4
  <2> QED
    BY <1>1, <1>2, <2>1, <2>5, <2>8, <2>9 DEF Followed
<1> QED
  BY <1>6, <1>7

\* Nothing has been executed at first
LEMMA InitFollowed == Init => Followed
<1> SUFFICES ASSUME Init PROVE Followed
  OBVIOUS
<1> DEFINE f == [actions |-> suite.actions, next |-> 1, ok |-> TRUE]
<1>1. suite \in Nodes /\ suite.kind = "suite" /\ Actions(suite) = suite.actions
  <2>1. suite \in Nodes /\ suite.kind = "suite"
    BY NodesAssumption DEF Init
  <2> QED
    BY <2>1 DEF Actions
<1>2. suite.actions \in Seq(Nodes)
  BY <1>1, NodesAssumption
<1>3. f.actions = Actions(suite) /\ f.next = 1 /\ stack = <<f>>
  BY <1>1 DEF Init
<1>4. f \in Frame
  BY <1>2 DEF Frame
<1> HIDE DEF f
<1>5. stack \in Seq(Frame) /\ stack # <<>> /\ Len(stack) = 1 /\ stack[1] = f
  BY <1>3, <1>4
<1>6. Nests(stack)
  <2>1. Len(Actions(suite)) \in Nat
    BY <1>1, <1>2
  <2>2. 1 \in 1..(Len(Actions(suite)) + 1)
    BY <2>1
  <2> QED
    BY <1>3, <1>5, <2>2 DEF Nests
<1>7. Passed(stack) = <<>>
  <2>1. 1 - 1 = 0 /\ 1 \in 1..1
    OBVIOUS
  <2>2. /\ Done(stack)[1] = Executed(stack[1].actions, 1 - 1)
        /\ Flat(Done(stack), 1) = Flat(Done(stack), 1 - 1) \o Done(stack)[1]
    BY <1>3, <1>5, <1>6, <2>1, DoneTyped
  <2>3. Flat(Done(stack), 1) = <<>> \o <<>>
    BY <2>1, <2>2, FlatNone, ExecutedNone
  <2>4. <<>> \o <<>> = <<>>
    OBVIOUS
  <2> QED
    BY <1>5, <2>3, <2>4 DEF Passed
<1>8. Ran = <<>>
  <2>1. log = <<>> /\ node = None
    BY DEF Init
  <2>2. Ended = {}
    BY <2>1 DEF Ended
  <2> QED
    BY <2>2 DEF Ran
<1> QED
  BY <1>1, <1>6, <1>7, <1>8 DEF Followed, Init

\* Every step follows the tree
LEMMA NextKeepsFollowed ==
    ASSUME Shape, Followed, [Next]_vars
    PROVE  Followed'
<1>1. CASE MakeResource \/ EndPass
  <2>1. /\ stage = "resources" /\ stage' \in {"resources", "run", "failed"}
        /\ UNCHANGED <<suite, stack, verdict, node, log>>
    BY <1>1 DEF MakeResource, EndPass, tree, scenario
  <2> QED
    BY <2>1, SetupKeepsFollowed
<1>2. CASE RunAction
  BY <1>2, RunStep, BeginsKeepsFollowed, EntersKeepsFollowed
<1>3. CASE EndScenario
  BY <1>3, EndScenarioKeepsFollowed
<1>4. CASE EndActions
  BY <1>4, EndActionsKeepsFollowed
<1>5. CASE Methodical
  <2>1. UNCHANGED <<stage, tree, node, log>>
    BY <1>5 DEF Methodical, begin_test_scenario, begin_test_step, end_test_step, end_test_case, Method,
                begin_test_case, end_test_scenario
  <2>2. UNCHANGED <<stage, suite, stack, verdict, node, log>>
    BY <2>1 DEF tree
  <2> QED
    BY <2>2, OthersKeepFollowed
<1>6. CASE Query \/ cleanup_flight
  <2>1. UNCHANGED <<stage, suite, stack, verdict, node, log>>
    BY <1>6 DEF Query, cleanup_flight, tree
  <2> QED
    BY <2>1, OthersKeepFollowed
<1>7. CASE go_to_cleanup \/ CleanupPlanner \/ NextPlanner \/ end_cleanup
  <2>1. UNCHANGED <<stage, suite, stack, verdict, node, log>>
    BY <1>7 DEF go_to_cleanup, CleanupPlanner, NextPlanner, end_cleanup, tree
  <2> QED
    BY <2>1, OthersKeepFollowed
<1>8. CASE Exit \/ UNCHANGED vars
  <2>1. UNCHANGED <<stage, suite, stack, verdict, node, log>>
    BY <1>8 DEF Exit, vars, tree, scenario
  <2> QED
    BY <2>1, OthersKeepFollowed
<1> QED
  BY <1>1, <1>2, <1>3, <1>4, <1>5, <1>6, <1>7, <1>8 DEF Next, Progress, Methodical

\* The verdict on a suite is sound, however deep its suites and generators are
\* nested: it is a success just when every report in it is, and then every
\* scenario of it has run, in order (suite.py:117-126, 164-188, repeat.py:41-50)
THEOREM VerdictAlwaysSound == Spec => []VerdictSound
<1>1. Init => Followed
  BY InitFollowed
<1>2. Shape /\ Followed /\ [Next]_vars => Followed'
  BY NextKeepsFollowed
<1>3. Shape /\ Followed => VerdictSound
  <2>1. SUFFICES ASSUME Shape, Followed, stage = "done", verdict
                 PROVE  [i \in DOMAIN log |-> <<log[i].type, log[i].planners>>] = Scenarios[suite]
    BY DEF Shape, VerdictSound
  <2>2. node = None
    BY <2>1 DEF Followed
  <2>3. Ended = DOMAIN log
    BY <2>2 DEF Ended
  <2> QED
    BY <2>1, <2>3 DEF Followed, Ran
<1> QED
  BY <1>1, <1>2, <1>3, AlwaysShape, PTL DEF Spec
=============================================================================
