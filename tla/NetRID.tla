--------------------------------- MODULE NetRID --------------------------------
(***************************************************************************)
(* The ASTM NetRID nominal behaviour scenario of uss_qualifier with the    *)
(* mock Service Providers, which serve the flights injected into them, and *)
(* mock Display Providers, through which the scenario observes them.       *)
(*                                                                         *)
(* Positions are on a line, a view is an interval, its diagonal the length *)
(* of it.  A call takes time: the clock may tick between any two steps, as *)
(* often as the bound MaxDelay on a call allows.                           *)
(***************************************************************************)
EXTENDS Integers, Sequences, FiniteSets, FiniteSetsExt, SequencesExt

CONSTANTS
    Providers,          \* sequence of Service Providers; one flight each
    Observers,          \* sequence of Display Providers
    Tracks,             \* possible [provider -> positions of its flight, one per tick]
    StartDelay,         \* flight_start_delay
    Realtime,           \* NetMaxNearRealTimeDataPeriod
    Latency,            \* max_propagation_latency
    Buffer,             \* RECENT_POSITIONS_BUFFER
    PollInterval,       \* min_polling_interval
    MinDiagonal,        \* min_query_diagonal
    DetailsDiagonal,    \* NetDetailsMaxDisplayAreaDiagonal
    MaxDiagonal,        \* NetMaxDisplayAreaDiagonal
    MaxDelay,           \* bound: ticks a call takes
    MaxFaults,          \* bound: calls that fail
    None

ProviderSet == ToSet(Providers)
ObserverSet == ToSet(Observers)

ASSUME ConstantsAssumption ==
    /\ {StartDelay, Realtime, Latency, Buffer, MinDiagonal, DetailsDiagonal, MaxDiagonal,
        MaxDelay, MaxFaults} \subseteq Nat
    /\ PollInterval \in Nat \ {0}
    /\ Buffer >= Realtime
    /\ DetailsDiagonal <= MaxDiagonal
    /\ Providers \in Seq(ProviderSet) /\ Len(Providers) > 0
    /\ Observers \in Seq(ObserverSet) /\ Len(Observers) > 0
    /\ \A t \in Tracks, p \in ProviderSet : t[p] \in Seq(Int) /\ Len(t[p]) > 0
    /\ None \notin [from : Int, to : Int]

VARIABLES
    now, limit,   \* the clock, and how far it may go in this step
    track,        \* the flights_data resource, one of Tracks
    start,        \* time of the first telemetry of the flights
    isas,         \* DSS: [provider -> [from, to] or None]
    tests,        \* the providers whose database holds the test
    hidden,       \* [observer -> its do_not_display_flights_from]
    pc, turn,     \* the scenario's step, and which provider or observer is next
    injected,     \* _injected_flights, a stack of providers
    obs,          \* the observation being made
    next,         \* t_next of the polling loop
    findings,     \* failed checks of the report
    error,        \* execution_error of the report
    faults,       \* calls that have failed
    observed      \* history: <<observer, provider>> for flights that were displayed

network == <<isas, tests>>
report == <<findings, error, observed>>
setup == <<track, start, hidden>>
vars == <<now, limit, setup, network, pc, turn, injected, obs, next, report, faults>>

(***************************************************************************)
(* Injected flights                                                        *)
(***************************************************************************)
Positions(p) == ToSet(track[p])
FirstTime(p) == start
LastTime(p) == start + Len(track[p]) - 1

\* Positions of a flight in a period
Between(p, t0, t1) ==
    {track[p][n] : n \in {m \in 1..Len(track[p]) : start + m - 1 \in t0..t1}}

\* Details of a flight are there from its reference time on
get_details(p) == now >= FirstTime(p)

Inside(x, view) == view[1] <= x /\ x <= view[2]
Diagonal(view) == view[2] - view[1]

\* What may be asked of a view: nothing, numbers of flights, or their details
TooLarge(view) == Diagonal(view) > MaxDiagonal
Detailed(view) == Diagonal(view) <= DetailsDiagonal

(***************************************************************************)
(* VirtualObserver.get_query_rect: the bounds of what should be visible,   *)
(* or else the centre of all data, made large enough.  The rectangle is    *)
(* never reused: the condition for it cannot be met.                       *)
(***************************************************************************)
Flights == ToSet(injected)

\* The mean of all positions
Telemetry == FlattenSeq([i \in DOMAIN injected |-> track[injected[i]]])

Total(positions) ==
    LET sum[i \in 0..Len(positions)] == IF i = 0 THEN 0 ELSE sum[i - 1] + positions[i]
    IN sum[Len(positions)]

Centre == Total(Telemetry) \div Len(Telemetry)

Bounds ==
    LET points == UNION {Between(p, now - (Realtime + Latency), now) : p \in Flights}
    IN IF points = {} THEN <<Centre, Centre>> ELSE <<Min(points), Max(points)>>

get_query_rect ==
    LET short == MinDiagonal - Diagonal(Bounds)
        more == IF short <= 0 THEN 0 ELSE (short + 1) \div 2
    IN <<Bounds[1] - more, Bounds[2] + more>>

\* Mutant: the first telemetry of a flight is taken for the last
FirstTimeOfInterest == Max({now} \cup {FirstTime(p) : p \in Flights})

get_last_time_of_interest ==
    Max({now} \cup {LastTime(p) : p \in Flights}) + Realtime + Latency

(***************************************************************************)
(* Calls                                                                   *)
(***************************************************************************)
MayFail == faults < MaxFaults
Fault == MayFail /\ faults' = faults + 1
NoFault == UNCHANGED faults

\* The next call, which takes at most MaxDelay
Call(step) == pc' = step /\ limit' = now + MaxDelay

Found(check, p) == [check |-> check, provider |-> p, at |-> now]

\* run() returns, and the scenario goes on with its cleanup
GoToCleanup == Call("cleanup") /\ turn' = 0

\* An exception: record_execution_error, which leaves out the cleanup
ExecutionError ==
    /\ error' = TRUE
    /\ pc' = "complete" /\ limit' = now

(***************************************************************************)
(* _inject_flights, with create_test of the provider                       *)
(***************************************************************************)
\* put_isa for the span of the flight and the buffer
IsaOf(p) == [from |-> FirstTime(p), to |-> LastTime(p) + Buffer]

put_isa(p) == isas' = [isas EXCEPT ![p] = IsaOf(p)]
create_test(p) == put_isa(p) /\ tests' = tests \cup {p}

Inject(p) ==
    /\ pc = "inject" /\ Providers[turn] = p
    /\ \/ \* the test is created
          /\ NoFault
          /\ create_test(p)
          /\ injected' = Append(injected, p)
          /\ IF turn < Len(Providers) THEN turn' = turn + 1 /\ Call("inject")
             ELSE turn' = 0 /\ Call("poll")
          /\ UNCHANGED findings
       \/ \* the DSS refuses the ISA: 412
          /\ Fault /\ findings' = findings \cup {Found("Successful injection", p)}
          /\ GoToCleanup /\ UNCHANGED <<network, injected>>
       \/ \* the ISA is made, and then the provider fails or its answer is lost
          /\ Fault /\ findings' = findings \cup {Found("Successful injection", p)}
          /\ create_test(p) \/ (put_isa(p) /\ UNCHANGED tests)
          /\ GoToCleanup /\ UNCHANGED injected
    /\ UNCHANGED <<now, setup, obs, next, error, observed>>

(***************************************************************************)
(* _poll_during_flights                                                    *)
(***************************************************************************)
\* t_end is fixed when the loop begins
BeginPolling ==
    /\ pc = "poll"
    /\ obs' = [obs EXCEPT !.end = get_last_time_of_interest]
    /\ next' = now
    /\ turn' = 1 /\ pc' = "loop" /\ limit' = now
    /\ UNCHANGED <<now, setup, network, injected, report, faults>>

Poll ==
    /\ pc = "loop"
    /\ IF now < obs.end
       THEN Call("observe") /\ obs' = [obs EXCEPT !.rect = get_query_rect, !.initiated = now] /\ UNCHANGED turn
       ELSE GoToCleanup /\ UNCHANGED obs
    /\ UNCHANGED <<now, setup, network, injected, next, report, faults>>

\* t_next is moved until it is not in the past; observations have taken some
\* time since, if only a part of a tick
NextPoll == next + PollInterval * (1 + (now - next) \div PollInterval)

\* The loop sleeps, or ends when t_next is past the end
Wait ==
    /\ pc = "wait"
    /\ next' = NextPoll
    /\ IF next' > obs.end THEN GoToCleanup
       ELSE pc' = "asleep" /\ limit' = next' /\ UNCHANGED turn
    /\ UNCHANGED <<now, setup, network, injected, obs, report, faults>>

WakeUp ==
    /\ pc = "asleep" /\ now >= next
    /\ pc' = "loop" /\ turn' = 1
    /\ UNCHANGED <<now, limit, setup, network, injected, obs, next, report, faults>>

(***************************************************************************)
(* observe_system, with display_data of the Display Provider               *)
(***************************************************************************)
Observer == Observers[turn]

\* The DSS is searched for ISAs of this moment that meet the view
Searched(view) ==
    {p \in ProviderSet :
        /\ isas[p] # None /\ isas[p].from <= now /\ now <= isas[p].to
        /\ Min(Positions(p)) <= view[2] /\ view[1] <= Max(Positions(p))}

\* A query of the Display Provider fails, and with it the observation
Failed == [obs EXCEPT !.asks = {}, !.shown = {}, !.code = 412]

SearchISAs ==
    /\ pc = "observe"
    /\ \/ /\ NoFault
          /\ obs' = [obs EXCEPT !.shown = {},
                                !.asks = IF TooLarge(obs.rect) THEN {}
                                         ELSE Searched(obs.rect) \ hidden[Observer],
                                !.code = IF TooLarge(obs.rect) THEN 413 ELSE 200]
          /\ pc' = "flights" /\ UNCHANGED error
          /\ limit' = now + MaxDelay
       \/ \* the search fails
          /\ Fault
          /\ obs' = Failed
          /\ pc' = "flights" /\ UNCHANGED error
          /\ limit' = now + MaxDelay
       \/ \* no connection to the observer
          Fault /\ ExecutionError /\ UNCHANGED obs
    /\ UNCHANGED <<now, setup, network, turn, injected, next, findings, observed>>

\* _get_report: details in effect and recent telemetry in the view
Reported(p, view) ==
    /\ p \in tests
    /\ get_details(p)
    /\ \E x \in Between(p, now - Realtime, now) : Inside(x, view)

\* The flights of a provider, which refuses a view that is too large
flights(p, view) == IF Reported(p, view) /\ ~TooLarge(view) THEN {p} ELSE {}

AskProvider(p) ==
    /\ pc = "flights" /\ p \in obs.asks
    /\ \/ NoFault /\ obs' = [obs EXCEPT !.asks = @ \ {p}, !.shown = @ \cup flights(p, obs.rect)]
       \/ Fault /\ obs' = Failed
    /\ UNCHANGED <<now, limit, setup, network, pc, turn, injected, next, report>>

(***************************************************************************)
(* _evaluate_observation                                                   *)
(***************************************************************************)
ShouldBeObserved(p) ==
    FirstTime(p) + Latency < obs.initiated /\ obs.initiated < LastTime(p) + Realtime

\* Mutant: the latency is not allowed for
LongGone(p) == now > LastTime(p) + Realtime

Gone(p) == now > LastTime(p) + Realtime + Latency

\* The flights of an observation come from each flights URL once and a provider's
\* flight is only at its own, so that the check 'Duplicate flights' has nothing to find
FlightCheck(p) ==
    IF now < FirstTime(p)
    THEN IF p \in obs.shown THEN {Found("Premature flight", p)} ELSE {}
    ELSE IF Gone(p)
    THEN IF p \in obs.shown THEN {Found("Lingering flight", p)} ELSE {}
    ELSE IF ShouldBeObserved(p) /\ p \notin obs.shown
    THEN {Found("Missing flight", p)} ELSE {}

AreaTooLargeCheck == IF obs.code # 413 THEN {Found("Area too large", None)} ELSE {}

Evaluate ==
    CASE TooLarge(obs.rect) -> AreaTooLargeCheck
      [] ~TooLarge(obs.rect) /\ ~Detailed(obs.rect) -> {}
      [] OTHER ->
            IF obs.code # 200 THEN {Found("Successful observation", None)}
            ELSE UNION {FlightCheck(p) : p \in Flights}

EvaluateObservation ==
    /\ pc = "flights" /\ obs.asks = {}
    /\ findings' = findings \cup Evaluate
    /\ observed' = IF Detailed(obs.rect) THEN observed \cup ({Observer} \X obs.shown)
                   ELSE observed
    /\ IF turn < Len(Observers) THEN turn' = turn + 1 /\ Call("observe")
       ELSE UNCHANGED turn /\ pc' = "wait" /\ limit' = now
    /\ obs' = [obs EXCEPT !.shown = {}, !.code = 0, !.initiated = now]
    /\ UNCHANGED <<now, setup, network, injected, next, error, faults>>

(***************************************************************************)
(* cleanup, with delete_test of the provider                               *)
(***************************************************************************)
delete_isa(p) == isas' = [isas EXCEPT ![p] = None]
delete_test(p) == delete_isa(p) /\ tests' = tests \ {p}

Cleanup ==
    LET p == injected[Len(injected)] IN
    /\ pc = "cleanup" /\ injected # <<>>
    /\ injected' = Front(injected)
    /\ Call("cleanup")
    /\ \/ /\ NoFault
          /\ delete_test(p)
          /\ UNCHANGED findings
       \/ /\ Fault /\ findings' = findings \cup {Found("Successful test deletion", p)}
          /\ UNCHANGED network
       \/ \* the ISA is deleted, and then the provider fails or its answer is lost
          /\ Fault /\ findings' = findings \cup {Found("Successful test deletion", p)}
          /\ delete_test(p) \/ (delete_isa(p) /\ UNCHANGED tests)
    /\ UNCHANGED <<now, setup, turn, obs, next, error, observed>>

EndCleanup ==
    /\ pc = "cleanup" /\ injected = <<>>
    /\ pc' = "complete" /\ limit' = now
    /\ UNCHANGED <<now, setup, network, turn, injected, obs, next, report, faults>>

Tick ==
    /\ now < limit
    /\ now' = now + 1
    /\ UNCHANGED <<limit, setup, network, pc, turn, injected, obs, next, report, faults>>

\* The flights of the resource, moved to begin after the delay
get_test_flights == now + StartDelay

\* The providers each mock Display Provider is told to leave out
DisplayProviderBehavior == [ObserverSet -> SUBSET ProviderSet]

NoObservation == [end |-> 0, rect |-> <<0, 0>>, initiated |-> 0, asks |-> {}, shown |-> {}, code |-> 0]

Init ==
    /\ now = 0 /\ limit = MaxDelay
    /\ track \in Tracks /\ start = get_test_flights
    /\ isas = [p \in ProviderSet |-> None] /\ tests = {}
    /\ hidden \in DisplayProviderBehavior
    /\ pc = "inject" /\ turn = 1
    /\ injected = <<>> /\ obs = NoObservation /\ next = 0
    /\ findings = {} /\ error = FALSE /\ faults = 0 /\ observed = {}

Complete == pc = "complete" /\ UNCHANGED vars

Step ==
    \/ \E p \in ProviderSet : Inject(p) \/ AskProvider(p)
    \/ BeginPolling \/ Poll \/ Wait \/ WakeUp \/ SearchISAs \/ EvaluateObservation
    \/ Cleanup \/ EndCleanup

Next == Step \/ Tick \/ Complete

Spec == Init /\ [][Next]_vars

-----------------------------------------------------------------------------
\* get_report().successful: all checks of this scenario are of high severity
successful == pc = "complete" /\ ~error /\ findings = {}

Everywhere == UNION {Positions(p) : p \in ProviderSet}
Compact == Max({MinDiagonal + 1, Max(Everywhere) - Min(Everywhere)}) <= DetailsDiagonal

\* A round asks the observers one after the other, each with two calls; the
\* last one is asked when all the others have answered
RoundTime == 2 * MaxDelay * Len(Observers)
LastTurn == RoundTime - 2 * MaxDelay

\* The injections take a call each, and the loop begins after the last
InjectionTime == MaxDelay * (Len(Providers) + 1)

(***************************************************************************)
(* The scenario does not blame a system that works: when no call fails and *)
(* no flight is withheld, the only finding there can be is a flight that   *)
(* is missing once its data had expired while the observation was being    *)
(* made.  All observers of a round are asked for the rectangle that was    *)
(* made when it began, which a flight may have left or not yet entered.    *)
(* So this needs calls no slower than the latency, rounds no longer than   *)
(* the data stays, and a last observer who is not asked later than the     *)
(* latency after the first (display_data_evaluator.py:62-77, 139-219).     *)
(***************************************************************************)
FindingsJustified ==
    /\ faults = 0 /\ (\A o \in ObserverSet : hidden[o] = {})
    /\ MaxDelay <= Latency /\ RoundTime <= Realtime /\ LastTurn <= Latency
    => \A f \in findings : /\ f.check = "Missing flight"
                           /\ f.at > LastTime(f.provider) + Realtime

(***************************************************************************)
(* A scenario that succeeds has seen what it is there to see: every        *)
(* observer has displayed every injected flight, so none that withholds    *)
(* one passes, however the observations fall.  This needs flights so close *)
(* together that no view is above the limit for details, since views above *)
(* it are not evaluated, and for every flight an observation of each       *)
(* observer that begins while it has to be seen and is evaluated before it *)
(* has to be gone, in the first round or a later one                       *)
(* (nominal_behavior.py:149-177, display_data_evaluator.py:85-105,         *)
(* 192-213).                                                               *)
(***************************************************************************)
Frequent ==
    \A p \in ProviderSet :
        LET seen == Len(track[p]) - 1 + Realtime IN
        /\ RoundTime + PollInterval < seen - Latency
        /\ RoundTime + PollInterval + 2 * MaxDelay <= seen
        /\ InjectionTime + RoundTime < StartDelay + seen

SuccessMeansObserved ==
    successful /\ Compact /\ Frequent => ObserverSet \X ProviderSet \subseteq observed

=============================================================================
