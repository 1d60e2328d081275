# A TLA+ model of the InterUSS DSS and its monitoring tools

The repository implements a *Discovery and Synchronization Service* (DSS): a
region's UAS service suppliers (USSs) register in it where they operate, and
learn from it whom to notify and whom to ask.  Several DSS instances serve a
region, each run by another organization, all on one CockroachDB cluster; every
instance is a `core-service` behind an `http-gateway`.  The instances hold no
state of their own between requests: all interaction of USSs and instances is
through the tables.

Around the DSS the repository has the *monitoring* tools, in Python: a mock USS,
a proxy for automated testing, a tracer that records what happens in an
airspace, the USS qualifier that tests USSs and issues verdicts on them, and a
suite that tests whether DSS instances of a region work together.  They share
`monitorlib`: clients, authorization, volumes, values in shared memory.

## Inventory

| Part | State | Operations | Hard because |
|---|---|---|---|
| Operational intents (`pkg/scd/operational_intents_handler.go`) | `scd_operations` | put (create, update), delete; get, query | a put checks a version and a key of OVNs, creates or extends a subscription, stores, and notifies, all from what the client read earlier |
| Constraints (`pkg/scd/constraints_handler.go`) | `scd_constraints` | put, delete; get, query | notification of the volume left and the volume entered |
| SCD subscriptions (`pkg/scd/subscriptions_handler.go`) | `scd_subscriptions` | put, delete; get, query | operational intents depend on them; rewritten by two kinds of requests while notifications are counted in them |
| USS availability (`pkg/scd/uss_availability_handler.go`) | `scd_uss_availability` | set, get | read-modify-write without a version check |
| ISAs (`pkg/rid/application/isa.go`) | `identification_service_areas` | insert, update, delete; get, search | notification of the cells left |
| RID subscriptions (`pkg/rid/application/subscription.go`) | `subscriptions` | insert, update, delete; get, search | a limit per owner and cell; the answer is searched after the transaction |
| RID garbage collector (`pkg/rid/store/cockroach/garbage_collector.go`) | the list of a run | list, delete, of ISAs and then of subscriptions | no transaction: rows change between list and delete; runs fail |
| Stores (`pkg/scd/store/cockroach`, `pkg/rid/store/cockroach`) | - | `Transact`, `Interact` | `ExecuteTx` retries closures that change captured variables |
| Volumes and coverings (`pkg/models/geo.go`, `pkg/geo/s2.go`) | - | unions, coverings, levels | S2 normalizes unions; cells come out of a map unordered |
| `pkg/auth` | verification keys | verify, refresh | refresh while requests are verified |
| `cmds/core-service`, `cmds/http-gateway`, `cmds/db-manager`, `cmds/dummy-oauth` | - | start, cron jobs, translate, migrate, issue tokens | retries at startup, a failure between migrations |
| Mock USS, strategic coordination (`monitoring/mock_uss/scdsc`) | `db`: flights, cached operational intents, in shared memory | inject, delete, clear; serve details | a request is a chain of calls with short transactions in between; any call may fail |
| Mock USS, remote ID (`mock_uss/ridsp`, `riddp`) | tests; flights to withhold | create and delete tests, serve flights, display data | an ISA in the DSS and a record in the database change one after the other |
| atproxy (`monitoring/atproxy`) | queries in shared memory | call; list queries, put a result | processes meet in a queue with timeouts on both sides |
| Authorization (`monitorlib/infrastructure.py`, `auth.py`, `auth_validation.py`) | tokens, default scopes of sessions | request, validate, decorate | tokens age while they are kept and sent; lists of scopes are shared |
| Tracer, polling (`monitoring/tracer/tracer_poll.py`, `monitorlib/fetch`) | last results, cached details | poll, fetch details, log changes | references and details are of different versions; only changes are logged |
| Tracer, subscriptions (`tracer/uss_receiver`) | subscriptions in the DSS under fixed IDs | start, receive, stop | forked workers inherit the exit handler; runs are killed |
| USS qualifier, remote ID scenario (`uss_qualifier/scenarios/astm/netrid`) | injected flights, findings | inject, poll and evaluate, clean up | clocks: what is expected was true when the observation began |
| USS qualifier, framework (`suites`, `scenarios/scenario.py`, `resources`, `action_generators`) | resources, phase of a scenario, reports | create resources, run suites and generators, verdicts | exceptions and failed checks leave phases and flights behind |
| USS qualifier, flight planning scenarios (`scenarios/flight_planning`, `astm/utm`, `uspace`) | flights at the planners | plan, modify, activate, delete, validate sharing | every answer may be faulty; helpers return with a step open |
| Interoperability suite (`monitoring/interoperability`) | the context of a round | 17 steps per permutation, `cleanUp` | sleeps against times to live; cleaning up what half exists |
| Prober, load test, deployment manager, web application, geo-awareness | files, queues | tests and tools | - |
| `build/`, `interfaces/` | - | schemas, deployment, code generation | - |

What makes the parts correct:

* of two overlapping operational intents one manager at least knew of the other;
* an operational intent never loses the subscription that keeps its operator informed;
* a subscriber who applies answers and notifications has the DSS's picture;
* limits hold, and expired records go, but nothing that was renewed;
* flights that mock USSs plan conflict with nothing planned before them, are not
  lost, and do not outlive the request that removes them;
* calls and results are matched, tokens authorize what was asked and no more, and
  logs show what there was;
* a tester's verdict means something, in both directions: a success shows that
  what was to be seen was seen, and nobody is blamed without a cause.

`PROJECT.json` lists every component, and under "hazards" what in this code is
hard to test, at its line, with the properties that watch over it.

## Modules

| Module | Models |
|---|---|
| `S2` | coverings as sets of level-13 cells and coarser parents: `Normalize`, `Contains`, `Levelify` |
| `CRDB` | the two things of SQL that matter: a `LIMIT` returns any subset of that size, and `= NULL` is never true |
| `SCD` | operational intents, constraints and subscriptions of `pkg/scd`, and the properties |
| `SCDProofs` | the theorems about `SCD` |
| `RID` | ISAs, subscriptions and garbage collectors of `pkg/rid`, and the properties |
| `RIDProofs` | the theorems about `RID` |
| `Airspace` | abstract: what strategic coordination promises |
| `Vol4` | 4D volumes of `monitorlib/scd.py` |
| `MockSCD` | strategic coordination of mock USSs; implements `Airspace` |
| `MockSCDProofs` | the theorems about `MockSCD`, and that it implements `Airspace` |
| `ATProxy` | the queue of queries of atproxy |
| `Auth` | sessions, adapters and the validation of tokens |
| `MonitoringProofs` | the theorems about `ATProxy` and about `Auth` |
| `TracerPoll` | the polling loop of the tracer |
| `TracerSubscribe` | the tracer as a receiver of notifications, from run to run |
| `TracerProofs` | the theorems about `TracerPoll` and about `TracerSubscribe` |
| `NetRID` | the nominal behaviour scenario with mock service and display providers |
| `NetRIDProofs` | the theorems about `NetRID` |
| `Qualifier` | resources, suites, generators, scenarios and verdicts of the USS qualifier |
| `QualifierProofs` | the theorems about `Qualifier` |
| `Interop` | the interoperability suite |
| `InteropProofs` | the theorems about `Interop` |
| `MC*` | the instances that TLC checks |

`MockSCD` composes mock USSs, other USSs and a DSS; `NetRID` composes the
qualifier's scenario with the mock USS's two remote ID parts and a DSS; `Interop`
and `TracerSubscribe` have a DSS that is as their requests use it.  Of the DSS
these modules keep only versions, ends, the check of the key and, for `Interop`, the
limit of subscriptions; what it does beyond that is in `SCD` and `RID`.

### SCD

`ops`, `cons` and `subs` are the three tables, functions from IDs to rows or
`None`.  `now` is the clock, in seconds: OVNs and subscription versions are
hashes of the ID and the RFC 3339 text of `updated_at`, so an OVN is the pair of
both.  One action is one committed request.  Its guard is the conjunction of the
checks of the handler, the store and the table's `CHECK`s; a request that fails
one rolls back and is a stuttering step.

Two variables record what clients are told.  `told` is the picture that the
owner of a subscription gets from the answer to its put and from the
notifications that the writers of entities owe to the subscribers in their
answers; these pass from USS to USS and are external to the repository.  `aware`
records for every operational intent which others its key proved known when it
was last written; a later write of one of those takes it out again.

Volumes have cells, altitudes and times.  A covering stored in the order in which
it came out of a map (`precomputedCellGeometry`) has `sorted` FALSE, and
`Contains`, a bisection, may then miss a cell.  Text, URLs, scopes and the
geometry behind coverings are left out.

The bounds are `MaxTime`, `MaxVersion` (updates of one entity) and `MaxIndex`
(notifications of one subscription).

### RID

`isas` and `subs` are the tables; `version` is the commit timestamp, which
`writes` makes unique.  The write of a subscription and the search that answers
the request are two steps (`PutSubscription`, `AnswerSubscription`), since the
handler calls the application twice.  The garbage collector of every instance
(`gc`) lists ISAs, deletes them one by one, lists subscriptions and deletes them,
each a step of its own, and may fail in between (`GCFail`: an error of a query, a
crash).  The first row it really deletes ends its loop, as in the code.  `told`
is as in SCD.  A subscription is notified from the moment it is stored, as in the
code, also before its start.  A handler whose subscription was deleted after it was
stored still searches and answers.  `TypeOK` includes that rows start before they end and
that subscriptions are not too long, which updates that give only one of the times
could break.  The clocks of the instances and of the database are one.

The bounds are `MaxTime`, `MaxWrites` and `MaxFailures`.

### MockSCD, Vol4 and Airspace

A request (`req[r]`) goes through the calls of `inject_flight`, `delete_flight`
or `clear_area`, one step per call to the DSS or to a USS and one per `with db`:
query of references, the cache read, details fetched one by one, the cache
written back, the check of conflicts, creation, notification, storing.  A call
may fail, with or without its effect (`failures`).  Other USSs put and delete
operational intents at will.  `promised` and `orphaned` are history variables for
the properties.  A version stands for the OVN: it is assumed here that two versions of
an operational intent have different OVNs and that the DSS's search is not cut off by
its `LIMIT`; `SCD` is without these assumptions.  An intent has the state that the
client gave it, and the DSS checks the key as in `SCD`: only for `Accepted` and
`Activated` (`RequiresKey`).

`Vol4` flattens outlines to one axis and keeps the code's peculiarities: the
bounds of a circle ignore its latitude, and a circle against a polygon raises a
`ValueError`.  Because searches and conflicts then differ from real overlaps,
that the mock USS still implements `Airspace` is not a matter of course: it rests
on the key that the DSS checks.  The refinement mapping takes `plans` from the
DSS's operational intents.  For an off-nominal intent no key is asked for, and
`Conflicts`, with which `Airspace` is instantiated, promises nothing.

### ATProxy

A call (`fulfill_query`) adds its query, looks for a result, sleeps, and gives up
when the time is over; these are separate transactions on the shared value.
Handlers list queries for a while and put results for any query they know, late
and more than once.  `Capacity` is the size of the shared memory in units of a
query or a result: what does not fit raises an exception and changes nothing.
A query's `left` counts down with `Elapse`.

### Auth

`Request` is `UTMClientSession`'s: it takes the scopes given or the session's
defaults, asks the adapter for a token, which is cached by audience and scopes,
and sends it; `Arrive` is the server's check of expiry, audience and scopes, later.
Every adapter of `auth.py` is modelled by the token it issues.  Lists of scopes
are objects (`content`), because `UsernamePassword` appends to the one it is
given.  `CallDecorated`, `ReturnDecorated` and `RaiseDecorated` are the
`default_scopes` decorator with its list of old scopes; the sessions it is given may
be the same twice, and are then not restored, nor are they when the function raises
(`lost`).  Signatures are not modelled: a token is what its issuer made.

### TracerPoll

`dss` and `uss` are what the DSS and the USSs have, changed at any time by others,
a USS after the DSS or before.  The loop chooses the most urgent poller, fetches
references, then details, item by item, through the cache, and logs the result if
it differs.  A query that is answered with an error is a failed result; one that is
not answered at all ends the tracer: describing the request that failed raises a
`TypeError`, which nobody catches.  Times are relative to now; `MaxLate` bounds how late
the loop is.

### TracerSubscribe

A process has the request it is at.  The master starts by reading, deleting and
putting a subscription of each kind, forks the workers, and every process runs
the exit handler when it ends; gunicorn may kill a worker that is slow, and
the whole container may be killed.  IDs of subscriptions are the same in all runs.
An RID subscription is deleted in its version.  The delete of an SCD subscription names
no version, which the DSS of this repository does not serve: it fails, and with it the
start over a left-over SCD subscription, or the exit handler.

### NetRID

One scenario: injection at each provider (which makes an ISA in the DSS and then
the record), the polling loop with views of the virtual observer, each observation
being a chain of calls observer - DSS - providers, evaluation, and cleanup.  A failing
call may leave an ISA without its test, or a test without its ISA.  The check
"Duplicate flights" has nothing to find here: each flights URL is asked once, and a
flight is only at its own provider.  `limit` is how far time may go during a call.  Positions lie on a line.  The rectangle
(`get_query_rect`) is that of the recent positions or, before there are any, around
the mean of all telemetry, which `Total` adds up.

### Qualifier

`create_resources` scans the declarations pass by pass.  `Nodes` are the suites,
generators and scenarios there are; a suite is executed with a stack of action lists.
`FlightPlannerCombinations` is an odometer over the planners of the roles: `Increment`
advances the last role that can, `Selected` is what the selector lets through.  It is
assumed that declared names are different, as the keys of a dictionary are, that the
planners are, that a node has the fields of its kind, and that no suite is within
itself: the tree is built from the top down before it is run, which would not end
otherwise.  A scenario is the list of the calls that its `run` makes (`script`),
each with the conditions of `scenario.py` on the phase: a call in the wrong phase
is an exception.  A resource may be impossible to make (an unknown type, a
constructor that raises).  A planner answers rightly or, up to `MaxFaults` times, wrongly.
Some wrong answers fail a check or raise; others no check can tell from right ones:
"Planned" without planning, "Rejected" or "ConflictWithFlight" of a flight that was
planned, "Closed" without closing, an area said to be cleared.  `hidden` has the flights
that planners deny in this way.  `log` has the reports, with the planners that failed
checks name (`blamed`) and, as history, the planners whose answers were wrong, those
that had left flights behind, and whether the area was occupied (`crowded`).

### Interop

One action per request of each test step, `Sleep` for `time.sleep`, `cleanUp`
request by request.  `fault` gives one instance a defect for the whole suite: not
joined to the region, returning deleted or expired entities, not updating ISAs, not
naming the subscriptions to notify, or naming deleted and expired ones that it does not
return (`misnotified`).  Requests may be lost once, and time passes between
requests.  The clock has `Second` ticks in a second: ends are sent in whole seconds, so
that an entity lives up to a second less than intended, and a step's assertion that the
end came back as it was sent is kept.  The instances refuse subscriptions beyond `Limit`
in the area, among which an earlier run may have left some.

## Runs

`tlc -config X.cfg M`.  All but the last pass; the last shows a disagreement of the
code with its own message.

| Run | Checks | Instance |
|---|---|---|
| `scd` (`MCSCD.cfg`) | `TypeOK`, `DependentsCovered`, `SubscribersInformed`, `Deconflicted`, `EveryOverlapNotified`, `NotificationIndexNeverDecreases`, `NoCascadingDelete` | two USSs, two operational intents, two subscriptions; two volumes that overlap and touch at a boundary, neither containing the other; all times; 57,027 states |
| `scd_constraints` (`MCSCDConstraints.cfg`) | `SubscribersInformed` | an operational intent, a constraint, two subscriptions, all triggers; a subscription without cells, one that begins when a volume ends; a parent cell of which the two cells are the children; 178,700 states |
| `rid` (`MCRID.cfg`) | `TypeOK`, `SubscribersInformed`, `SubscriptionLimit`, `OnlyExpiredCollected`, `ExpiredRowsRemoved` | two subscriptions of a USS that may have one per cell, one of them beginning later; an ISA that moves over cells that are all the children of one; the garbage collectors of two instances, a failed run; 479,868 states |
| `mock_scd` (`MCMockSCD.cfg`) | `PlannedRetrievable`, `Accounted`, `CacheFaithful`, `ImplementsAirspace` | two mock USSs and another, two requests at a time and in all, a flight ID, two operational intents, four intents of which one is invalid, one a circle and one nonconforming, a failed call; 814,142 states |
| `atproxy` (`MCATProxy.cfg`) | `QueueIsWaiting`, `AnswersBelong`, `EveryCallAnswered`, `ResultForwarded` | two calls, two handlers, each putting once, two results, memory that is too small for two queries with results; 130,212 states |
| `auth` (`MCAuth.cfg`) | `MarginSuffices`, `AuthorizedAsAsked`, `ScopesRestored` | two sessions, two lists of scopes, two servers of which one is asked under a wrong name, six adapters, two requests and two decorated calls with up to two sessions each, the same ones included; 2,903,520 states |
| `tracer_poll` (`MCTracerPoll.cfg`) | `DetailsLag`, `LogCatchesUp` | a poller with details and one without, three versions of an operational intent, one query that fails or gets no answer; 129,225 states |
| `tracer_subscribe` (`MCTracerSubscribe.cfg`) | `RunningSubscribed`, `StartSucceeds`, `StopRemoves` | three runs, three workers, both kinds of subscriptions, two failed requests; 77,987 states |
| `netrid` (`MCNetRID.cfg`) | `FindingsJustified`, `SuccessMeansObserved` | two providers, two observers that may withhold flights, tracks with small, large and too large views, a failed call; 5,427,628 states |
| `qualifier` (`MCQualifier.cfg`) | `ResourcesMade`, `CombinationsComplete`, `VerdictSound`, `SuccessIsClean`, `FailuresJustified`, `BlameExplained` | two planners, three suites with all kinds of actions and all scenarios, two faulty answers of planners or DSS, noticed or not, resources in a chain, in a cycle, undeclared and impossible to make; 515,768 states |
| `interop` (`MCInterop.cfg`) | `PassMeansInteroperable`, `FailuresExplained`, `RoundCleansUp` | two instances, one of them faulty, a lost request, a delay up to the wait, half seconds, a limit of two subscriptions and one left by an earlier run; 3,260,574 states |
| `interop_rounds` (`MCInteropRounds.cfg`) | `ContinuesToNextRound`, violated | the same: a failed creation in `testStep1` ends all rounds with a `KeyError` |

The bounds are small but let the interesting cases happen: two operational
intents can share an implicit subscription, be extended over each other, and be
deleted in either order; an entity can leave a subscribed volume and come back; a
subscription can be renewed while a collector has it on its list; two requests of
one mock USS race for a flight ID while a third USS changes what they have cached;
a result arrives as its call times out; a token is kept to the last moment and
sent slowly; details change twice between reference and fetch; a run is stopped
while its worker removes subscriptions; flights expire during an observation; a
scenario that failed leaves flights to the next; an entity ends while the suite is
late.  For every property a mutant of a mapped definition (a dropped check, a
missing union, a wrong boundary) is listed that TLC finds to violate it on the
same instance.  Symmetry is used only in runs that check safety.

Deadlock is checked in all runs but the two of `Interop`, whose suite really ends; the other
modules that end have a step that stands for the end (`Done`, `AllAnswered`, `Exit`,
`Complete`, `Stopped`).

What a property leaves out, because the code does not do it, is said in its
comment: `Accounted` and `PlannedRetrievable` allow for failed calls,
`RunningSubscribed` ends with the first process that exits, `StopRemoves` allows
one setback, and it and `StartSucceeds` speak of RID subscriptions only where an SCD
subscription cannot be deleted, `EveryOverlapNotified` leaves out subscriptions that an extension stored in
coarser cells, `DetailsLag` allows a version, `LogCatchesUp` needs a first poll of each poller and a
tracer that is not over, `ScopesRestored` leaves out sessions whose outermost function
raised or was given them twice, RID's `SubscribersInformed` holds before a subscription's
start too, `ImplementsAirspace` leaves out off-nominal intents, `SuccessIsClean` leaves out
flights that planners deny, `FailuresJustified` leaves out `Validation` with several
invalid intents, `BlameExplained` lets the first planner answer for everybody,
`PassMeansInteroperable` leaves out deleted subscriptions and wrongly notified ones,
`FailuresExplained` grants a delay of the shortest time to live less a second, and the
limit of subscriptions.  `FindingsJustified` relies on calls that take no longer
than the propagation latency (`MaxDelay <= Latency`), on rounds that take no
longer than data stays visible (`RoundTime <= Realtime`), and on a last observer that is
asked no later than the latency after the first (`LastTurn <= Latency`): the rectangle
is made once per round, and with slower observers a flight is reported as missing that
has only left it.  `SuccessMeansObserved` relies on flights so close together that every
view is evaluated (`Compact`) and on an observation of each observer that begins while
the flight has to be seen and is judged before it has to be gone, in the first round or
a later one (`Frequent`): a short flight between two slow rounds is never judged, nor
one that is over when the injections are.  Some of these conditions were found by the
proofs: the attempts without them ended in counterexamples that larger delays than
those of the run show.

That the types of the variables are kept is checked, and proved, for `SCD` and
`RID`.  For the other modules what the proofs need of the types is part of their
inductive invariants.

### Fairness

* `rid`: weak fairness of the steps of every instance's garbage
  collector: cron starts it again and again (`cmds/core-service/main.go`, `@every
  30m`, skipped while the last run is active), and a query that neither returns
  nor fails is excluded by the driver's timeouts.  `MaxFailures` stands for runs
  failing now and then, not forever.
* `atproxy`: calls run in processes that the server keeps running, and time
  passes.  Nothing is assumed of handlers.
* `tracer_poll`: the loop does not block (queries have timeouts) and time passes.
  Nothing makes queries succeed: a tracer that ended is excused.

The other runs check safety only and assume no fairness.  Nothing is assumed of clients, other USSs, or changes in the DSS.

## Disagreements with the documentation

Read off the code while modelling; the models do what the code does.

* A change of a subscription within the second of the last one does not change its
  version (`scd/models/models.go:29`).
* The key for an update must hold the OVN of the operational intent itself
  (`operational_intents_handler.go:435`).
* An implicit subscription that an update replaced is never removed
  (`operational_intents_handler.go:363`).
* An implicit subscription extended to all four children of a cell is stored as
  their parent and then not notified (`operational_intents_handler.go:412`).
* A search beyond its `LIMIT` is cut off silently, so the key check is incomplete.
* Expired SCD subscriptions are not deleted.
* A run of the RID garbage collector deletes one ISA and one subscription.
* `writer = NULL` finds no row, so rows without a writer are never collected.
* The subscription named for an operational intent need not notify of operational
  intents (`scd.proto:572-573`, `operational_intents_handler.go:380-424`).
* An update of an SCD subscription may set an end in the past (`scd.proto:582-583`,
  `scd/models/subscriptions.go:83-121`).
* An RID subscription is notified before its start (`rid.proto:478`,
  `rid/store/cockroach/subscriptions.go:275-297`).
* An update that repeats the start of a running ISA is rejected after the clock
  skew (`rid.proto:499-500`, `rid/models/identification_service_area.go:65-70`).
* `default_scopes` promises to restore the scopes afterwards
  (`monitorlib/infrastructure.py:207-209`) and does not if the function raises, or if
  it is given a session twice, whose second saved value is then the new one.
* A query that gets no answer is to be described as a failed one
  (`monitorlib/fetch/__init__.py:148-170`), but the `requests.Request` made to describe
  it is given the `timeout` that `adjust_request_kwargs` puts in (`infrastructure.py:116`), and the
  `TypeError` ends the program that asked.
* A tracer that is stopped gracefully is to remove its subscriptions
  (`tracer/README.md:61`); the DSS serves the delete of an SCD subscription only with a version (`scd.proto:925`),
  which `mutate/scd.py:83` does not send.
* The mock USS plans a flight in a nonconforming or contingent state over conflicts that
  came up since it read the DSS: the state is the client's (`routes_injection.py:167`),
  and the DSS then asks for no key (`operational_intents_handler.go:426`).
* `vol4_intersect` raises a `ValueError` for a circle and a polygon, and
  `rect_bounds_of` ignores the latitude of circles (`monitorlib/scd.py:411, 307`).
* The virtual observer never repeats a rectangle (`virtual_observer.py:55`).
* `Validation` ends its test step inside the loop over the invalid flight intents
  (`validation.py:132`), so that a second one ends the scenario with an error.
* `validate_shared_operational_intent` names `uss1` in its failed checks, also for the
  flight of `uss2` and for errors of the DSS (`astm/utm/test_steps.py:51-112`,
  `nominal_planning_priority.py:133`).
* The flight planning scenarios take "Closed", "Rejected", "ConflictWithFlight" and a
  cleared area at their word: a flight may be left after a success.
* The interoperability suite announces "Continuing to next round if any"
  (`interop_test_suite.py:58`), but `cleanUp` raises a `KeyError` when a creation
  failed (run `interop_rounds`); it does not know the new version of ISA_1; it compares
  IDs with names, so three of its checks can never fail; it sends ends in whole seconds
  (`monitorlib/rid.py:12`), so that SUB_2 lives only four to five seconds; with more
  instances than the DSS permits subscriptions in an area it fails
  (`rid/application/subscription.go:17`); and `main` returns success in every case.
* "True iff test scenario completed normally with no failed checks"
  (`reports/report.py:158`) holds of checks that are not of low severity.

Not covered by a property, although a test would hardly reach them: the order of
the notification indices in responses (`scd/repos/repos.go:100`); two writers of a
USS's availability (`uss_availability_handler.go:83`); a panic inside a transaction
(`rid/store/cockroach/store.go:149`); a poller that has never polled and starves
(`tracer/polling.py:31`); a worker that exits and removes the subscriptions of the
tracer that goes on (`uss_receiver/context.py:86`); a start that fails half way and
leaves a subscription (`context.py:68`); log files of two workers with one number
(`tracerlog.py:34`); a test that the scenario does not know of because the answer
to its creation was lost, and an exception that skips the cleanup
(`nominal_behavior.py:87`, `display_data_evaluator.py:69`); a planner without
information whose capabilities are then looked up (`test_steps.py:132`).  The models
have these steps where their component is modelled.

Run `scd` has no parent cell, and no search of any run reaches its limit; the proofs
allow both, but for the theorems that name a condition on the limit.

## Proofs

Every theorem holds for all values of the constants: any USSs, entities, calls,
sessions, workers or instances, any volumes and times, any bounds.  The assumptions
are the named `ASSUME`s of the modules, which say that constants have their types,
that tables are finite, that `None` is no value and, for `Qualifier`, what is said in its
section, for `Interop` how its times compare, for `TracerSubscribe` that SCD is the last
kind, and the conditions given below.  The theorems about a component follow from one
inductive invariant `IInv` (`ATProxyIInv`, `PollIInv` where a module has two), which TLC
checked on the instances before it was proved; the step that keeps it has a lemma per
action.  `QualifierProofs` has one in layers, each kept by the steps that keep those
before it.

| Theorem | States | Under the condition |
|---|---|---|
| `SCDProofs!TypeCorrect` | `[]TypeOK` | |
| `DependentsAlwaysCovered` | `[]DependentsCovered` | |
| `IndexNeverDecreases` | `NotificationIndexNeverDecreases` | |
| `NothingEverCascades` | `NoCascadingDelete` | |
| `AlwaysDeconflicted` | `[]Deconflicted` | no more operational intents than `MaxResultLimit` |
| `SubscribersAlwaysInformed` | `[]SubscribersInformed` | no table with more rows than `MaxResultLimit` |
| `EveryOverlapAlwaysNotified` | `EveryOverlapNotified` | the same |
| `RIDProofs!TypeCorrect` | `[]TypeOK` | |
| `LimitAlwaysKept` | `[]SubscriptionLimit` | |
| `CollectsOnlyExpired` | `OnlyExpiredCollected` | |
| `SubscribersAlwaysInformed` | `[]SubscribersInformed` | no more ISAs than `MaxResultLimit` |
| `MockSCDProofs!PlannedAlwaysRetrievable` | `[]PlannedRetrievable` | |
| `AlwaysAccounted` | `[]Accounted` | |
| `CacheAlwaysFaithful` | `[]CacheFaithful` | |
| `AirspaceImplemented` | `ImplementsAirspace` | |
| `MonitoringProofs!QueueIsAlwaysWaiting` | `[]QueueIsWaiting` | |
| `AnswersAlwaysBelong` | `[]AnswersBelong` | |
| `MarginAlwaysSuffices` | `[]MarginSuffices` | a lifetime longer than the margin |
| `AlwaysAuthorizedAsAsked` | `[]AuthorizedAsAsked` | no endpoint permits a scope "aud:..." |
| `ScopesAlwaysRestored` | `[]ScopesRestored` | |
| `TracerProofs!DetailsAlwaysLag` | `[]DetailsLag` | pollers have different items |
| `RunningAlwaysSubscribed` | `[]RunningSubscribed` | |
| `StartAlwaysSucceeds` | `[]StartSucceeds` | |
| `StopAlwaysRemoves` | `[]StopRemoves` | |
| `NetRIDProofs!FindingsAlwaysJustified` | `[]FindingsJustified` | |
| `SuccessAlwaysMeansObserved` | `[]SuccessMeansObserved` | |
| `QualifierProofs!ResourcesAlwaysMade` | `[]ResourcesMade` | |
| `CombinationsAlwaysComplete` | `[]CombinationsComplete` | |
| `VerdictAlwaysSound` | `[]VerdictSound` | |
| `SuccessAlwaysClean` | `[]SuccessIsClean` | |
| `FailuresAlwaysJustified` | `[]FailuresJustified` | |
| `InteropProofs!PassAlwaysMeansInteroperable` | `[]PassMeansInteroperable` | two instances or more, `Long > 2 * Short + MaxDelay + Second` |
| `FailuresAlwaysExplained` | `[]FailuresExplained` | the same |
| `RoundAlwaysCleansUp` | `[]RoundCleansUp` | the same |

A search that is cut off by its `LIMIT` returns any of the matching rows, and then
what the three conditions on `MaxResultLimit` secure is really lost.  The scopes
"aud:..." are what `UsernamePassword` adds to the list it is given; a server that
permitted such a scope would let in requests that did not ask for it.  `Long` and
`Short` are the suite's ten minutes and `SHORT_WAIT_SEC` and `MaxDelay` how far a round may fall
behind: with a longer delay the entities of a round end under it; `Second` is what
writing an end may cut off.

**SCD.**  `IInv` is `TypeOK` and `DependentsCovered`, which alone is not inductive:
the step that extends or rewrites a subscription needs the types of both rows.

1. Lemmas about coverings: normalizing keeps the region (`NormalizeKeepsRegion`),
   so a union covers both parts (`UnionCovers`) even where it is stored as a
   parent cell.
2. The subscription that a put of an operational intent makes or extends supports
   it and all that the former row supported (`SupportSupports`,
   `SupportsMonotone`), also if the bisection misses a cell of an unsorted row:
   the row is then extended by what it already has.
3. Counting notifications changes nothing that matters for support
   (`IncrementCounts`, `CountedSupports`).
4. One lemma per handler, each with the action property `RowsKept` that two more
   theorems need; `NoCascadingDelete` uses the cardinality of the dependents
   of an implicit subscription.
5. `Deconflicted` is inductive with the types.  It rests on the symmetry of the
   overlap that the search computes (`Overlaps4DSymmetric`) and on the search being
   complete (`SearchIsComplete`).
6. `SubscribersInformed` and `EveryOverlapNotified` rest on what a complete search
   notifies: for a write, the subscriptions of the volume left and of the volume
   entered.  An explicit subscription keeps its interest (`SameInterest`) unless its
   owner rewrites it, and its owner is then told anew.

**RID.**  `IInv` adds to the types that no row has a version that a later write will
give to another, and that a row on a collector's list which was not written since has
been expired from then on.  Without the first, a row deleted and created again
could be taken for the one listed.  `SubscriptionLimit` is inductive with `IInv`: a put
counts the live subscriptions of its owner in each cell before it adds one to them, and
time only takes some away.

**MockSCD.**  `Knowledge` says of everything that was learnt of the DSS (by a flight, a
cache, a request at each of its steps) that it is not newer than the DSS, and right if
it is as new; it is kept by every way in which the DSS moves (`DssMoves`).  From it
follows `CacheFaithful`, and that the key which a request creates with names only
versions that it has found free of conflicts.  `OneOwner`, `PromisesKept`, `NotCleared`
and `AllOwned` say who answers for an operational intent: one flight or one request.
The refinement is by simulation: `CreateReference` and what other USSs put or delete
are steps of `Airspace`, all others stutter.  A reference is created only if the key
is complete in the volume or not required, so that nothing the abstract step forbids is
there, although the code's own search and check of conflicts differ from real overlaps.

**ATProxy.**  `QueueIsWaiting` and `AnswersBelong` are inductive together with: a
complete query holds a result that was accepted for it, and a call that is not answered
has no answer.

**Auth.**  A token is kept under the scopes it was issued for, or the names of
audiences; a request carries one for the scopes it asks for that outlasts its sending by
the margin.  For `default_scopes`, `Unwinds`: a session that no function runs with has
no default scopes, unless it is lost, and the outermost function that runs with it has
saved that first.  Inner functions may save something else, and so does the outermost one
for a session given again, which is why the invariant speaks of the first position in the
outermost function.

**TracerPoll.**  A reference is to the newest version when it is read, and what a USS
serves lags at most one version; what was fetched for a reference is kept for this
reference in the cache, so the lag does not grow with the rounds.

**TracerSubscribe.**  What an exit handler has passed is gone, and what it is about to
delete is gone or as it was read.  `Frontier` is the heart of `StopRemoves`: among
handlers that race, a delete that comes second gives up only because another has gone
ahead, so without a setback one always goes on to the end; the master's own, which
runs when the workers are gone, makes up for one setback.  As SCD comes last, a handler
that fails there has been through RID.

**NetRID.**  `IInv` has the types (`TypeInv`), what providers serve at each step of the
scenario (`Served`), how far the clock may be (`Clocks`), and how old things are:
`Rectangle` says that the rectangle in use covered the recent positions at a moment no
earlier than the turns of a round allow, `Answer` what an observer that works has shown,
`End` that the loop runs past the time in which a flight has to be seen.
`FindingsJustified` is inductive with these.  For `SuccessMeansObserved` there is
`Awaited`: while nothing has failed, an observer that has not shown a flight was last
asked too early for the flight to be due, or has its turn still to come in a round that
began soon enough.  When the loop ends, `Frequent` makes that impossible.

**Qualifier.**  The layers:

1. `Made`: resources that wait for each other or for one that is not declared are never
   made, and in a pass that has made nothing, all it came by cannot be made.
2. `Shape`: types, the script and the sweep of the running scenario (`Cleaning`), and
   that the lists on the stack are all right exactly if the reports of the scenarios
   that ended are (`Reports`).
3. `Clean`: as long as no scenario has failed, every flight is hidden, or one whose ID is
   kept and which the cleanup still comes to.
4. `Blameless`: as long as nothing excuses a failure, what is left of the script runs in
   the phases it expects (`Chain`), in the order of the test cases (`Ordered`), with what
   it needs done before (`Prepared`).  This is shown of each scenario's script once, and
   a call takes the first of it away.
5. `Followed`: the lists on the stack nest as the suites do (`Nests`), and if they are all
   right, what they have executed, from the suite down, is what ran (`Ran`,
   `Passed`).  When a list ends, its scenarios are those of the action its parent was at.

`CombinationsComplete` is about a loop: `Increment` is shown to be the successor in the
lexicographic order of role assignments, so that no assignment is skipped and none comes
twice.

What recursive functions compute (the loop of the combinations, `Scenarios`, the sum of
positions, `FlattenSeq`) is proved without an induction rule: the values for which
such a function is not defined, or not as stated, have a least one, on natural numbers
or on a well-founded order of role assignments or suites, and that is refuted.  That the
function exists at all is proved in the same way, by extending functions on the smaller
arguments by one value.

**Interop.**  While a round tests, every assertion so far has held, and the test step
and the request it is at say exactly which entities exist, in which store, deleted or
not (`StoreInv`, `ContextInv`), how long they have to live up to the delay of the round
(`TimeInv`), and which faults would have failed the round by now (`FaultInv`).  In
`cleanUp`, `CleanInv` says what the entries before the present one leave.  A round finds
nothing of its own from earlier ones, since IDs have the round in them.

Every safety property and action property of the passing runs has a theorem, but for
`BlameExplained`, which is only model-checked.  So is liveness (`ExpiredRowsRemoved`,
`EveryCallAnswered`, `ResultForwarded`, `LogCatchesUp`): the prover treats neither
fairness nor `ENABLED`.

## Not modelled

Of the DSS: read-only handlers; requests that fail; USS availability; retries of
transactions and panics; the indices named in responses; authentication; schema-3
stores; the geometry of coverings; startup, migration and the gateway.

Of the monitoring tools: clustering of flights and the injected misbehaviour of the
mock service provider; geo-awareness (parsing and geometry over a plain table); the
web application (a user interface over files and a job queue outside the
repository); simulated flight data (floating point); documentation tools (text);
prober and load test (test cases without logic of their own); deployment.

`PROJECT.json` gives the reason for each component.

## Plan

Done: the DSS's two services, the mock USS with its refinement, atproxy,
authorization, tracer, the qualifier with its scenarios, interoperability; proofs of
all safety properties but `BlameExplained`.

Next, in this order:

1. the retry loop of `Transact`, refined to the atomic actions of `SCD`, with
   `AdjustTimeRange` applied to an already adjusted request and with the
   notification indices of responses;
2. USS availability; the key refresh of `pkg/auth`; startup and cron of the core
   service; migrations of `db-manager`;
3. a proof of `BlameExplained`.
