------------------------------- MODULE MockSCD --------------------------------
(***************************************************************************)
(* Strategic coordination of the mock USS (mock_uss/scdsc): flights are    *)
(* injected, deleted and cleared by concurrent requests, each a sequence   *)
(* of calls to the DSS, to other USSs and of short transactions on the     *)
(* USS's database, a SynchronizedValue that no request holds over a call.  *)
(*                                                                         *)
(* Several mock USSs and other USSs meet in one DSS.  An operational       *)
(* intent in the DSS is a plan with a version that its OVN stands for.     *)
(***************************************************************************)
EXTENDS Vol4, FiniteSets

CONSTANTS
    MockUSSs, OtherUSSs,
    FlightIDs,            \* IDs that clients give to flights, per USS
    OpIDs,                \* operational intent IDs; uuid4 never repeats one
    Intents,              \* InjectFlightRequests
    Areas,                \* volumes that clients clear
    Requests,             \* requests that may run at one time
    MaxRequests,          \* bound: requests in all
    MaxVersion,           \* bound: updates by other USSs
    MaxFailures,          \* bound: calls that fail or whose answer is lost
    None

States == {"Accepted", "Activated", "Nonconforming", "Contingent"}

\* What the DSS has of an operational intent, what a mock USS keeps of a
\* flight, and what it keeps of the operational intents of others
Plan            == [manager : MockUSSs \cup OtherUSSs, intent : Intents, ver : Nat]
FlightRecord    == [op : OpIDs, intent : Intents]
CachedOperation == [intent : Intents, ver : Nat]

ASSUME ConstantsAssumption ==
    /\ MockUSSs \cap OtherUSSs = {}
    /\ {MaxRequests, MaxVersion, MaxFailures} \subseteq Nat
    /\ Intents \subseteq [volumes : Seq(Volume4D), off_nominal_volumes : Seq(Volume4D),
                         priority : Int, state : States, invalid_fields : SUBSET STRING]
    /\ None \notin Plan \cup FlightRecord \cup CachedOperation
    /\ None \notin [manager : MockUSSs \cup OtherUSSs, intent : Intents]

VARIABLES
    dss,       \* [OpIDs -> [manager, intent, ver] or None]
    used,      \* the operational intent IDs given out
    flights,   \* db.flights: [MockUSSs -> [FlightIDs -> [op, intent] or None]]
    cached,    \* db.cached_operations: [MockUSSs -> [OpIDs -> [intent, ver] or None]]
    req,       \* the state of each request
    answers,   \* number of requests so far
    failures,
    promised,  \* history: <<uss, flight, op>> that are planned or about to be
    orphaned   \* history: operational intents that lost their flight

hist == <<promised, orphaned>>
vars == <<dss, used, flights, cached, req, answers, failures, hist>>

Known == {o \in OpIDs : dss[o] # None}

(***************************************************************************)
(* The DSS                                                                 *)
(***************************************************************************)
\* A reference in the answer to a query
Ref(o) == [id |-> o, ver |-> dss[o].ver, manager |-> dss[o].manager]

QueryReferences(area) ==
    {Ref(o) : o \in {o \in Known : AnyOverlap(<<area>>, dss[o].intent.volumes)}}

RequiresKey(state) == state \notin {"Nonconforming", "Contingent"}

\* The key must have the OVN of all that overlaps, unless the state is off-nominal.
\* (The search is taken to be complete, and versions to have different OVNs.)
KeyComplete(intent, key) ==
    RequiresKey(intent.state) =>
        \A o \in Known : AnyOverlap(intent.volumes, dss[o].intent.volumes)
                            => <<o, dss[o].ver>> \in key

Deletable(uss, o, ver) == o \in Known /\ dss[o].manager = uss /\ dss[o].ver = ver

(***************************************************************************)
(* Requests                                                                *)
(***************************************************************************)
Idle == [pc |-> "idle", result |-> None]

Respond(r, result) == req' = [req EXCEPT ![r] = [pc |-> "idle", result |-> result]]

GoTo(r, pc) == req' = [req EXCEPT ![r].pc = pc]

MayFail == failures < MaxFailures
Fail == MayFail /\ failures' = failures + 1

\* The operational intent of a request that is past its creation and not yet
\* in the database, or no longer in it
Holds(r, o) == req[r].pc \in {"notify", "store", "delete", "notifyDeleted"} /\ req[r].op = o

(***************************************************************************)
(* PUT /flights/<flight_id>                                                *)
(***************************************************************************)
problems_with_flight_authorisation(intent) ==
    intent.invalid_fields \cap
        {"serial number", "operator ID", "UAS class", "operation category", "endurance",
         "connectivity methods", "identification technologies", "emergency procedure URL"}

StartInject(r, uss, flight, intent) ==
    /\ req[r].pc = "idle" /\ answers < MaxRequests
    /\ answers' = answers + 1
    /\ IF problems_with_flight_authorisation(intent) # {}
       THEN Respond(r, "Rejected")
       ELSE req' = [req EXCEPT ![r] = [pc |-> "query", uss |-> uss, flight |-> flight,
                intent |-> intent, refs |-> {}, todo |-> {}, got |-> {}, key |-> {},
                op |-> None, result |-> None]]
    /\ UNCHANGED <<dss, used, flights, cached, failures, hist>>

\* query_operational_intent_references
QueryOpIntents(r) ==
    /\ req[r].pc = "query"
    /\ \/ /\ req' = [req EXCEPT ![r].pc = "readCache",
                       ![r].refs = QueryReferences(bounding_vol4(req[r].intent.volumes))]
          /\ UNCHANGED failures
       \/ Fail /\ Respond(r, "Failed")
    /\ UNCHANGED <<dss, used, flights, cached, answers, hist>>

\* Whether the details of a reference must be asked for
NotCached(uss, ref) == cached[uss][ref.id] = None \/ cached[uss][ref.id].ver # ref.ver

ReadCache(r) ==
    /\ req[r].pc = "readCache"
    /\ req' = [req EXCEPT ![r].pc = "details",
                 ![r].todo = {ref \in req[r].refs : NotCached(req[r].uss, ref)}]
    /\ UNCHANGED <<dss, used, flights, cached, answers, failures, hist>>

\* get_operational_intent_details of the managing USS.  A mock USS answers
\* from its flights, whether or not the DSS still has the operational intent.
Details(uss, o) ==
    IF uss \in MockUSSs
    THEN {[id |-> o, intent |-> flights[uss][f].intent, ver |-> 1] :
            f \in {f \in FlightIDs : flights[uss][f] # None /\ flights[uss][f].op = o}}
    ELSE IF o \in Known
         THEN {[id |-> o, intent |-> dss[o].intent, ver |-> dss[o].ver]} ELSE {}

GetDetails(r, ref) ==
    /\ req[r].pc = "details" /\ ref \in req[r].todo
    /\ \/ /\ \E d \in Details(ref.manager, ref.id) :
                req' = [req EXCEPT ![r].todo = @ \ {ref}, ![r].got = @ \cup {d}]
          /\ UNCHANGED failures
       \/ Details(ref.manager, ref.id) = {} /\ Respond(r, "Failed") /\ UNCHANGED failures
       \/ Fail /\ Respond(r, "Failed")
    /\ UNCHANGED <<dss, used, flights, cached, answers, hist>>

\* Mutant: only the reference of a cached entry is renewed
UpdatedReferences(uss, got) ==
    [o \in OpIDs |-> IF \E d \in got : d.id = o
                     THEN LET d == CHOOSE d \in got : d.id = o
                          IN [intent |-> IF cached[uss][o] = None THEN d.intent
                                         ELSE cached[uss][o].intent,
                              ver |-> d.ver]
                     ELSE cached[uss][o]]

\* The cache with the details that were fetched
Updated(uss, got) ==
    [o \in OpIDs |-> IF \E d \in got : d.id = o
                     THEN LET d == CHOOSE d \in got : d.id = o
                          IN [intent |-> d.intent, ver |-> d.ver]
                     ELSE cached[uss][o]]

\* Mutant: only higher priorities are checked
BlocksAbove(other, intent) == intent.priority < other.priority

\* Equal or higher priorities are checked for intersections
Blocks(other, intent) == intent.priority <= other.priority

Check(intent, other) ==
    IF ~Blocks(other, intent) THEN "False"
    ELSE LET nominal == vol4s_intersect(intent.volumes, other.volumes)
         IN  IF nominal # "False" THEN nominal
             ELSE vol4s_intersect(intent.volumes, other.off_nominal_volumes)

\* The transaction on the cache, and the check of what it returns.  An entry
\* that clear_area took out of the cache meanwhile is a KeyError: nothing is
\* committed.
CommitCache(r) ==
    LET uss     == req[r].uss
        cache   == Updated(uss, req[r].got)
        ids     == {ref.id : ref \in req[r].refs}
        outcome == {Check(req[r].intent, cache[o].intent) : o \in ids}
    IN  /\ req[r].pc = "details" /\ req[r].todo = {}
        /\ IF \E o \in ids : cache[o] = None
           THEN Respond(r, "Error") /\ UNCHANGED cached
           ELSE /\ cached' = [cached EXCEPT ![uss] = cache]
                /\ \/ outcome \subseteq {"False"}
                      /\ req' = [req EXCEPT ![r].pc = "create",
                                   ![r].key = {<<o, cache[o].ver>> : o \in ids}]
                   \/ "True" \in outcome /\ Respond(r, "ConflictWithFlight")
                   \/ "ValueError" \in outcome /\ Respond(r, "Error")
        /\ UNCHANGED <<dss, used, flights, answers, failures, hist>>

\* create_operational_intent_reference: refused by the DSS, done, or done
\* with the answer lost
CreateReference(r) ==
    /\ req[r].pc = "create"
    /\ \/ \E o \in OpIDs \ used :
            /\ KeyComplete(req[r].intent, req[r].key)
            /\ used' = used \cup {o}
            /\ dss' = [dss EXCEPT ![o] = [manager |-> req[r].uss,
                                          intent |-> req[r].intent, ver |-> 1]]
            /\ \/ /\ req' = [req EXCEPT ![r].pc = "notify", ![r].op = o]
                  /\ promised' = promised \cup {<<req[r].uss, req[r].flight, o>>}
                  /\ UNCHANGED <<failures, orphaned>>
               \/ /\ Fail /\ Respond(r, "Failed")
                  /\ orphaned' = orphaned \cup {o} /\ UNCHANGED promised
       \/ /\ ~KeyComplete(req[r].intent, req[r].key)
          /\ Respond(r, "Failed") /\ UNCHANGED <<dss, used, failures, hist>>
       \/ Fail /\ Respond(r, "Failed") /\ UNCHANGED <<dss, used, hist>>
    /\ UNCHANGED <<flights, cached, answers>>

\* notify_subscribers stops at the first that fails, outside of any try
Notify(r) ==
    /\ req[r].pc = "notify"
    /\ \/ GoTo(r, "store") /\ UNCHANGED <<failures, hist>>
       \/ /\ Fail /\ Respond(r, "Error")
          /\ promised' = promised \ {<<req[r].uss, req[r].flight, req[r].op>>}
          /\ orphaned' = orphaned \cup {req[r].op}
    /\ UNCHANGED <<dss, used, flights, cached, answers>>

\* A flight of the same ID is replaced
StoreFlight(r) ==
    LET uss == req[r].uss
        flight == req[r].flight
        replaced == IF flights[uss][flight] = None THEN {} ELSE {flights[uss][flight].op}
    IN  /\ req[r].pc = "store"
        /\ flights' = [flights EXCEPT ![uss][flight] =
                          [op |-> req[r].op, intent |-> req[r].intent]]
        /\ Respond(r, "Planned")
        /\ promised' = promised \ ({uss} \X {flight} \X replaced)
        /\ orphaned' = orphaned \cup replaced
        /\ UNCHANGED <<dss, used, cached, answers, failures>>

(***************************************************************************)
(* DELETE /flights/<flight_id>: the flight leaves the database first       *)
(***************************************************************************)
PopFlight(r, uss, flight) ==
    LET record == flights[uss][flight] IN
    /\ req[r].pc = "idle" /\ answers < MaxRequests
    /\ answers' = answers + 1
    /\ flights' = [flights EXCEPT ![uss][flight] = None]
    /\ IF record = None
       THEN Respond(r, "DeleteFailed") /\ UNCHANGED promised
       ELSE /\ req' = [req EXCEPT ![r] = [pc |-> "delete", uss |-> uss,
                                          op |-> record.op, result |-> None]]
            /\ promised' = promised \ {<<uss, flight, record.op>>}
    /\ UNCHANGED <<dss, used, cached, failures, orphaned>>

\* Mutant: the reference is deleted under another version than its own
DeleteOtherVersion(r) ==
    /\ req[r].pc = "delete"
    /\ Respond(r, "DeleteFailed")
    /\ UNCHANGED <<dss, used, flights, cached, answers, failures, hist>>

DeleteReference(r) ==
    LET o == req[r].op IN
    /\ req[r].pc = "delete"
    /\ \/ /\ Deletable(req[r].uss, o, 1)
          /\ dss' = [dss EXCEPT ![o] = None]
          /\ \/ GoTo(r, "notifyDeleted") /\ UNCHANGED failures
             \/ Fail /\ Respond(r, "DeleteFailed")
          /\ UNCHANGED orphaned
       \/ /\ ~Deletable(req[r].uss, o, 1)
          /\ Respond(r, "DeleteFailed") /\ UNCHANGED <<dss, failures, orphaned>>
       \/ /\ Fail /\ Respond(r, "DeleteFailed") /\ UNCHANGED dss
          /\ orphaned' = orphaned \cup {o}
    /\ UNCHANGED <<used, flights, cached, answers, promised>>

NotifyDeleted(r) ==
    /\ req[r].pc = "notifyDeleted"
    /\ \/ Respond(r, "Closed") /\ UNCHANGED failures
       \/ Fail /\ Respond(r, "Error")
    /\ UNCHANGED <<dss, used, flights, cached, answers, hist>>

(***************************************************************************)
(* POST /clear_area_requests                                               *)
(***************************************************************************)
StartClear(r, uss, area) ==
    /\ req[r].pc = "idle" /\ answers < MaxRequests
    /\ answers' = answers + 1
    /\ promised' = {p \in promised : p[1] # uss}
    /\ \/ /\ req' = [req EXCEPT ![r] = [pc |-> "clear", uss |-> uss,
                       refs |-> QueryReferences(bounding_vol4(<<area>>)),
                       deleted |-> {}, result |-> None]]
          /\ UNCHANGED failures
       \/ Fail /\ Respond(r, "NotCleared")
    /\ UNCHANGED <<dss, used, flights, cached, orphaned>>

\* One call per reference; an answer other than 200 is noted and the next one
\* is tried, a call that fails ends the request.
ClearReference(r, ref) ==
    /\ req[r].pc = "clear" /\ ref \in req[r].refs
    /\ \/ /\ Deletable(req[r].uss, ref.id, ref.ver)
          /\ dss' = [dss EXCEPT ![ref.id] = None]
          /\ \/ /\ req' = [req EXCEPT ![r].refs = @ \ {ref}, ![r].deleted = @ \cup {ref.id}]
                /\ UNCHANGED failures
             \/ Fail /\ Respond(r, "Error")
       \/ /\ ~Deletable(req[r].uss, ref.id, ref.ver)
          /\ req' = [req EXCEPT ![r].refs = @ \ {ref}]
          /\ UNCHANGED <<dss, failures>>
       \/ Fail /\ Respond(r, "Error") /\ UNCHANGED dss
    /\ UNCHANGED <<used, flights, cached, answers, hist>>

\* Mutant: all flights go, not only those whose reference was deleted
CommitClearAll(r) ==
    /\ req[r].pc = "clear" /\ req[r].refs = {}
    /\ flights' = [flights EXCEPT ![req[r].uss] = [f \in FlightIDs |-> None]]
    /\ cached' = [cached EXCEPT ![req[r].uss] = [o \in OpIDs |-> None]]
    /\ Respond(r, "Cleared")
    /\ UNCHANGED <<dss, used, answers, failures, hist>>

CommitClear(r) ==
    LET uss == req[r].uss
        Deleted(record) == record # None /\ record.op \in req[r].deleted
    IN  /\ req[r].pc = "clear" /\ req[r].refs = {}
        /\ flights' = [flights EXCEPT ![uss] =
                        [f \in FlightIDs |-> IF Deleted(@[f]) THEN None ELSE @[f]]]
        /\ cached' = [cached EXCEPT ![uss] =
                        [o \in OpIDs |-> IF o \in req[r].deleted THEN None ELSE @[o]]]
        /\ Respond(r, "Cleared")
        /\ UNCHANGED <<dss, used, answers, failures, hist>>

(***************************************************************************)
(* Other USSs keep to the DSS's rules and to no more.  What they put has   *)
(* no flight authorisation.                                                *)
(***************************************************************************)
PutElsewhere(o, uss, intent) ==
    /\ intent.invalid_fields = {}
    /\ o \in used => o \in Known /\ dss[o].manager = uss /\ dss[o].ver < MaxVersion
    /\ used' = used \cup {o}
    /\ dss' = [dss EXCEPT ![o] = [manager |-> uss, intent |-> intent,
                                  ver |-> IF o \in Known THEN @.ver + 1 ELSE 1]]
    /\ UNCHANGED <<flights, cached, req, answers, failures, hist>>

DeleteElsewhere(o) ==
    /\ o \in Known /\ dss[o].manager \in OtherUSSs
    /\ dss' = [dss EXCEPT ![o] = None]
    /\ UNCHANGED <<used, flights, cached, req, answers, failures, hist>>

Init ==
    /\ dss = [o \in OpIDs |-> None]
    /\ used = {}
    /\ flights = [u \in MockUSSs |-> [f \in FlightIDs |-> None]]
    /\ cached = [u \in MockUSSs |-> [o \in OpIDs |-> None]]
    /\ req = [r \in Requests |-> Idle]
    /\ answers = 0
    /\ failures = 0
    /\ promised = {}
    /\ orphaned = {}

InjectStep(r) ==
    \/ QueryOpIntents(r) \/ ReadCache(r) \/ CommitCache(r)
    \/ CreateReference(r) \/ Notify(r) \/ StoreFlight(r)
    \/ req[r].pc = "details" /\ \E ref \in req[r].todo : GetDetails(r, ref)

DeleteStep(r) == DeleteReference(r) \/ NotifyDeleted(r)

ClearStep(r) ==
    \/ req[r].pc = "clear" /\ \E ref \in req[r].refs : ClearReference(r, ref)
    \/ CommitClear(r)

Step(r) == InjectStep(r) \/ DeleteStep(r) \/ ClearStep(r)

Client(r) ==
    \E uss \in MockUSSs :
        \/ \E flight \in FlightIDs, intent \in Intents : StartInject(r, uss, flight, intent)
        \/ \E flight \in FlightIDs : PopFlight(r, uss, flight)
        \/ \E area \in Areas : StartClear(r, uss, area)

Elsewhere ==
    \/ \E o \in OpIDs, uss \in OtherUSSs, intent \in Intents : PutElsewhere(o, uss, intent)
    \/ \E o \in OpIDs : DeleteElsewhere(o)

\* Nothing more to do once the bounds are reached
Done == ((\A r \in Requests : req[r].pc = "idle") \/ used = OpIDs) /\ UNCHANGED vars

Next == (\E r \in Requests : Client(r) \/ Step(r)) \/ Elsewhere \/ Done

Spec == Init /\ [][Next]_vars

-----------------------------------------------------------------------------
(***************************************************************************)
(* What a request plans stays in the DSS and, once stored, can be asked    *)
(* for at the USS, until a client deletes, replaces or clears it: no other *)
(* request, USS or failed call takes it away (routes_injection.py:211-219, *)
(* routes_scdsc.py:17-50).                                                 *)
(***************************************************************************)
PlannedRetrievable ==
    \A p \in promised :
        /\ p[3] \in Known
        /\ \/ Details(p[1], p[3]) # {}
           \/ \E r \in Requests : Holds(r, p[3])

(***************************************************************************)
(* An operational intent that a mock USS has in the DSS belongs to a       *)
(* flight or to a running request, unless a failed call or the injection   *)
(* of another flight of the same ID cut it off: nothing else leaves        *)
(* airspace blocked by an operational intent whose details nobody gives    *)
(* (routes_injection.py:178-219, 231-251, 313-330).                        *)
(***************************************************************************)
Accounted ==
    \A o \in Known : dss[o].manager \in MockUSSs =>
        \/ Details(dss[o].manager, o) # {}
        \/ \E r \in Requests : Holds(r, o)
        \/ o \in orphaned

(***************************************************************************)
(* Details cached under the version that the DSS has are the current ones, *)
(* so that comparing versions is enough (routes_injection.py:46-53).       *)
(***************************************************************************)
CacheFaithful ==
    \A u \in MockUSSs, o \in OpIDs :
        cached[u][o] # None /\ dss[o] # None /\ cached[u][o].ver = dss[o].ver
            => cached[u][o].intent = dss[o].intent

(***************************************************************************)
(* The mock USSs keep the airspace's promise: an operational intent enters *)
(* the DSS only if nothing of its priority or a higher one is in its       *)
(* volumes at that moment, however long ago the request read the DSS, its  *)
(* cache and the details (routes_injection.py:123-181).  The client gives  *)
(* the state (line 167); for an off-nominal one the DSS asks for no key    *)
(* (operational_intents_handler.go:426), and nothing is promised: what     *)
(* came in since the request read the DSS is planned over.                 *)
(***************************************************************************)
Conflicts(intent, other) ==
    /\ RequiresKey(intent.state)
    /\ intent.priority <= other.priority /\ AnyOverlap(intent.volumes, other.volumes)

planned ==
    [o \in OpIDs |-> IF dss[o] = None THEN None
                     ELSE [manager |-> dss[o].manager, intent |-> dss[o].intent]]

A == INSTANCE Airspace WITH PlanIDs <- OpIDs, Coordinated <- MockUSSs,
                            Others <- OtherUSSs, plans <- planned

ImplementsAirspace == A!AirspaceSpec

=============================================================================
