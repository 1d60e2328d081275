--------------------------------- MODULE SCD ---------------------------------
(***************************************************************************)
(* Strategic conflict detection (SCD), the part of the DSS that keeps      *)
(* operational intent references, constraint references and subscriptions  *)
(* in one CockroachDB database shared by all DSS instances of a region     *)
(* (pkg/scd, pkg/scd/models, pkg/scd/store/cockroach).                     *)
(*                                                                         *)
(* Every handler runs one closure inside Store.Transact, a serializable    *)
(* transaction, so one action is one committed request.  A request that    *)
(* fails any check rolls back and changes nothing: it is a stuttering step.*)
(*                                                                         *)
(* One unit of now is one second, the resolution of the RFC3339 timestamp  *)
(* that OVNs and subscription versions are hashed from.                    *)
(***************************************************************************)
EXTENDS Integers, FiniteSets, S2, CRDB

CONSTANTS
    Managers,       \* USSs, as named by their access tokens
    OpIDs,          \* entity IDs of operational intents
    ConstraintIDs,  \* entity IDs of constraints
    SubIDs,         \* subscription IDs, explicit and implicit
    Extents,        \* volumes a USS asks for an operational intent or constraint
    SubExtents,     \* volumes a USS asks for a subscription
    RequestStates,  \* states a USS asks for
    Triggers,       \* pairs (for operational intents, for constraints) it asks for
    MaxClockSkew,             \* how far in the past a subscription may start
    MaxSubscriptionDuration,  \* longest subscription
    MaxStartGap,              \* the 5 minutes of ValidateDependentOp
    MaxTime,        \* bound: last second explored
    MaxVersion,     \* bound: updates of one entity
    MaxIndex        \* bound: notification index at which puts stop

VARIABLES
    now,    \* the database's clock, in seconds
    ops,    \* table scd_operations
    cons,   \* table scd_constraints
    subs,   \* table scd_subscriptions
    told,   \* what responses and notifications told each subscription's owner:
            \* the version of every entity relevant to it, 0 for none
    aware   \* the operational intents whose present version was proved known,
            \* by the key, when an operational intent was last written

vars == <<now, ops, cons, subs, told, aware>>

Entities == OpIDs \cup ConstraintIDs

States == {"Accepted", "Activated", "Nonconforming", "Contingent"}

RequiresKey(state) == state \notin {"Nonconforming", "Contingent"}

Volume4D == [cells : SUBSET Cells, altLo : Int, altHi : Int,
             start : Nat, end : Nat]

OperationalIntent ==
    [manager : Managers, version : Nat, state : States, vol : Volume4D,
     subscriptionID : SubIDs, updatedAt : Nat]

Constraint ==
    [manager : Managers, version : Nat, vol : Volume4D, updatedAt : Nat]

\* sorted: the cells are stored in S2 order, as CellUnion.Contains expects
Subscription ==
    [manager : Managers, index : Nat, start : Nat, end : Nat,
     cells : SUBSET (Cells \cup Parents), sorted : BOOLEAN,
     forOps : BOOLEAN, forCons : BOOLEAN, implicit : BOOLEAN,
     updatedAt : Nat]

ASSUME ExtentsAssumption ==
    /\ Extents \subseteq Volume4D
    /\ SubExtents \subseteq
           [cells : SUBSET Cells, altLo : Int, altHi : Int,
            start : Nat \cup {None}, end : Nat \cup {None}]
    /\ RequestStates \subseteq States
    /\ Triggers \subseteq BOOLEAN \X BOOLEAN

ASSUME BoundsAssumption ==
    /\ MaxClockSkew \in Nat
    /\ MaxSubscriptionDuration \in Nat
    /\ MaxStartGap \in Nat
    /\ MaxTime \in Nat
    /\ MaxVersion \in Nat
    /\ MaxIndex \in Nat

ASSUME TableAssumption ==
    IsFiniteSet(OpIDs) /\ IsFiniteSet(ConstraintIDs) /\ IsFiniteSet(SubIDs)

ASSUME NamesAssumption ==
    /\ OpIDs \cap ConstraintIDs = {}
    /\ None \notin OperationalIntent \cup Constraint \cup Subscription
    /\ None \notin SubIDs \cup Nat

-----------------------------------------------------------------------------
(***************************************************************************)
(* Volumes, coverings and searches                                         *)
(***************************************************************************)

Lower(a, b) == IF a <= b THEN a ELSE b
Upper(a, b) == IF a <= b THEN b ELSE a

UnionVolumes4D(v, w) ==
    [cells |-> v.cells \cup w.cells,
     altLo |-> Lower(v.altLo, w.altLo), altHi |-> Upper(v.altHi, w.altHi),
     start |-> Lower(v.start, w.start), end   |-> Upper(v.end, w.end)]

\* Contains is a binary search: on cells stored out of order it may miss one
ContainsOutcomes(sub, cells) ==
    {Contains(sub.cells, cells)} \cup (IF sub.sorted THEN {} ELSE {FALSE})

TimesOverlap(x, y) == x.start <= y.end /\ x.end >= y.start

\* The SQL operator && compares cell IDs, whatever their levels
CellsOverlap(x, y) == x.cells \cap y.cells # {}

AltitudesOverlap(v, w) == v.altHi >= w.altLo /\ v.altLo <= w.altHi

Overlaps4D(v, w) ==
    CellsOverlap(v, w) /\ TimesOverlap(v, w) /\ AltitudesOverlap(v, w)

Overlaps(x, y) == CellsOverlap(x, y) /\ TimesOverlap(x, y)

\* Mutant: volumes that only touch in altitude are not found
SearchOperationalIntentsStrictly(v) ==
    Limited({o \in OpIDs :
                /\ ops[o] # None
                /\ Overlaps(ops[o].vol, v)
                /\ ops[o].vol.altHi > v.altLo /\ ops[o].vol.altLo < v.altHi})

SearchOperationalIntents(v) ==
    Limited({o \in OpIDs : ops[o] # None /\ Overlaps4D(ops[o].vol, v)})

SearchConstraints(v) ==
    Limited({c \in ConstraintIDs : cons[c] # None /\ Overlaps(cons[c].vol, v)})

\* Mutant: a subscription that begins after the volume does is not found
SearchSubscriptionsBegun(table, v) ==
    Limited({s \in SubIDs :
                /\ table[s] # None
                /\ CellsOverlap(table[s], v)
                /\ table[s].start <= v.start /\ table[s].end >= v.start})

SearchSubscriptions(table, v) ==
    Limited({s \in SubIDs : table[s] # None /\ Overlaps(table[s], v)})

GetDependentOperationalIntents(s) ==
    {o \in OpIDs : ops[o] # None /\ ops[o].subscriptionID = s}

\* NewOVNFromTime: a hash of the ID and the second of the last update
OVN(id, row) == <<id, row.updatedAt>>

CurrentOVNs ==
    {OVN(o, ops[o]) : o \in {x \in OpIDs : ops[x] # None}} \cup
    {OVN(c, cons[c]) : c \in {x \in ConstraintIDs : cons[x] # None}}

-----------------------------------------------------------------------------
(***************************************************************************)
(* What clients are told                                                   *)
(***************************************************************************)

IncrementNotificationIndices(table, notified) ==
    [s \in SubIDs |->
        IF s \in notified THEN [table[s] EXCEPT !.index = @ + 1] ELSE table[s]]

\* The version of an entity as far as a subscription is concerned
RelevantVersion(sub, row) ==
    IF row # None /\ Overlaps(sub, row.vol) THEN row.version ELSE 0

\* The notifications the writer of e owes to the subscribers in its response
NotifySubscribers(table, notified, e, row) ==
    [s \in SubIDs |->
        IF s \in notified
        THEN [told[s] EXCEPT ![e] = RelevantVersion(table[s], row)]
        ELSE told[s]]

Nothing == [e \in Entities |-> 0]

-----------------------------------------------------------------------------
(***************************************************************************)
(* Operational intents                                                     *)
(***************************************************************************)

\* The implicit subscription made for an operational intent without one
NewImplicitSubscription(m, ext, forCons, sorted) ==
    [manager |-> m, index |-> 0, start |-> ext.start, end |-> ext.end,
     cells |-> ext.cells, sorted |-> sorted, forOps |-> TRUE,
     forCons |-> forCons, implicit |-> TRUE, updatedAt |-> now]

\* The result of making an implicit subscription cover ext
ExtendedSubscription(sub, ext, contains) ==
    IF sub.start <= ext.start /\ sub.end >= ext.end /\ contains
    THEN sub
    ELSE [manager |-> sub.manager, index |-> sub.index,
          start |-> Lower(sub.start, ext.start), end |-> Upper(sub.end, ext.end),
          cells |-> IF contains THEN sub.cells
                    ELSE CellUnionFromUnion(sub.cells, ext.cells),
          sorted |-> IF contains THEN sub.sorted ELSE TRUE,
          forOps |-> sub.forOps, forCons |-> sub.forCons,
          implicit |-> sub.implicit, updatedAt |-> now]

\* The subscriptions that may come to support an operational intent
SupportingSubscriptions(m, ext, subID, forCons) ==
    IF subID = None
    THEN {[id |-> s, sub |-> NewImplicitSubscription(m, ext, forCons, sorted)] :
             s \in {x \in SubIDs : subs[x] = None},
             sorted \in {b \in BOOLEAN : b \/ Cardinality(ext.cells) > 1}}
    ELSE {[id |-> subID, sub |-> ExtendedSubscription(subs[subID], ext, contains)] :
             contains \in
                 {b \in BOOLEAN :
                     /\ subs[subID] # None
                     /\ subs[subID].manager = m
                     /\ b \in ContainsOutcomes(subs[subID], ext.cells)
                     /\ \/ subs[subID].implicit
                        \/ /\ subs[subID].start <= ext.start
                           /\ subs[subID].end >= ext.end
                           /\ b}}

\* Mutant: the area an entity leaves is not notified
NotifyNewVolume(old, ext) == ext

\* The affected volume: the new one and, on an update, the old one
NotifyVolume(old, ext) ==
    IF old = None THEN ext ELSE UnionVolumes4D(ext, old.vol)

\* The old row agrees with the version the client names (None to create)
VersionMatches(m, id, old, ovn) ==
    IF old = None THEN ovn = None ELSE old.manager = m /\ OVN(id, old) = ovn

NextVersion(old) == IF old = None THEN 1 ELSE old.version + 1

MissingOperationalIntents(found, key) == {o \in found : OVN(o, ops[o]) \notin key}

MissingConstraints(found, key) == {c \in found : OVN(c, cons[c]) \notin key}

\* CreateOperationalIntentReference (ovn = None) and UpdateOperationalIntentReference
PutOperationalIntentReference(m, id, ovn, state, ext, subID, forCons, key) ==
    /\ ext.end >= now
    /\ ext.start < ext.end
    /\ ext.cells # {}
    /\ ovn = None => state = "Accepted"
    /\ VersionMatches(m, id, ops[id], ovn)
    /\ NextVersion(ops[id]) <= MaxVersion
    /\ \E support \in SupportingSubscriptions(m, ext, subID, forCons),
          found \in SearchOperationalIntents(ext),
          foundCons \in SearchConstraints(ext) :
         LET op == [manager |-> m, version |-> NextVersion(ops[id]),
                    state |-> state, vol |-> ext,
                    subscriptionID |-> support.id, updatedAt |-> now]
             stored == [subs EXCEPT ![support.id] = support.sub]
         IN  /\ RequiresKey(state) =>
                    /\ MissingOperationalIntents(found, key) = {}
                    /\ support.sub.forCons =>
                           MissingConstraints(foundCons, key) = {}
             /\ \E hits \in SearchSubscriptions(stored, NotifyVolume(ops[id], ext)) :
                  LET notified == {s \in hits : stored[s].forOps}
                  IN  /\ \A s \in notified : stored[s].index < MaxIndex
                      /\ subs' = IncrementNotificationIndices(stored, notified)
                      /\ told' = NotifySubscribers(stored, notified, id, op)
             /\ ops' = [ops EXCEPT ![id] = op]
             /\ aware' = [o \in OpIDs |->
                             IF o # id THEN aware[o] \ {id}
                             ELSE IF ~RequiresKey(state) THEN {}
                             ELSE {x \in found \ {id} : OVN(x, ops[x]) \in key}]
    /\ UNCHANGED <<now, cons>>

\* scd_operations references scd_subscriptions ON DELETE CASCADE
CascadeDelete(s) ==
    [o \in OpIDs |-> IF o \in GetDependentOperationalIntents(s) THEN None ELSE ops[o]]

\* Mutant: any operational intent takes its implicit subscription with it
RemovesAnyImplicitSubscription(s) == subs[s].implicit

\* Only the last operational intent takes its implicit subscription with it
RemovesImplicitSubscription(s) ==
    subs[s].implicit /\ Cardinality(GetDependentOperationalIntents(s)) = 1

DeleteOperationalIntentReference(m, id) ==
    /\ ops[id] # None
    /\ ops[id].manager = m
    /\ LET s == ops[id].subscriptionID
       IN  /\ subs[s] # None
           /\ \E hits \in SearchSubscriptions(subs, ops[id].vol) :
                LET notified == {x \in hits : subs[x].forOps}
                    counted == IncrementNotificationIndices(subs, notified)
                    informed == NotifySubscribers(subs, notified, id, None)
                    gone == IF RemovesImplicitSubscription(s) THEN {s} ELSE {}
                IN  /\ subs' = [x \in SubIDs |->
                                   IF x \in gone THEN None ELSE counted[x]]
                    /\ told' = [x \in SubIDs |->
                                   IF x \in gone THEN Nothing ELSE informed[x]]
    /\ ops' = [o \in OpIDs |->
                  IF o = id THEN None
                  ELSE IF RemovesImplicitSubscription(ops[id].subscriptionID)
                  THEN CascadeDelete(ops[id].subscriptionID)[o]
                  ELSE ops[o]]
    /\ aware' = [o \in OpIDs |-> IF o = id THEN {} ELSE aware[o] \ {id}]
    /\ UNCHANGED <<now, cons>>

-----------------------------------------------------------------------------
(***************************************************************************)
(* Constraints                                                             *)
(***************************************************************************)

PutConstraintReference(m, id, ovn, ext) ==
    /\ ext.start < ext.end
    /\ ext.cells # {}
    /\ VersionMatches(m, id, cons[id], ovn)
    /\ NextVersion(cons[id]) <= MaxVersion
    /\ LET constraint == [manager |-> m, version |-> NextVersion(cons[id]),
                          vol |-> ext, updatedAt |-> now]
       IN  /\ \E hits \in SearchSubscriptions(subs, NotifyVolume(cons[id], ext)) :
                LET notified == {s \in hits : subs[s].forCons}
                IN  /\ \A s \in notified : subs[s].index < MaxIndex
                    /\ subs' = IncrementNotificationIndices(subs, notified)
                    /\ told' = NotifySubscribers(subs, notified, id, constraint)
           /\ cons' = [cons EXCEPT ![id] = constraint]
    /\ UNCHANGED <<now, ops, aware>>

DeleteConstraintReference(m, id) ==
    /\ cons[id] # None
    /\ cons[id].manager = m
    /\ \E hits \in SearchSubscriptions(subs, cons[id].vol) :
         LET notified == {s \in hits : subs[s].forCons}
         IN  /\ subs' = IncrementNotificationIndices(subs, notified)
             /\ told' = NotifySubscribers(subs, notified, id, None)
    /\ cons' = [cons EXCEPT ![id] = None]
    /\ UNCHANGED <<now, ops, aware>>

-----------------------------------------------------------------------------
(***************************************************************************)
(* Subscriptions                                                           *)
(***************************************************************************)

\* Mutant: the default start is put back by the tolerated clock skew
BackdatedStart(old, req) ==
    IF req.start # None THEN req.start
    ELSE IF old = None THEN now - MaxClockSkew ELSE old.start

\* AdjustTimeRange: the times a subscription request comes to mean
AdjustedStart(old, req) ==
    IF req.start # None THEN req.start ELSE IF old = None THEN now ELSE old.start

AdjustedEnd(old, req) ==
    IF req.end # None THEN req.end
    ELSE IF old # None THEN old.end
    ELSE AdjustedStart(old, req) + MaxSubscriptionDuration

\* The table's CHECK (starts_at < ends_at) also refuses an empty time range
AdjustTimeRange(old, req) ==
    /\ req.start # None => now - req.start <= MaxClockSkew
    /\ AdjustedStart(old, req) < AdjustedEnd(old, req)
    /\ AdjustedEnd(old, req) - AdjustedStart(old, req) <= MaxSubscriptionDuration

\* Mutant: a subscription may be moved away from what depends on it
ValidateDependentOpTimes(sub, req, op) ==
    /\ sub.start - op.vol.start <= MaxStartGap
    /\ op.vol.end <= sub.end

\* The request's altitudes are compared, and then not stored
ValidateDependentOp(sub, req, op) ==
    /\ Contains(sub.cells, op.vol.cells)
    /\ op.vol.altLo >= req.altLo /\ op.vol.altHi <= req.altHi
    /\ sub.start - op.vol.start <= MaxStartGap
    /\ op.vol.end <= sub.end

\* Mutant: an update does not carry the notification index over
RestartedSubscription(m, old, req, forOps, forCons) ==
    [manager |-> m, index |-> 0,
     start |-> AdjustedStart(old, req), end |-> AdjustedEnd(old, req),
     cells |-> req.cells, sorted |-> TRUE, forOps |-> forOps,
     forCons |-> forCons, implicit |-> FALSE, updatedAt |-> now]

RequestedSubscription(m, old, req, forOps, forCons) ==
    [manager |-> m, index |-> IF old = None THEN 0 ELSE old.index,
     start |-> AdjustedStart(old, req), end |-> AdjustedEnd(old, req),
     cells |-> req.cells, sorted |-> TRUE, forOps |-> forOps,
     forCons |-> forCons, implicit |-> FALSE, updatedAt |-> now]

\* The stored row has no altitudes, so those of the search are NULL: any match
FindRelevantOperations(sub) ==
    Limited({o \in OpIDs : ops[o] # None /\ Overlaps(ops[o].vol, sub)})

\* Mutant: a constraint that ends when the subscription begins is not found
FindLaterConstraints(req) ==
    Limited({c \in ConstraintIDs :
                /\ cons[c] # None
                /\ CellsOverlap(cons[c].vol, req)
                /\ req.end # None => cons[c].vol.start <= req.end
                /\ req.start # None => cons[c].vol.end > req.start})

\* SearchConstraints is given the request, whose omitted times match any
FindRelevantConstraints(req) ==
    Limited({c \in ConstraintIDs :
                /\ cons[c] # None
                /\ CellsOverlap(cons[c].vol, req)
                /\ req.end # None => cons[c].vol.start <= req.end
                /\ req.start # None => cons[c].vol.end >= req.start})

PutSubscriptionResponse(sub, foundOps, foundCons) ==
    [e \in Entities |->
        IF e \in foundOps /\ sub.forOps THEN RelevantVersion(sub, ops[e])
        ELSE IF e \in foundCons /\ sub.forCons THEN RelevantVersion(sub, cons[e])
        ELSE 0]

\* CreateSubscription (version = None) and UpdateSubscription
PutSubscription(m, s, version, req, forOps, forCons) ==
    /\ forOps \/ forCons
    /\ req.cells = {} => ~forCons  \* SearchConstraints needs a footprint
    /\ AdjustTimeRange(subs[s], req)
    /\ VersionMatches(m, s, subs[s], version)
    /\ subs[s] # None => subs[s].index < MaxIndex
    /\ LET sub == RequestedSubscription(m, subs[s], req, forOps, forCons)
       IN  /\ subs[s] # None =>
                  \A o \in GetDependentOperationalIntents(s) :
                      ValidateDependentOp(sub, req, ops[o])
           /\ subs' = [subs EXCEPT ![s] = sub]
           /\ \E foundOps \in FindRelevantOperations(sub),
                 foundCons \in FindRelevantConstraints(req) :
                told' = [told EXCEPT
                           ![s] = PutSubscriptionResponse(sub, foundOps, foundCons)]
    /\ UNCHANGED <<now, ops, cons, aware>>

DeleteSubscription(m, s) ==
    /\ subs[s] # None
    /\ subs[s].manager = m
    /\ GetDependentOperationalIntents(s) = {}
    /\ subs' = [subs EXCEPT ![s] = None]
    /\ told' = [told EXCEPT ![s] = Nothing]
    /\ ops' = CascadeDelete(s)
    /\ UNCHANGED <<now, cons, aware>>

-----------------------------------------------------------------------------
Tick ==
    /\ now < MaxTime
    /\ now' = now + 1
    /\ UNCHANGED <<ops, cons, subs, told, aware>>

Init ==
    /\ now = 0
    /\ ops = [o \in OpIDs |-> None]
    /\ cons = [c \in ConstraintIDs |-> None]
    /\ subs = [s \in SubIDs |-> None]
    /\ told = [s \in SubIDs |-> Nothing]
    /\ aware = [o \in OpIDs |-> {}]

\* The versions a client may name: none, or one issued up to now
NamedVersions(id) == {None} \cup {<<id, t>> : t \in 0..now}

PutAnyOperationalIntent ==
    \E m \in Managers, id \in OpIDs, state \in RequestStates, ext \in Extents,
       subID \in SubIDs \cup {None}, trigger \in Triggers,
       key \in SUBSET CurrentOVNs :
        \E ovn \in NamedVersions(id) :
            PutOperationalIntentReference(m, id, ovn, state, ext, subID, trigger[2], key)

DeleteAnyOperationalIntent ==
    \E m \in Managers, id \in OpIDs : DeleteOperationalIntentReference(m, id)

PutAnyConstraint ==
    \E m \in Managers, id \in ConstraintIDs, ext \in Extents :
        \E ovn \in NamedVersions(id) : PutConstraintReference(m, id, ovn, ext)

DeleteAnyConstraint ==
    \E m \in Managers, id \in ConstraintIDs : DeleteConstraintReference(m, id)

PutAnySubscription ==
    \E m \in Managers, s \in SubIDs, req \in SubExtents, trigger \in Triggers :
        \E version \in NamedVersions(s) :
            PutSubscription(m, s, version, req, trigger[1], trigger[2])

DeleteAnySubscription ==
    \E m \in Managers, s \in SubIDs : DeleteSubscription(m, s)

Next ==
    \/ PutAnyOperationalIntent
    \/ DeleteAnyOperationalIntent
    \/ PutAnyConstraint
    \/ DeleteAnyConstraint
    \/ PutAnySubscription
    \/ DeleteAnySubscription
    \/ Tick

Spec == Init /\ [][Next]_vars

-----------------------------------------------------------------------------
(***************************************************************************)
(* Properties                                                              *)
(***************************************************************************)

(***************************************************************************)
(* The rows of the three tables of pkg/scd have their types: operational   *)
(* intents and constraints are stored as level-13 cells with non-negative  *)
(* times, whichever handler wrote them and whatever the request left out.  *)
(***************************************************************************)
TypeOK ==
    /\ now \in Nat
    /\ ops \in [OpIDs -> OperationalIntent \cup {None}]
    /\ cons \in [ConstraintIDs -> Constraint \cup {None}]
    /\ subs \in [SubIDs -> Subscription \cup {None}]
    /\ told \in [SubIDs -> [Entities -> Nat]]
    /\ aware \in [OpIDs -> SUBSET OpIDs]

\* Sub, the subscription an operational intent names, supports it
Supports(sub, op) ==
    /\ sub # None
    /\ sub.manager = op.manager
    /\ Contains(sub.cells, op.vol.cells)
    /\ sub.start <= op.vol.start + MaxStartGap
    /\ op.vol.end <= sub.end

(***************************************************************************)
(* Whatever sequence of requests created, extended, shrank or deleted      *)
(* subscriptions, the subscription of every stored operational intent is   *)
(* there, belongs to the same manager, covers its area and lasts until it  *)
(* ends (operational_intents_handler.go:380-424 checks it when the         *)
(* operational intent is written, subscriptions.go:124-166 when the        *)
(* subscription is).                                                       *)
(***************************************************************************)
DependentsCovered ==
    \A o \in OpIDs : ops[o] # None => Supports(subs[ops[o].subscriptionID], ops[o])

\* What the owner of a subscription ought to know of an entity
DuePicture(sub, e) ==
    IF e \in OpIDs
    THEN IF sub.forOps THEN RelevantVersion(sub, ops[e]) ELSE 0
    ELSE IF sub.forCons THEN RelevantVersion(sub, cons[e]) ELSE 0

(***************************************************************************)
(* The owner of an explicit subscription who applied the answer to its     *)
(* last PutSubscription and every notification since then has exactly the  *)
(* DSS's picture of the subscribed volume: every relevant entity at its    *)
(* present version, and no entity that left or was deleted.                *)
(***************************************************************************)
SubscribersInformed ==
    \A s \in SubIDs :
        subs[s] # None /\ ~subs[s].implicit =>
            \A e \in Entities : told[s][e] = DuePicture(subs[s], e)

(***************************************************************************)
(* Of two planned or active operational intents that overlap in space,     *)
(* altitude and time, one was written with a key that proved its manager   *)
(* knew the other's present version (the key check,                        *)
(* operational_intents_handler.go:426-474).                                *)
(***************************************************************************)
Deconflicted ==
    \A o1, o2 \in OpIDs :
        /\ o1 # o2
        /\ ops[o1] # None /\ RequiresKey(ops[o1].state)
        /\ ops[o2] # None /\ RequiresKey(ops[o2].state)
        /\ Overlaps4D(ops[o1].vol, ops[o2].vol)
        => o2 \in aware[o1] \/ o1 \in aware[o2]

\* The subscribed area, whatever the level of the cells it is stored as
AreaOverlaps(sub, vol) ==
    Region(sub.cells) \cap vol.cells # {} /\ TimesOverlap(sub, vol)

Affects(sub, old, new) ==
    \/ old # None /\ AreaOverlaps(sub, old.vol)
    \/ new # None /\ AreaOverlaps(sub, new.vol)

(***************************************************************************)
(* A step that creates, changes or deletes an entity counts a notification *)
(* for every subscription, explicit or implicit, that wants such entities  *)
(* and overlaps the entity before or after the change                      *)
(* (operational_intents_handler.go:498-542, constraints_handler.go:241-298)*)
(* and is stored in cells of level 13.  An implicit subscription that was  *)
(* extended may be stored in coarser cells (CellUnionFromUnion), which the *)
(* search's comparison of cell identifiers does not find.                  *)
(***************************************************************************)
EveryOverlapNotified ==
    [][\A s \in SubIDs :
         subs[s] # None /\ subs'[s] # None /\ subs'[s].cells \subseteq Cells =>
            /\ \A o \in OpIDs :
                  /\ ops'[o] # ops[o]
                  /\ subs[s].forOps
                  /\ Affects(subs[s], ops[o], ops'[o])
                  => subs'[s].index = subs[s].index + 1
            /\ \A c \in ConstraintIDs :
                  /\ cons'[c] # cons[c]
                  /\ subs[s].forCons
                  /\ Affects(subs[s], cons[c], cons'[c])
                  => subs'[s].index = subs[s].index + 1]_vars

(***************************************************************************)
(* As long as a subscription exists its notification index never goes      *)
(* back, also when its owner or an operational intent rewrites the row.    *)
(***************************************************************************)
NotificationIndexNeverDecreases ==
    [][\A s \in SubIDs :
         subs[s] # None /\ subs'[s] # None => subs'[s].index >= subs[s].index]_vars

(***************************************************************************)
(* No request deletes more than one operational intent, and a subscription *)
(* goes only when nothing depends on it or, if implicit, together with the *)
(* last that does: the foreign key's ON DELETE CASCADE never removes an    *)
(* operational intent (operational_intents_handler.go:61-73 and 103-114,   *)
(* subscriptions_handler.go:346-411).                                      *)
(***************************************************************************)
NoCascadingDelete ==
    [][/\ \A o, q \in OpIDs :
            /\ ops[o] # None /\ ops'[o] = None
            /\ ops[q] # None /\ ops'[q] = None
            => o = q
       /\ \A s \in SubIDs :
            subs[s] # None /\ subs'[s] = None =>
                \A o \in GetDependentOperationalIntents(s) :
                    subs[s].implicit /\ ops'[o] = None]_vars

=============================================================================
