---------------------------------- MODULE RID ----------------------------------
(***************************************************************************)
(* Remote identification (RID): identification service areas (ISAs) and    *)
(* the subscriptions to them (pkg/rid), in one database shared by all DSS  *)
(* instances of a region, and the garbage collector of every instance      *)
(* (pkg/rid/store/cockroach/garbage_collector.go, run by cron from         *)
(* cmds/core-service/main.go).                                             *)
(*                                                                         *)
(* ISA requests and the write of a subscription are serializable           *)
(* transactions: one action each.  The answer to a subscription request    *)
(* comes from a second query after that transaction, and the garbage       *)
(* collector lists and deletes with one query each: those steps interleave *)
(* with everything else.                                                   *)
(***************************************************************************)
EXTENDS Integers, FiniteSets, S2, CRDB

CONSTANTS
    Owners,         \* USSs, as named by their access tokens
    Writers,        \* localities of the DSS instances
    EmptyWriter,    \* the locality of an instance started without one
    ISAIDs,
    SubIDs,
    ISAExtents,     \* cells, start and end a USS asks for an ISA
    SubExtents,     \* cells, start and end a USS asks for a subscription
    MaxSubscriptionsPerArea,
    MaxClockSkew,             \* how far in the past anything may start
    MaxSubscriptionDuration,  \* longest subscription
    ExpiredDuration,          \* expiredDurationInMin
    MaxTime,        \* bound: last instant explored
    MaxWrites,      \* bound: inserts and updates
    MaxFailures     \* bound: garbage collections cut short

VARIABLES
    now,        \* the clock of the database and of the instances
    writes,     \* inserts and updates so far: the next commit timestamp
    isas,       \* table identification_service_areas
    subs,       \* table subscriptions
    answering,  \* subscription requests whose answer is not yet determined
    told,       \* the ISAs as answers and notifications told each
                \* subscription's owner
    gc,         \* the garbage collector of each instance
    failures    \* garbage collections cut short so far

vars == <<now, writes, isas, subs, answering, told, gc, failures>>

ISA == [owner : Owners, cells : SUBSET Cells, start : Int, end : Int,
        writer : Writers \cup {None}, version : Nat]

Subscription ==
    [owner : Owners, cells : SUBSET Cells, start : Int, end : Int,
     writer : Writers \cup {None}, version : Nat, index : Nat]

\* A handler that has stored version `version` of a subscription
Answer == [id : SubIDs, version : Nat, cells : SUBSET Cells]

Request ==
    [cells : SUBSET Cells, start : Int \cup {None}, end : Int \cup {None}]

ASSUME ExtentsAssumption ==
    ISAExtents \subseteq Request /\ SubExtents \subseteq Request

ASSUME BoundsAssumption ==
    /\ MaxSubscriptionsPerArea \in Nat
    /\ MaxClockSkew \in Nat
    /\ MaxSubscriptionDuration \in Nat
    /\ ExpiredDuration \in Nat \ {0}
    /\ MaxTime \in Nat
    /\ MaxWrites \in Nat
    /\ MaxFailures \in Nat

ASSUME TableAssumption == IsFiniteSet(ISAIDs) /\ IsFiniteSet(SubIDs)

ASSUME NamesAssumption ==
    None \notin ISA \cup Subscription \cup Writers \cup Int

-----------------------------------------------------------------------------
(***************************************************************************)
(* Times and searches                                                      *)
(***************************************************************************)

\* AdjustTimeRange, the same for ISAs and subscriptions up to the default end
AdjustedStart(old, req) ==
    IF req.start # None THEN req.start ELSE IF old = None THEN now ELSE old.start

AdjustedEnd(old, req, default) ==
    IF req.end # None THEN req.end ELSE IF old # None THEN old.end ELSE default

StartNotTooEarly(req) == req.start # None => now - req.start <= MaxClockSkew

\* A new ISA must have an end
ISATimes(old, req) ==
    [start |-> AdjustedStart(old, req), end |-> AdjustedEnd(old, req, None)]

SubscriptionTimes(old, req) ==
    [start |-> AdjustedStart(old, req),
     end |-> AdjustedEnd(old, req, AdjustedStart(old, req) + MaxSubscriptionDuration)]

\* Mutant: only what AdjustTimeRange checks
NotReversed(times) == times.start <= times.end

\* The tables' CHECK (starts_at < ends_at) is stricter than AdjustTimeRange
InOrder(times) == times.start < times.end

Live(row) == row # None /\ row.end >= now

Expired(row) == row # None /\ row.end + ExpiredDuration <= now

Overlap(cells1, cells2) == cells1 \cap cells2 # {}

\* The ISAs that SearchISAs finds without a time range: earliest is now
SearchISAs(cells) ==
    Limited({i \in ISAIDs : Live(isas[i]) /\ Overlap(isas[i].cells, cells)})

SubscriptionsInCells(cells) ==
    {s \in SubIDs : Live(subs[s]) /\ Overlap(subs[s].cells, cells)}

UpdateNotificationIdxsInCells(cells) ==
    [s \in SubIDs |->
        IF s \in SubscriptionsInCells(cells)
        THEN [subs[s] EXCEPT !.index = @ + 1]
        ELSE subs[s]]

\* Mutant: the minimum of the cells' counts is compared, not the maximum
SomeCellBelowLimit(cells, o) ==
    \E c \in cells :
        Cardinality({s \in SubscriptionsInCells({c}) : subs[s].owner = o})
            < MaxSubscriptionsPerArea

\* MaxSubscriptionCountInCellsByOwner is below the limit
BelowSubscriptionLimit(cells, o) ==
    \A c \in cells :
        Cardinality({s \in SubscriptionsInCells({c}) : subs[s].owner = o})
            < MaxSubscriptionsPerArea

\* What a subscriber takes from being told that ISA i is row
Picture(s, row) ==
    IF row # None /\ Overlap(row.cells, subs[s].cells) THEN row ELSE None

\* The USS that changed an ISA notifies the subscribers in its answer
NotifySubscribers(cells, i, row) ==
    [s \in SubIDs |->
        IF s \in SubscriptionsInCells(cells)
        THEN [told[s] EXCEPT ![i] = Picture(s, row)]
        ELSE told[s]]

Nothing == [i \in ISAIDs |-> None]

-----------------------------------------------------------------------------
(***************************************************************************)
(* Identification service areas                                            *)
(***************************************************************************)

NewISA(o, w, cells, times) ==
    [owner |-> o, cells |-> cells, start |-> times.start, end |-> times.end,
     writer |-> w, version |-> writes + 1]

InsertISA(o, w, i, req) ==
    /\ writes < MaxWrites
    /\ StartNotTooEarly(req)
    /\ req.end # None
    /\ InOrder(ISATimes(None, req))
    /\ isas[i] = None
    /\ LET isa == NewISA(o, w, req.cells, ISATimes(None, req))
       IN  /\ subs' = UpdateNotificationIdxsInCells(req.cells)
           /\ told' = NotifySubscribers(req.cells, i, isa)
           /\ isas' = [isas EXCEPT ![i] = isa]
    /\ writes' = writes + 1
    /\ UNCHANGED <<now, answering, gc, failures>>

\* Mutant: subscribers of the area an ISA leaves are not told
UpdatedCells(old, req) == req.cells

\* The area an update affects, as cells of level 13
AffectedCells(old, req) == Levelify(CellUnionFromUnion(old.cells, req.cells))

UpdateISA(o, w, i, version, req) ==
    /\ writes < MaxWrites
    /\ isas[i] # None
    /\ isas[i].owner = o
    /\ isas[i].version = version
    /\ StartNotTooEarly(req)
    /\ InOrder(ISATimes(isas[i], req))
    /\ LET isa == NewISA(o, w, req.cells, ISATimes(isas[i], req))
           cells == AffectedCells(isas[i], req)
       IN  /\ isas' = [isas EXCEPT ![i] = isa]
           /\ subs' = UpdateNotificationIdxsInCells(cells)
           /\ told' = NotifySubscribers(cells, i, isa)
    /\ writes' = writes + 1
    /\ UNCHANGED <<now, answering, gc, failures>>

DeleteISA(o, i, version) ==
    /\ isas[i] # None
    /\ isas[i].version = version
    /\ isas[i].owner = o
    /\ isas' = [isas EXCEPT ![i] = None]
    /\ subs' = UpdateNotificationIdxsInCells(isas[i].cells)
    /\ told' = NotifySubscribers(isas[i].cells, i, None)
    /\ UNCHANGED <<now, writes, answering, gc, failures>>

-----------------------------------------------------------------------------
(***************************************************************************)
(* Subscriptions                                                           *)
(***************************************************************************)

\* The request has no notification index: an update also stores 0
NewSubscription(o, w, cells, times) ==
    [owner |-> o, cells |-> cells, start |-> times.start, end |-> times.end,
     writer |-> w, version |-> writes + 1, index |-> 0]

\* What InsertSubscription and UpdateSubscription have in common
PutSubscription(o, w, s, req) ==
    /\ writes < MaxWrites
    /\ StartNotTooEarly(req)
    /\ LET times == SubscriptionTimes(subs[s], req)
       IN  /\ InOrder(times)
           /\ times.end - times.start <= MaxSubscriptionDuration
           /\ BelowSubscriptionLimit(req.cells, o)
           /\ subs' = [subs EXCEPT ![s] = NewSubscription(o, w, req.cells, times)]
    /\ answering' = answering \cup {[id |-> s, version |-> writes + 1, cells |-> req.cells]}
    /\ writes' = writes + 1
    /\ UNCHANGED <<now, isas, told, gc, failures>>

InsertSubscription(o, w, s, req) ==
    /\ subs[s] = None
    /\ PutSubscription(o, w, s, req)

UpdateSubscription(o, w, s, version, req) ==
    /\ subs[s] # None
    /\ subs[s].version = version
    /\ subs[s].owner = o
    /\ PutSubscription(o, w, s, req)

\* No other request has written or deleted the subscription since
LastRequest(r) == subs[r.id] # None /\ subs[r.id].version = r.version

\* The second half of CreateSubscription and UpdateSubscription, which search
\* the cells they have written, whatever has become of the subscription.  Its
\* owner heeds the answer to the last request.  A handler that fails in between
\* never gets here.
AnswerSubscription(r) ==
    /\ r \in answering
    /\ \E found \in SearchISAs(r.cells) :
         told' = IF LastRequest(r)
                 THEN [told EXCEPT ![r.id] = [i \in ISAIDs |-> IF i \in found THEN isas[i] ELSE None]]
                 ELSE told
    /\ answering' = answering \ {r}
    /\ UNCHANGED <<now, writes, isas, subs, gc, failures>>

\* The row goes and, with it, what its owner knows
RemoveSubscription(s) ==
    /\ subs' = [subs EXCEPT ![s] = None]
    /\ told' = [told EXCEPT ![s] = Nothing]

DeleteSubscription(o, s, version) ==
    /\ subs[s] # None
    /\ subs[s].version = version
    /\ subs[s].owner = o
    /\ RemoveSubscription(s)
    /\ UNCHANGED <<now, writes, isas, answering, gc, failures>>

-----------------------------------------------------------------------------
(***************************************************************************)
(* The garbage collector.  A list holds the ID and version of the rows     *)
(* found and not yet tried.                                                *)
(***************************************************************************)

Idle == [step |-> "idle", list |-> {}]

\* Mutant: only the instance without a locality collects its rows
OnlyEmptyWriterMatches(row, w) == w = EmptyWriter /\ SQLEqual(row.writer, w)

\* The empty locality is meant to stand for NULL as well
WriterMatches(row, w) ==
    \/ SQLEqual(row.writer, w)
    \/ w = EmptyWriter /\ SQLEqual(row.writer, None)

ListExpiredISAs(w) ==
    Limited({i \in ISAIDs : Expired(isas[i]) /\ WriterMatches(isas[i], w)})

ListExpiredSubscriptions(w) ==
    {s \in SubIDs : Expired(subs[s]) /\ WriterMatches(subs[s], w)}

\* Mutant: DELETE ... WHERE id = $1
SameRow(row, r) == row # None

\* DELETE ... WHERE id = $1 AND updated_at = $2 finds the row
StillListed(row, r) == row # None /\ row.version = r.version

GCListISAs(w) ==
    /\ gc[w].step = "idle"
    /\ \E found \in ListExpiredISAs(w) :
         gc' = [gc EXCEPT ![w] =
                  [step |-> "isas",
                   list |-> {[id |-> i, version |-> isas[i].version] : i \in found}]]
    /\ UNCHANGED <<now, writes, isas, subs, answering, told, failures>>

\* The first ISA it really deletes ends the loop, whatever is left of the list
GCDeleteISA(w) ==
    /\ gc[w].step = "isas"
    /\ \E r \in gc[w].list :
         LET deleted == StillListed(isas[r.id], r)
         IN  /\ isas' = IF deleted THEN [isas EXCEPT ![r.id] = None] ELSE isas
             /\ gc' = [gc EXCEPT
                         ![w] = [step |-> IF deleted THEN "isasDone" ELSE "isas",
                                 list |-> @.list \ {r}]]
    /\ UNCHANGED <<now, writes, subs, answering, told, failures>>

GCListSubscriptions(w) ==
    /\ \/ gc[w].step = "isasDone"
       \/ gc[w].step = "isas" /\ gc[w].list = {}
    /\ gc' = [gc EXCEPT ![w] =
                [step |-> "subs",
                 list |-> {[id |-> s, version |-> subs[s].version] :
                              s \in ListExpiredSubscriptions(w)}]]
    /\ UNCHANGED <<now, writes, isas, subs, answering, told, failures>>

\* Likewise for subscriptions
GCDeleteSubscription(w) ==
    /\ gc[w].step = "subs"
    /\ \E r \in gc[w].list :
         IF StillListed(subs[r.id], r)
         THEN /\ RemoveSubscription(r.id)
              /\ gc' = [gc EXCEPT ![w] = Idle]
         ELSE /\ gc' = [gc EXCEPT ![w].list = @ \ {r}]
              /\ UNCHANGED <<subs, told>>
    /\ UNCHANGED <<now, writes, isas, answering, failures>>

GCFinish(w) ==
    /\ gc[w].step = "subs"
    /\ gc[w].list = {}
    /\ gc' = [gc EXCEPT ![w] = Idle]
    /\ UNCHANGED <<now, writes, isas, subs, answering, told, failures>>

\* A query fails, or the instance crashes and restarts
GCFail(w) ==
    /\ gc[w].step # "idle"
    /\ failures < MaxFailures
    /\ failures' = failures + 1
    /\ gc' = [gc EXCEPT ![w] = Idle]
    /\ UNCHANGED <<now, writes, isas, subs, answering, told>>

GCStep(w) ==
    \/ GCListISAs(w)
    \/ GCDeleteISA(w)
    \/ GCListSubscriptions(w)
    \/ GCDeleteSubscription(w)
    \/ GCFinish(w)

-----------------------------------------------------------------------------
Tick ==
    /\ now < MaxTime
    /\ now' = now + 1
    /\ UNCHANGED <<writes, isas, subs, answering, told, gc, failures>>

Init ==
    /\ now = 0
    /\ writes = 0
    /\ isas = [i \in ISAIDs |-> None]
    /\ subs = [s \in SubIDs |-> None]
    /\ answering = {}
    /\ told = [s \in SubIDs |-> Nothing]
    /\ gc = [w \in Writers |-> Idle]
    /\ failures = 0

ISARequest ==
    \E o \in Owners, w \in Writers, i \in ISAIDs, req \in ISAExtents :
        \/ InsertISA(o, w, i, req)
        \/ \E version \in 1..writes : UpdateISA(o, w, i, version, req)

ISADeletion ==
    \E o \in Owners, i \in ISAIDs : \E version \in 1..writes : DeleteISA(o, i, version)

SubscriptionRequest ==
    \E o \in Owners, w \in Writers, s \in SubIDs, req \in SubExtents :
        \/ InsertSubscription(o, w, s, req)
        \/ \E version \in 1..writes : UpdateSubscription(o, w, s, version, req)

SubscriptionDeletion ==
    \E o \in Owners, s \in SubIDs :
        \E version \in 1..writes : DeleteSubscription(o, s, version)

Next ==
    \/ ISARequest
    \/ ISADeletion
    \/ SubscriptionRequest
    \/ SubscriptionDeletion
    \/ \E r \in answering : AnswerSubscription(r)
    \/ \E w \in Writers : GCStep(w) \/ GCFail(w)
    \/ Tick

Spec == Init /\ [][Next]_vars

\* cron starts every instance's garbage collector again and again
Fairness == \A w \in Writers : WF_vars(GCStep(w))

FairSpec == Spec /\ Fairness

-----------------------------------------------------------------------------
(***************************************************************************)
(* Properties                                                              *)
(***************************************************************************)

Listed(IDs) == [id : IDs, version : Nat]

TimesOK ==
    /\ \A i \in ISAIDs : isas[i] # None => isas[i].start < isas[i].end
    /\ \A s \in SubIDs : subs[s] # None =>
          subs[s].end - subs[s].start \in 1..MaxSubscriptionDuration

(***************************************************************************)
(* The rows of the two tables of pkg/rid, the answers still owed and the   *)
(* garbage collectors' lists have their types.  Every row ends after it    *)
(* starts, and no subscription is too long, also when an update gives only *)
(* one of the times and keeps the other (models/subscriptions.go:71-109,   *)
(* and the tables' CHECKs).                                                *)
(***************************************************************************)
TypeOK ==
    /\ now \in Nat
    /\ writes \in Nat
    /\ isas \in [ISAIDs -> ISA \cup {None}]
    /\ subs \in [SubIDs -> Subscription \cup {None}]
    /\ TimesOK
    /\ answering \subseteq Answer
    /\ told \in [SubIDs -> [ISAIDs -> ISA \cup {None}]]
    /\ gc \in [Writers -> [step : {"idle", "isas", "isasDone", "subs"},
                           list : SUBSET (Listed(ISAIDs) \cup Listed(SubIDs))]]
    /\ failures \in Nat

\* What matters of an ISA after its end is known to everybody
Current(row) == IF Live(row) THEN row ELSE None

(***************************************************************************)
(* The owner of a live subscription who applied the answer to its last     *)
(* request and the notifications knows exactly the live ISAs of its area,  *)
(* at their present version: no change falls between the transaction that  *)
(* stores the subscription and the search that answers the request         *)
(* (subscription_handler.go:155-164), and an update of an ISA reaches the  *)
(* subscribers of the cells it leaves (isa.go:169-174).  That holds from   *)
(* the moment the subscription is stored, also before its start: a search  *)
(* for the subscribers has no earliest start, although the API says that a *)
(* subscription "will not generate any notifications before this time"     *)
(* (rid.proto:478).                                                        *)
(***************************************************************************)
SubscribersInformed ==
    \A s \in SubIDs :
        Live(subs[s]) /\ (\A r \in answering : r.id = s => ~LastRequest(r)) =>
            \A i \in ISAIDs : Current(told[s][i]) = Current(Picture(s, isas[i]))

(***************************************************************************)
(* No owner ever has more than the permitted number of live subscriptions  *)
(* in a cell (requirement DSS0030, subscription.go:15-18), also through    *)
(* updates that move or renew subscriptions.                               *)
(***************************************************************************)
SubscriptionLimit ==
    \A o \in Owners, c \in Cells :
        Cardinality({s \in SubIDs : Live(subs[s]) /\ subs[s].owner = o /\ c \in subs[s].cells})
            <= MaxSubscriptionsPerArea

(***************************************************************************)
(* A garbage collector only ever deletes rows whose end is long past: not  *)
(* a row that was renewed, or deleted and created again, since it was      *)
(* listed (the updated_at condition of the DELETEs,                        *)
(* identification_service_area.go:209-217 and subscriptions.go:255-262).   *)
(***************************************************************************)
OnlyExpiredCollected ==
    [][gc' # gc =>
         /\ \A i \in ISAIDs : isas'[i] # isas[i] => Expired(isas[i])
         /\ \A s \in SubIDs : subs'[s] # subs[s] => Expired(subs[s])]_vars

(***************************************************************************)
(* Every expired row is eventually removed or renewed, although each run   *)
(* deletes at most one ISA and one subscription, runs fail, and owners     *)
(* interfere, as long as cron goes on starting the garbage collector of    *)
(* the instance that wrote it (core-service main.go:146-159).              *)
(***************************************************************************)
ExpiredRowsRemoved ==
    /\ \A i \in ISAIDs : Expired(isas[i]) ~> ~Expired(isas[i])
    /\ \A s \in SubIDs : Expired(subs[s]) ~> ~Expired(subs[s])

=============================================================================
