------------------------------- MODULE TracerPoll ------------------------------
(***************************************************************************)
(* tracer_poll.py: one loop polls the DSS for ISAs, operations and         *)
(* constraints, each on its own interval, and logs a result that differs   *)
(* from the last one it logged.  The details of operations and constraints *)
(* are fetched from their USSs and cached under the reference that the DSS *)
(* returned.                                                               *)
(*                                                                         *)
(* The DSS and the USSs are external: a USS changes an item in the DSS and *)
(* serves its new details a little later.  A version stands for everything *)
(* a reference or the details hold.                                        *)
(***************************************************************************)
EXTENDS Integers, Sequences, FiniteSets, Functions

CONSTANTS
    Pollers,       \* the pollers, in the order main() makes them
    Interval,      \* [poller -> ticks between its polls]
    Items,         \* [poller -> what it polls for]
    Detailed,      \* the pollers whose items have details at a USS
    Errors,        \* the statuses with which a query fails
    MaxVersion,    \* bound: [item -> its versions]
    MaxFailedQueries, \* bound: queries that fail
    MaxLate,       \* bound: ticks that the loop is behind
    None

PollerNames == Range(Pollers)
AllItems == UNION {Items[p] : p \in PollerNames}

ASSUME PollingAssumption ==
    /\ {MaxFailedQueries, MaxLate} \subseteq Nat
    /\ \A i \in AllItems : MaxVersion[i] \in Nat
    /\ \A p \in PollerNames : Interval[p] \in Nat \ {0}
    /\ Detailed \subseteq PollerNames
    /\ None \notin Errors \cup {"404"}
    /\ \A p, q \in PollerNames : p # q => Items[p] \cap Items[q] = {}

VARIABLES
    dss,       \* [item -> version of its reference, 0 when there is none]
    uss,       \* [item -> version of the details its USS serves, 0 for none]
    made,      \* [item -> versions made so far]
    pc,        \* "waiting", "details", "record", "stopped" or "died"
    active,    \* the poller that is polling
    next,      \* [poller -> its _next_poll minus now, None before its first poll]
    result,    \* the result of the poll so far
    todo,      \* items whose details are still to be fetched
    cache,     \* resources.scd_cache: [item -> [reference, entity] or None]
    last,      \* [poller -> its last_result, the last one logged]
    failures   \* queries that have failed

world == <<dss, uss, made>>
loop == <<pc, active, result, todo>>
pollVars == <<world, loop, next, cache, last, failures>>

Tracing == pc \notin {"stopped", "died"}

NoResult == [error |-> None, references |-> <<>>, entities |-> <<>>]
Success(r) == r.error = None

(***************************************************************************)
(* has_different_content_than                                              *)
(***************************************************************************)
\* Mutant: items that are gone are not looked for
DiffersIgnoringRemoved(new, old) ==
    \/ old = None
    \/ new.error # old.error
    \/ \E i \in DOMAIN new.references :
          \/ i \notin DOMAIN old.references
          \/ new.references[i] # old.references[i]
    \/ \E i \in DOMAIN new.entities :
          i \notin DOMAIN old.entities \/ new.entities[i] # old.entities[i]

ReferencesDiffer(new, old) ==
    \/ new.error # old.error
    \/ /\ Success(new)
       /\ \/ \E i \in DOMAIN old.references : i \notin DOMAIN new.references
          \/ \E i \in DOMAIN new.references :
                i \notin DOMAIN old.references \/ new.references[i] # old.references[i]

EntityDiffers(new, old) ==
    \/ Success(new) # Success(old)
    \/ Success(new) /\ new.details # old.details
    \/ ~Success(new) /\ new.error # old.error

has_different_content_than(new, old) ==
    \/ old = None
    \/ ReferencesDiffer(new, old)
    \/ \E i \in DOMAIN new.entities :
          i \notin DOMAIN old.entities \/ EntityDiffers(new.entities[i], old.entities[i])
    \/ \E i \in DOMAIN old.entities : i \notin DOMAIN new.entities

(***************************************************************************)
(* Poller                                                                  *)
(***************************************************************************)
time_to_next_poll(p) == IF next[p] = None THEN 0 ELSE next[p]

\* The first of the pollers with the least time to go
MostUrgent(p) ==
    \E n \in 1..Len(Pollers) :
        /\ Pollers[n] = p
        /\ \A m \in 1..Len(Pollers) :
              IF m < n THEN time_to_next_poll(Pollers[m]) > time_to_next_poll(p)
                       ELSE time_to_next_poll(Pollers[m]) >= time_to_next_poll(p)

\* _next_poll is moved by whole intervals until it is not in the past
Rescheduled(p) ==
    IF next[p] = None THEN Interval[p]
    ELSE IF next[p] >= 0 THEN next[p]
    ELSE CHOOSE t \in 0..(Interval[p] - 1) : (t - next[p]) % Interval[p] = 0

\* query_and_describe: a query that is answered with an error is a result like any other
QueryMayFail == failures < MaxFailedQueries
QueryFails == failures' = failures + 1

References(p) == [i \in {j \in Items[p] : dss[j] # 0} |-> dss[i]]

\* Mutant: whatever is cached is used
AnyCached(i, reference) == cache[i] # None

\* _entities: the cached details serve as long as the reference is the same
Usable(i, reference) ==
    /\ cache[i] # None
    /\ cache[i].reference = reference
    /\ Success(cache[i].entity)

QueryDSS(p) ==
    LET refs == References(p)
        entities == DOMAIN refs \cap (IF p \in Detailed THEN AllItems ELSE {})
        cached == {i \in entities : Usable(i, refs[i])}
    IN
    /\ pc = "waiting" /\ MostUrgent(p) /\ time_to_next_poll(p) <= 0
    /\ next' = [next EXCEPT ![p] = Rescheduled(p)]
    /\ active' = p
    /\ \/ /\ result' = [error |-> None, references |-> refs,
                        entities |-> [i \in cached |-> cache[i].entity]]
          /\ todo' = entities \ cached
          /\ pc' = IF todo' = {} THEN "record" ELSE "details"
          /\ UNCHANGED failures
       \/ \E e \in Errors :
            /\ QueryMayFail /\ QueryFails
            /\ result' = [NoResult EXCEPT !.error = e]
            /\ todo' = {}
            /\ pc' = "record"
    /\ UNCHANGED <<world, cache, last>>

\* _full_entity, for the items in the order of the response
FetchDetails(i) ==
    /\ pc = "details" /\ i \in todo
    /\ \E entity \in [error : {None}, details : {uss[i]} \ {0}]
                         \cup [error : IF uss[i] = 0 THEN {"404"} ELSE {}, details : {None}]
                         \cup [error : IF QueryMayFail THEN Errors ELSE {}, details : {None}] :
          /\ result' = [result EXCEPT !.entities =
                            [j \in DOMAIN @ \cup {i} |-> IF j = i THEN entity ELSE @[j]]]
          /\ cache' = [cache EXCEPT ![i] = [reference |-> result.references[i],
                                            entity |-> entity]]
          /\ IF entity.error \in Errors THEN QueryFails ELSE UNCHANGED failures
    /\ todo' = todo \ {i}
    /\ pc' = IF todo' = {} THEN "record" ELSE pc
    /\ UNCHANGED <<world, active, next, last>>

\* log_new or log_same
Record ==
    /\ pc = "record"
    /\ last' = IF has_different_content_than(result, last[active])
               THEN [last EXCEPT ![active] = result] ELSE last
    /\ pc' = "waiting" /\ active' = None /\ result' = NoResult
    /\ UNCHANGED <<world, todo, next, cache, failures>>

\* Of the process only the log is left
End(how) ==
    /\ pc' = how /\ active' = None /\ result' = NoResult /\ todo' = {}
    /\ next' = [p \in PollerNames |-> None]
    /\ cache' = [i \in AllItems |-> None]
    /\ UNCHANGED <<world, last, failures>>

\* The user stops the loop wherever it is
KeyboardInterrupt == Tracing /\ End("stopped")

\* query_and_describe: for a query that is not answered in time, or not at all,
\* it makes the request once more to describe it, with a timeout that
\* requests.Request does not take.  Nobody catches the TypeError.
QueryRaises ==
    /\ \/ pc = "waiting" /\ \E p \in PollerNames : MostUrgent(p) /\ time_to_next_poll(p) <= 0
       \/ pc = "details"
    /\ End("died")

Tick ==
    /\ Tracing
    /\ \A p \in PollerNames : time_to_next_poll(p) > -MaxLate
    /\ next' = [p \in PollerNames |-> IF next[p] = None THEN None ELSE next[p] - 1]
    /\ UNCHANGED <<world, loop, cache, last, failures>>

(***************************************************************************)
(* The world: a USS creates, updates or removes an item in the DSS and     *)
(* then serves it so                                                       *)
(***************************************************************************)
ChangeItem(i) ==
    /\ Tracing
    /\ uss[i] = dss[i]
    /\ \/ /\ made[i] < MaxVersion[i]
          /\ made' = [made EXCEPT ![i] = @ + 1]
          /\ dss' = [dss EXCEPT ![i] = made'[i]]
       \/ dss[i] # 0 /\ dss' = [dss EXCEPT ![i] = 0] /\ UNCHANGED made
    /\ UNCHANGED <<uss, loop, next, cache, last, failures>>

Serve(i) ==
    /\ Tracing
    /\ uss[i] # dss[i]
    /\ uss' = [uss EXCEPT ![i] = dss[i]]
    /\ UNCHANGED <<dss, made, loop, next, cache, last, failures>>

PollInit ==
    /\ dss = [i \in AllItems |-> 0] /\ uss = dss /\ made = dss
    /\ pc = "waiting" /\ active = None /\ result = NoResult /\ todo = {}
    /\ next = [p \in PollerNames |-> None]
    /\ cache = [i \in AllItems |-> None]
    /\ last = [p \in PollerNames |-> None]
    /\ failures = 0

LoopStep == (\E p \in PollerNames : QueryDSS(p)) \/ (\E i \in AllItems : FetchDetails(i)) \/ Record

Stopped == ~Tracing /\ UNCHANGED pollVars

PollNext ==
    \/ LoopStep \/ QueryRaises \/ KeyboardInterrupt \/ Tick \/ Stopped
    \/ \E i \in AllItems : ChangeItem(i) \/ Serve(i)

\* The loop never blocks for good: a query is answered or, by its timeout,
\* raises.  Time passes.  Nobody has to change anything in the DSS.
PollSpec ==
    /\ PollInit /\ [][PollNext]_pollVars
    /\ WF_pollVars(LoopStep \/ QueryRaises) /\ WF_pollVars(Tick)

-----------------------------------------------------------------------------
(***************************************************************************)
(* Details are recorded with a reference that is at most one version newer *)
(* than they are: references are read before details, and the cache is     *)
(* left as soon as the reference changes.  One version is possible: when   *)
(* the DSS is ahead of the USS, the details of the version before are      *)
(* cached for as long as the reference lasts (fetch/scd.py:299-320).       *)
(***************************************************************************)
DetailsLag ==
    \A p \in PollerNames : last[p] # None =>
        \A i \in DOMAIN last[p].entities :
            LET entity == last[p].entities[i] IN
            Success(entity) => entity.details >= last[p].references[i] - 1

(***************************************************************************)
(* When the DSS no longer changes and queries no longer fail, the log      *)
(* comes to show the references that the DSS holds (tracer_poll.py:74-103) *)
(* or the tracer is over: the user stopped it, or a query that was not     *)
(* answered ended it (fetch/__init__.py:154-157).  This is true of each    *)
(* poller that has polled at all: until its first poll it has no time to   *)
(* wait, and those before it in the list whose queries take longer than    *)
(* their interval go first (polling.py:44-47).                             *)
(***************************************************************************)
LogCatchesUp ==
    \A p \in PollerNames :
        <>[](\/ ~Tracing \/ next[p] = None
             \/ /\ last[p] # None /\ Success(last[p])
                /\ DOMAIN last[p].references = {i \in Items[p] : dss[i] # 0}
                /\ \A i \in DOMAIN last[p].references : last[p].references[i] = dss[i])

=============================================================================
