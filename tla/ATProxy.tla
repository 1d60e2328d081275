-------------------------------- MODULE ATProxy -------------------------------
(***************************************************************************)
(* atproxy: calls of uss_qualifier to automated testing endpoints wait in  *)
(* a queue until a handler client has put their results.  Endpoint         *)
(* processes and handlers meet only in the database, a SynchronizedValue   *)
(* whose transactions are atomic and fail when the value outgrows its      *)
(* shared memory.                                                          *)
(*                                                                         *)
(* Time is what is left until each loop gives up: a tick of the clock      *)
(* takes one from all of them.                                             *)
(***************************************************************************)
EXTENDS Integers, FiniteSets, FiniteSetsExt

CONSTANTS
    Calls,           \* calls of the endpoints; the IDs of their queries
    Handlers,        \* handler clients
    Results,         \* what handlers answer
    Capacity,        \* units of shared memory: a query takes 1, a result 1 more
    QueryTimeout,    \* ticks that fulfill_query waits (59 s)
    ListTimeout,     \* ticks that list_queries waits (5 s)
    MaxPuts,         \* bound: results put per handler
    Nothing

\* A query in the database
Query == [state : {"Queued", "Complete"}, result : Results \cup {Nothing}]

\* What a call is answered with when no handler gave a result
CallErrors == {"Timeout", "RuntimeError"}

ASSUME ATProxyAssumption ==
    /\ {Capacity, QueryTimeout, ListTimeout, MaxPuts} \subseteq Nat
    /\ QueryTimeout > 0 /\ ListTimeout > 0
    /\ Nothing \notin Results \cup Query
    /\ Results \cap CallErrors = {}

VARIABLES
    queries,   \* db.queries: [Calls -> [state, result] or Nothing]
    call,      \* [Calls -> [pc, left, answer]]
    handler,   \* [Handlers -> [pc, left, known, puts]]
    acked      \* history: <<call, result>> whose put was answered with 204

atproxyVars == <<queries, call, handler, acked>>

Stored == {c \in Calls : queries[c] # Nothing}
Complete == {c \in Stored : queries[c].state = "Complete"}

\* Bytes of the encoded value
Size(qs) == Cardinality({c \in Calls : qs[c] # Nothing})
                + Cardinality({c \in Calls : qs[c] # Nothing /\ qs[c].result # Nothing})

\* SynchronizedValue.__exit__: commits, or raises RuntimeError with the value
\* as it was
Fits(qs) == Size(qs) <= Capacity

(***************************************************************************)
(* fulfill_query                                                           *)
(***************************************************************************)
Answer(c, answer) == call' = [call EXCEPT ![c] = [pc |-> "answered", left |-> 0, answer |-> answer]]

AddQuery(c) ==
    LET added == [queries EXCEPT ![c] = [state |-> "Queued", result |-> Nothing]] IN
    /\ call[c].pc = "new"
    /\ IF Fits(added)
       THEN /\ queries' = added
            /\ call' = [call EXCEPT ![c] = [@ EXCEPT !.pc = "waiting", !.left = QueryTimeout]]
       ELSE Answer(c, "RuntimeError") /\ UNCHANGED queries
    /\ UNCHANGED <<handler, acked>>

\* Mutant: the loop has no deadline
SleepAgain(c) ==
    /\ call[c].pc = "waiting"
    /\ call' = [call EXCEPT ![c].pc = "sleeping"]
    /\ UNCHANGED <<queries, handler, acked>>

\* The condition of the loop is looked at, then the process sleeps
Sleep(c) ==
    /\ call[c].pc = "waiting"
    /\ call' = [call EXCEPT ![c].pc = IF call[c].left > 0 THEN "sleeping" ELSE "expired"]
    /\ UNCHANGED <<queries, handler, acked>>

\* Mutant: any result that is there is taken
CheckAnyQuery(c) ==
    /\ call[c].pc = "sleeping"
    /\ \/ \E d \in Complete :
            /\ Answer(c, queries[d].result)
            /\ queries' = [queries EXCEPT ![c] = Nothing]
       \/ Complete = {} /\ call' = [call EXCEPT ![c].pc = "waiting"] /\ UNCHANGED queries
    /\ UNCHANGED <<handler, acked>>

\* Mutant: the deadline is looked at after the sleep
CheckInTime(c) ==
    /\ call[c].pc = "sleeping"
    /\ IF c \in Complete /\ call[c].left > 0
       THEN /\ Answer(c, queries[c].result)
            /\ queries' = [queries EXCEPT ![c] = Nothing]
       ELSE call' = [call EXCEPT ![c].pc = "waiting"] /\ UNCHANGED queries
    /\ UNCHANGED <<handler, acked>>

\* A call that slept past its deadline looks once more
CheckQuery(c) ==
    /\ call[c].pc = "sleeping"
    /\ IF c \in Complete
       THEN /\ Answer(c, queries[c].result)
            /\ queries' = [queries EXCEPT ![c] = Nothing]
       ELSE call' = [call EXCEPT ![c].pc = "waiting"] /\ UNCHANGED queries
    /\ UNCHANGED <<handler, acked>>

\* Mutant: a query that expires stays in the queue
GiveUpQuietly(c) ==
    /\ call[c].pc = "expired"
    /\ Answer(c, "Timeout")
    /\ UNCHANGED <<queries, handler, acked>>

GiveUp(c) ==
    /\ call[c].pc = "expired"
    /\ queries' = [queries EXCEPT ![c] = Nothing]
    /\ Answer(c, "Timeout")
    /\ UNCHANGED <<handler, acked>>

(***************************************************************************)
(* GET /handler/queries: waits until there is something in the queue       *)
(***************************************************************************)
StartList(h) ==
    /\ handler[h].pc = "idle"
    /\ handler' = [handler EXCEPT ![h].pc = "listing", ![h].left = ListTimeout]
    /\ UNCHANGED <<queries, call, acked>>

Pending == {c \in Stored : queries[c].state = "Queued"}

list_queries(h) ==
    /\ handler[h].pc = "listing"
    /\ IF Pending # {} /\ handler[h].left > 0
       THEN handler' = [handler EXCEPT ![h].pc = "idle", ![h].left = 0,
                                       ![h].known = @ \cup Pending]
       ELSE /\ handler[h].left = 0
            /\ handler' = [handler EXCEPT ![h].pc = "idle"]
    /\ UNCHANGED <<queries, call, acked>>

(***************************************************************************)
(* PUT /handler/queries/<id>: a handler may put a result late, twice, or   *)
(* after another handler                                                   *)
(***************************************************************************)
StoreResult(c, result) ==
    IF queries[c] = Nothing THEN queries
    ELSE [queries EXCEPT ![c] = [state |-> "Complete", result |-> result]]

put_query_result(h, c, result) ==
    LET new == StoreResult(c, result) IN
    /\ handler[h].pc = "idle" /\ c \in handler[h].known /\ handler[h].puts < MaxPuts
    /\ handler' = [handler EXCEPT ![h].puts = @ + 1]
    /\ IF Fits(new)
       THEN /\ queries' = new
            /\ acked' = IF c \in Stored THEN acked \cup {<<c, result>>} ELSE acked
       ELSE UNCHANGED <<queries, acked>>
    /\ UNCHANGED call

\* A handler may stop for good
HandlerStops(h) ==
    /\ handler[h].pc = "idle"
    /\ handler' = [handler EXCEPT ![h].pc = "stopped"]
    /\ UNCHANGED <<queries, call, acked>>

Left(n) == IF n > 0 THEN n - 1 ELSE 0

Elapse ==
    /\ (\E c \in Calls : call[c].left > 0) \/ (\E h \in Handlers : handler[h].left > 0)
    /\ call' = [c \in Calls |-> [call[c] EXCEPT !.left = Left(@)]]
    /\ handler' = [h \in Handlers |-> [handler[h] EXCEPT !.left = Left(@)]]
    /\ UNCHANGED <<queries, acked>>

ATProxyInit ==
    /\ queries = [c \in Calls |-> Nothing]
    /\ call = [c \in Calls |-> [pc |-> "new", left |-> 0, answer |-> Nothing]]
    /\ handler = [h \in Handlers |-> [pc |-> "idle", left |-> 0, known |-> {}, puts |-> 0]]
    /\ acked = {}

CallStep(c) == AddQuery(c) \/ Sleep(c) \/ CheckQuery(c) \/ GiveUp(c)

HandlerStep(h) ==
    \/ StartList(h) \/ list_queries(h) \/ HandlerStops(h)
    \/ \E c \in Calls, result \in Results : put_query_result(h, c, result)

AllAnswered ==
    /\ \A c \in Calls : call[c].pc = "answered"
    /\ UNCHANGED atproxyVars

ATProxyNext ==
    \/ \E c \in Calls : CallStep(c)
    \/ \E h \in Handlers : HandlerStep(h)
    \/ Elapse \/ AllAnswered

\* The loops of the endpoints run in processes of their own, which the server
\* keeps running, and time passes.  Handlers owe nothing.
Fairness == (\A c \in Calls : WF_atproxyVars(CallStep(c))) /\ WF_atproxyVars(Elapse)

ATProxySpec == ATProxyInit /\ [][ATProxyNext]_atproxyVars /\ Fairness

-----------------------------------------------------------------------------

(***************************************************************************)
(* The queue holds the queries of the calls that wait and no others: a     *)
(* call never misses its own query (a KeyError), and neither a call that   *)
(* timed out nor a result that is put late leaves one behind that would    *)
(* fill the shared memory (handling.py:26-45, routes_handler.py:84-91).    *)
(***************************************************************************)
QueueIsWaiting ==
    Stored = {c \in Calls : call[c].pc \in {"waiting", "sleeping", "expired"}}

(***************************************************************************)
(* A call is answered with a result that a handler put for this very query *)
(* and that was accepted, whatever else was put late, twice or for other   *)
(* calls (handling.py:34-41).                                              *)
(***************************************************************************)
AnswersBelong ==
    \A c \in Calls : call[c].answer \in Results => <<c, call[c].answer>> \in acked

(***************************************************************************)
(* Every call is answered, if only with an error, whether or not handlers  *)
(* run (handling.py:31-47).                                                *)
(***************************************************************************)
EveryCallAnswered == \A c \in Calls : <>(call[c].pc = "answered")

(***************************************************************************)
(* A result that comes while its call sleeps is forwarded, even when the   *)
(* time runs out during that sleep (handling.py:31-41).                    *)
(***************************************************************************)
ResultForwarded ==
    \A c \in Calls :
        (call[c].pc = "sleeping" /\ c \in Complete) ~> (call[c].answer \in Results)

=============================================================================
