---------------------------- MODULE TracerSubscribe ----------------------------
(***************************************************************************)
(* tracer's subscribe mode: gunicorn's master loads the application, which *)
(* replaces the subscriptions of an earlier run by its own, and forks      *)
(* workers, which receive the notifications.  The master and every worker  *)
(* hold a copy of the exit handler that removes the subscriptions.         *)
(*                                                                         *)
(* The IDs of the subscriptions are always the same.  What the DSS holds   *)
(* of one is the run that created it, which stands for its version.        *)
(* External are the DSS, and gunicorn, which stops the workers before the  *)
(* master, kills a worker that is too slow, and replaces a worker that     *)
(* exits.                                                                  *)
(***************************************************************************)
EXTENDS Integers, Sequences, FiniteSets

CONSTANTS
    Kinds,         \* the subscriptions, in the order they are made
    Workers,
    MaxRuns,       \* bound: runs of the tracer
    MaxFailures,   \* bound: requests to the DSS that fail
    MaxChanges     \* bound: changes that are notified, per kind

Master == "master"
Procs == Workers \cup {Master}
KindSet == {Kinds[n] : n \in 1..Len(Kinds)}

ASSUME ConstantsAssumption ==
    /\ {MaxRuns, MaxFailures, MaxChanges} \subseteq Nat
    /\ Master \notin Workers /\ Workers # {}
    /\ Kinds \in Seq(KindSet) /\ Len(Kinds) > 0
    /\ \A m, n \in 1..Len(Kinds) : Kinds[m] = Kinds[n] => m = n

\* _subscribe and _unsubscribe come to SCD after RID
ASSUME OrderAssumption == \A n \in 1..Len(Kinds) : Kinds[n] = "scd" => n = Len(Kinds)

VARIABLES
    sub,        \* [kind -> the run whose subscription the DSS holds, or 0]
    run,        \* the current run
    proc,       \* [process -> [pc, phase, n, version]]
    failed,     \* history: requests of this run that failed
    setbacks,   \* history: exit handlers of this run cut short by a failure or a kill
    left,       \* history: a process of this run has begun to exit
    changes,    \* [kind -> changes in the DSS while this run was subscribed]
    logged      \* [kind -> notify_* entries in the log of this run]

history == <<failed, setbacks, left>>
traffic == <<changes, logged>>
vars == <<sub, run, proc, history, traffic>>

Off == [pc |-> "off", phase |-> "off", n |-> 0, version |-> 0]
Running == [pc |-> "running", phase |-> "run", n |-> 0, version |-> 0]
Exited == [pc |-> "exited", phase |-> "stop", n |-> 0, version |-> 0]
Failed == [pc |-> "exited", phase |-> "start", n |-> 0, version |-> 0]

Kind(p) == Kinds[proc[p].n]
InPhase(p, phase) == proc[p].phase = phase
Alive(p) == proc[p].pc \notin {"off", "exited"}

MayFail == failed < MaxFailures

Fails(p) ==
    /\ MayFail
    /\ failed' = failed + 1
    /\ setbacks' = IF InPhase(p, "stop") THEN setbacks + 1 ELSE setbacks
    /\ UNCHANGED left

Goto(p, pc) == proc' = [proc EXCEPT ![p].pc = pc]

(***************************************************************************)
(* SubscriptionManagementError ends init() with sys.exit(-1), before the   *)
(* exit handler is registered, and ends an exit handler; so does the       *)
(* TypeError of a request that is not answered (fetch/__init__.py:156)     *)
(***************************************************************************)
Raise(p) == proc' = [proc EXCEPT ![p] = IF InPhase(p, "start") THEN Failed ELSE Exited]

\* The next kind, or the end of _subscribe or of _unsubscribe
NextKind(p) ==
    IF proc[p].n < Len(Kinds)
    THEN proc' = [proc EXCEPT ![p].pc = "get", ![p].n = @ + 1]
    ELSE IF InPhase(p, "start")
    THEN proc' = [q \in Procs |-> Running]
    ELSE proc' = [proc EXCEPT ![p] = Exited]

Cleared(p) == IF InPhase(p, "start") THEN Goto(p, "put") ELSE NextKind(p)

(***************************************************************************)
(* init()                                                                  *)
(***************************************************************************)
\* Mutant: what an earlier run has left is not cleared
InitWithoutClearing ==
    /\ run < MaxRuns /\ \A p \in Procs : ~Alive(p)
    /\ run' = run + 1
    /\ proc' = [p \in Procs |-> IF p = Master
                                THEN [pc |-> "put", phase |-> "start", n |-> 1, version |-> 0]
                                ELSE Off]
    /\ left' = FALSE /\ setbacks' = 0 /\ failed' = 0
    /\ changes' = [k \in KindSet |-> 0] /\ logged' = changes'
    /\ UNCHANGED sub

init ==
    /\ run < MaxRuns /\ \A p \in Procs : ~Alive(p)
    /\ run' = run + 1
    /\ proc' = [p \in Procs |-> IF p = Master
                                THEN [pc |-> "get", phase |-> "start", n |-> 1, version |-> 0]
                                ELSE Off]
    /\ left' = FALSE /\ setbacks' = 0 /\ failed' = 0
    /\ changes' = [k \in KindSet |-> 0] /\ logged' = changes'
    /\ UNCHANGED sub

(***************************************************************************)
(* _clear_existing_rid_subscription, _clear_existing_scd_subscription      *)
(***************************************************************************)
GetSubscription(p) ==
    /\ proc[p].pc = "get"
    /\ \/ /\ IF sub[Kind(p)] = 0 THEN Cleared(p)
             ELSE proc' = [proc EXCEPT ![p].pc = "del", ![p].version = sub[Kind(p)]]
          /\ UNCHANGED history
       \/ Fails(p) /\ Raise(p)
    /\ UNCHANGED <<sub, run, traffic>>

\* A RID subscription is deleted in the version that was read.  The delete of
\* an SCD subscription names no version, and the DSS serves no such request.
Deletable(p) == Kind(p) # "scd" /\ sub[Kind(p)] = proc[p].version

\* A delete that comes second fails like one that the DSS refuses; a failed
\* one may have been executed
DeleteSubscription(p) ==
    LET gone == [sub EXCEPT ![Kind(p)] = 0] IN
    /\ proc[p].pc = "del"
    /\ \/ Deletable(p) /\ sub' = gone /\ Cleared(p) /\ UNCHANGED history
       \/ ~Deletable(p) /\ Raise(p) /\ UNCHANGED <<sub, history>>
       \/ Fails(p) /\ Raise(p) /\ sub' \in {sub} \cup {s \in {gone} : Deletable(p)}
    /\ UNCHANGED <<run, traffic>>

(***************************************************************************)
(* _subscribe_rid, _subscribe_scd                                          *)
(***************************************************************************)
\* Mutant: the result of the put is not looked at
PutUnchecked(p) ==
    /\ proc[p].pc = "put" /\ NextKind(p)
    /\ \/ sub' = [sub EXCEPT ![Kind(p)] = run] /\ UNCHANGED history
       \/ Fails(p) /\ UNCHANGED sub
    /\ UNCHANGED <<run, traffic>>

PutSubscription(p) ==
    LET made == [sub EXCEPT ![Kind(p)] = run]
        free == sub[Kind(p)] = 0
    IN
    /\ proc[p].pc = "put"
    /\ \/ free /\ sub' = made /\ NextKind(p) /\ UNCHANGED history
       \/ ~free /\ Raise(p) /\ UNCHANGED <<sub, history>>
       \/ Fails(p) /\ Raise(p) /\ sub' \in {sub} \cup {s \in {made} : free}
    /\ UNCHANGED <<run, traffic>>

(***************************************************************************)
(* shutdown(), the exit handler, in the process that exits                 *)
(***************************************************************************)
\* Mutant: the flag "complete" is shared, and set before the work is done
ShutdownOnce(p) ==
    /\ left' = TRUE
    /\ proc' = [proc EXCEPT ![p] = IF left THEN Exited
                                   ELSE [pc |-> "get", phase |-> "stop", n |-> 1, version |-> 0]]
    /\ UNCHANGED <<sub, run, failed, setbacks, traffic>>

shutdown(p) ==
    /\ left' = TRUE
    /\ proc' = [proc EXCEPT ![p] = [pc |-> "get", phase |-> "stop", n |-> 1, version |-> 0]]
    /\ UNCHANGED <<sub, run, failed, setbacks, traffic>>

\* SIGINT, from outside or from terminate_at_expiration
Interrupt ==
    /\ proc[Master].pc = "running"
    /\ Goto(Master, "stopping")
    /\ UNCHANGED <<sub, run, history, traffic>>

\* A worker exits when the master stops, or by itself
WorkerExit(w) == proc[w].pc = "running" /\ shutdown(w)

MasterExit ==
    /\ proc[Master].pc = "stopping" /\ \A w \in Workers : ~Alive(w)
    /\ shutdown(Master)

\* A worker that went by itself is replaced
Respawn(w) ==
    /\ proc[w].pc = "exited" /\ proc[Master].pc = "running"
    /\ proc' = [proc EXCEPT ![w] = Running]
    /\ UNCHANGED <<sub, run, history, traffic>>

\* A worker takes too long to exit
KillWorker(w) ==
    /\ Alive(w) /\ proc[Master].pc = "stopping"
    /\ proc' = [proc EXCEPT ![w] = Exited]
    /\ left' = TRUE /\ setbacks' = setbacks + 1
    /\ UNCHANGED <<sub, run, failed, traffic>>

\* The container is killed
Crash ==
    /\ \E p \in Procs : Alive(p)
    /\ proc' = [p \in Procs |-> Off]
    /\ left' = TRUE
    /\ UNCHANGED <<sub, run, failed, setbacks, traffic>>

(***************************************************************************)
(* Notifications: rid_isa_notification, scd_operation_notification,        *)
(* scd_constraint_notification                                             *)
(***************************************************************************)
Change(k) ==
    /\ sub[k] = run /\ run > 0 /\ changes[k] < MaxChanges
    /\ changes' = [changes EXCEPT ![k] = @ + 1]
    /\ UNCHANGED <<sub, run, proc, history, logged>>

\* A worker logs the notification and answers 204
Notify(w, k) ==
    /\ logged[k] < changes[k] /\ proc[w].pc = "running"
    /\ logged' = [logged EXCEPT ![k] = @ + 1]
    /\ UNCHANGED <<sub, run, proc, history, changes>>

Init ==
    /\ sub = [k \in KindSet |-> 0] /\ run = 0
    /\ proc = [p \in Procs |-> Off]
    /\ failed = 0 /\ setbacks = 0 /\ left = FALSE
    /\ changes = [k \in KindSet |-> 0] /\ logged = changes

Request(p) == GetSubscription(p) \/ DeleteSubscription(p) \/ PutSubscription(p)

WorkerStep(w) == WorkerExit(w) \/ Respawn(w) \/ KillWorker(w)

Done == run = MaxRuns /\ (\A p \in Procs : ~Alive(p)) /\ UNCHANGED vars

Next ==
    \/ init \/ Interrupt \/ MasterExit \/ Crash \/ Done
    \/ \E p \in Procs : Request(p)
    \/ \E w \in Workers : WorkerStep(w)
    \/ \E k \in KindSet : Change(k) \/ \E w \in Workers : Notify(w, k)

Spec == Init /\ [][Next]_vars

-----------------------------------------------------------------------------

(***************************************************************************)
(* Until the first process of a run exits, the DSS holds a subscription of *)
(* this run of every kind, whatever a run before, killed or stopped half   *)
(* way, has left (context.py:98-104, 121-161).                             *)
(***************************************************************************)
RunningSubscribed ==
    proc[Master].pc = "running" /\ ~left => \A k \in KindSet : sub[k] = run

(***************************************************************************)
(* The tracer fails to start only when a request to the DSS fails or an    *)
(* SCD subscription of an earlier run is there, which the tracer cannot    *)
(* delete (mutate/scd.py:83): no RID subscription that was left stands in  *)
(* the way, and no subscription of this run (context.py:121-143, 153-174). *)
(***************************************************************************)
StartSucceeds ==
    proc[Master] = Failed =>
        failed > 0 \/ \E k \in KindSet \cap {"scd"} : sub[k] \notin {0, run}

(***************************************************************************)
(* When the master has exited, no RID subscription is left, although the   *)
(* exit handlers race for the deletes, every handler gives up at the first *)
(* request that fails, as that for an SCD subscription does, and slow      *)
(* workers are killed.  One setback is not enough to leave one behind:     *)
(* another process tries again (context.py:75-96, 106-110, 133-143).       *)
(***************************************************************************)
StopRemoves ==
    proc[Master] = Exited /\ setbacks <= 1 => \A k \in KindSet \ {"scd"} : sub[k] = 0

=============================================================================
