------------------------------ MODULE TracerProofs -----------------------------
(***************************************************************************)
(* Proofs about the tracer: TracerPoll, for any pollers, intervals, items  *)
(* and number of versions and failures, and TracerSubscribe, for any       *)
(* sequence of distinct kinds, any set of workers, and any number of runs, *)
(* failures and changes.                                                   *)
(***************************************************************************)
EXTENDS TracerPoll, TracerSubscribe, TLAPS

-----------------------------------------------------------------------------
(***************************************************************************)
(* TracerPoll: the inductive invariant                                     *)
(***************************************************************************)

\* A reference is to the newest version, and what a USS serves of an item is
\* at most one version older
WorldInv ==
    /\ dss \in [AllItems -> Nat] /\ uss \in [AllItems -> Nat] /\ made \in [AllItems -> Nat]
    /\ \A i \in AllItems : /\ dss[i] \in {0, made[i]}
                           /\ uss[i] # 0 => uss[i] >= made[i] - 1

\* Details that lag behind a reference by at most one version
Lags(entity, reference) ==
    Success(entity) => entity.details \in Nat /\ entity.details >= reference - 1

ResultInv(r) ==
    /\ DOMAIN r.entities \subseteq DOMAIN r.references
    /\ \A i \in DOMAIN r.references : r.references[i] \in Nat
    /\ \A i \in DOMAIN r.entities : Lags(r.entities[i], r.references[i])

\* No reference is to a version that was not made yet
LoopInv ==
    /\ result = [error |-> result.error, references |-> result.references, entities |-> result.entities]
    /\ ResultInv(result)
    /\ DOMAIN result.references \subseteq AllItems
    /\ \A i \in DOMAIN result.references : result.references[i] <= made[i]
    /\ todo \subseteq DOMAIN result.references

CacheInv ==
    /\ cache = [i \in AllItems |-> cache[i]]
    /\ \A i \in AllItems : cache[i] # None =>
          cache[i].reference \in Nat /\ Lags(cache[i].entity, cache[i].reference)

LastInv ==
    /\ last = [p \in PollerNames |-> last[p]]
    /\ \A p \in PollerNames : last[p] # None => ResultInv(last[p])

PollIInv ==
    /\ WorldInv
    /\ pc = "record" => active \in PollerNames
    /\ pc = "details" => active \in PollerNames
    /\ pc # "details" => todo = {}
    /\ LoopInv /\ CacheInv /\ LastInv

\* Nothing is polled, cached or logged
LEMMA PollInitIInv ==
    ASSUME PollInit
    PROVE  PollIInv
<1>1. WorldInv
  BY DEF PollInit, WorldInv
<1>2. LoopInv
  BY DEF PollInit, LoopInv, ResultInv, NoResult
<1>3. CacheInv /\ LastInv
  BY DEF PollInit, CacheInv, LastInv
<1> QED
  BY <1>1, <1>2, <1>3 DEF PollIInv, PollInit

\* Nothing of the loop depends on what the world does, but that versions grow
LEMMA WorldStepKeepsPollIInv ==
    ASSUME PollIInv, WorldInv', UNCHANGED <<loop, cache, last>>,
           \A i \in AllItems : made[i] <= made'[i]
    PROVE  PollIInv'
<1>1. LoopInv'
  <2> SUFFICES ASSUME NEW i \in DOMAIN result.references PROVE result.references[i] <= made'[i]
    BY DEF PollIInv, LoopInv, ResultInv, Lags, loop
  <2>1. i \in AllItems /\ result.references[i] \in Nat /\ result.references[i] <= made[i]
    BY DEF PollIInv, LoopInv, ResultInv
  <2>2. made[i] \in Nat /\ made'[i] \in Nat /\ made[i] <= made'[i]
    BY <2>1 DEF PollIInv, WorldInv
  <2> QED
    BY <2>1, <2>2
<1> QED
  BY <1>1 DEF PollIInv, CacheInv, LastInv, loop

\* An entity is written or deleted in the DSS, and its USS is yet to follow
LEMMA ChangeKeepsPollIInv ==
    ASSUME PollIInv, NEW i \in AllItems, ChangeItem(i)
    PROVE  PollIInv'
<1>1. /\ dss \in [AllItems -> Nat] /\ uss \in [AllItems -> Nat] /\ made \in [AllItems -> Nat]
      /\ dss[i] \in {0, made[i]} /\ uss[i] = dss[i] /\ uss' = uss
  BY DEF ChangeItem, PollIInv, WorldInv
<1>2. CASE made' = [made EXCEPT ![i] = @ + 1] /\ dss' = [dss EXCEPT ![i] = made'[i]]
  <2>1. WorldInv'
    BY <1>1, <1>2 DEF PollIInv, WorldInv
  <2>2. \A j \in AllItems : made[j] <= made'[j]
    BY <1>1, <1>2
  <2> QED
    BY <2>1, <2>2, WorldStepKeepsPollIInv DEF ChangeItem
<1>3. CASE dss' = [dss EXCEPT ![i] = 0] /\ UNCHANGED made
  <2>1. WorldInv'
    BY <1>1, <1>3 DEF PollIInv, WorldInv
  <2>2. \A j \in AllItems : made[j] <= made'[j]
    BY <1>1, <1>3
  <2> QED
    BY <2>1, <2>2, WorldStepKeepsPollIInv DEF ChangeItem
<1> QED
  BY <1>2, <1>3 DEF ChangeItem

\* The USS comes to serve what the DSS has
LEMMA ServeKeepsPollIInv ==
    ASSUME PollIInv, NEW i \in AllItems, Serve(i)
    PROVE  PollIInv'
<1>1. /\ dss \in [AllItems -> Nat] /\ uss \in [AllItems -> Nat] /\ made \in [AllItems -> Nat]
      /\ uss' = [uss EXCEPT ![i] = dss[i]] /\ dss' = dss /\ made' = made
  BY DEF Serve, PollIInv, WorldInv
<1>2. WorldInv'
  BY <1>1 DEF PollIInv, WorldInv
<1>3. \A j \in AllItems : made[j] <= made'[j]
  BY <1>1
<1> QED
  BY <1>2, <1>3, WorldStepKeepsPollIInv DEF Serve

\* What the cache gives out for a reference belongs to it
LEMMA QueryKeepsPollIInv ==
    ASSUME PollIInv, NEW p \in PollerNames, QueryDSS(p)
    PROVE  PollIInv'
<1> DEFINE refs == References(p)
           entities == DOMAIN refs \cap (IF p \in Detailed THEN AllItems ELSE {})
           cached == {i \in entities : Usable(i, refs[i])}
<1>1. /\ UNCHANGED <<world, cache, last>> /\ active' = p
      /\ pc' # "details" => todo' = {}
  BY DEF QueryDSS
<1>2. WorldInv' /\ CacheInv' /\ LastInv'
  BY <1>1 DEF PollIInv, WorldInv, CacheInv, LastInv, world
<1>3. /\ DOMAIN refs \subseteq AllItems
      /\ \A i \in DOMAIN refs : refs[i] = dss[i] /\ refs[i] \in Nat /\ refs[i] <= made[i]
  <2>1. DOMAIN refs \subseteq AllItems /\ \A i \in DOMAIN refs : refs[i] = dss[i]
    BY DEF References, AllItems
  <2>2. \A i \in AllItems : dss[i] \in Nat /\ made[i] \in Nat /\ dss[i] \in {0, made[i]}
    BY DEF PollIInv, WorldInv
  <2> QED
    BY <2>1, <2>2
<1>4. CASE /\ result' = [error |-> None, references |-> refs,
                         entities |-> [i \in cached |-> cache[i].entity]]
           /\ todo' = entities \ cached
  <2> HIDE DEF refs
  <2>1. /\ result'.references = refs /\ result'.entities = [i \in cached |-> cache[i].entity]
        /\ result' = [error |-> result'.error, references |-> result'.references,
                      entities |-> result'.entities]
    BY <1>4
  <2>2. \A i \in cached : Lags(cache[i].entity, refs[i])
    BY <1>3 DEF Usable, PollIInv, CacheInv
  <2>3. cached \subseteq DOMAIN refs /\ todo' \subseteq DOMAIN refs
    BY <1>4
  <2> HIDE DEF cached
  <2>4. ResultInv(result')
    BY <1>3, <2>1, <2>2, <2>3 DEF ResultInv
  <2>5. made' = made
    BY <1>1 DEF world
  <2>6. LoopInv'
    BY <1>3, <2>1, <2>3, <2>4, <2>5 DEF LoopInv, ResultInv
  <2> QED
    BY <1>1, <1>2, <2>6 DEF PollIInv
<1>5. CASE \E e \in Errors : result' = [NoResult EXCEPT !.error = e] /\ todo' = {}
  <2>1. LoopInv'
    BY <1>5 DEF LoopInv, ResultInv, NoResult
  <2> QED
    BY <1>1, <1>2, <2>1 DEF PollIInv
<1> QED
  BY <1>4, <1>5 DEF QueryDSS

\* What a USS serves is at most one version older than any reference to it
LEMMA FetchKeepsPollIInv ==
    ASSUME PollIInv, NEW i \in AllItems, FetchDetails(i)
    PROVE  PollIInv'
<1>1. /\ UNCHANGED <<world, active, last>> /\ pc = "details"
      /\ i \in todo /\ todo' = todo \ {i}
  BY DEF FetchDetails
<1>2. WorldInv' /\ LastInv'
  BY <1>1 DEF PollIInv, WorldInv, LastInv, world
<1>3. PICK entity \in [error : {None}, details : {uss[i]} \ {0}]
                         \cup [error : IF uss[i] = 0 THEN {"404"} ELSE {}, details : {None}]
                         \cup [error : IF QueryMayFail THEN Errors ELSE {}, details : {None}] :
          /\ result' = [result EXCEPT !.entities =
                            [j \in DOMAIN @ \cup {i} |-> IF j = i THEN entity ELSE @[j]]]
          /\ cache' = [cache EXCEPT ![i] = [reference |-> result.references[i], entity |-> entity]]
  BY DEF FetchDetails
<1>4. /\ i \in DOMAIN result.references /\ result.references[i] \in Nat
      /\ result.references[i] <= made[i] /\ made[i] \in Nat /\ uss[i] \in Nat
      /\ uss[i] # 0 => uss[i] >= made[i] - 1
  BY <1>1 DEF PollIInv, LoopInv, ResultInv, WorldInv
<1>5. Lags(entity, result.references[i])
  <2> SUFFICES ASSUME Success(entity)
               PROVE  entity.details \in Nat /\ entity.details >= result.references[i] - 1
    BY DEF Lags
  <2>1. entity.details = uss[i] /\ uss[i] # 0
    BY <1>3, PollingAssumption DEF Success
  <2> QED
    BY <1>4, <2>1
<1>6. CacheInv'
  BY <1>3, <1>4, <1>5 DEF PollIInv, CacheInv
<1>7. /\ result'.references = result.references
      /\ result'.entities = [j \in DOMAIN result.entities \cup {i} |->
                                IF j = i THEN entity ELSE result.entities[j]]
      /\ result' = [error |-> result'.error, references |-> result'.references,
                    entities |-> result'.entities]
  BY <1>3 DEF PollIInv, LoopInv
<1>8. /\ DOMAIN result'.entities = DOMAIN result.entities \cup {i}
      /\ result'.entities[i] = entity
      /\ \A j \in DOMAIN result.entities \ {i} : result'.entities[j] = result.entities[j]
  BY <1>7
<1>9. ResultInv(result')
  BY <1>4, <1>5, <1>7, <1>8 DEF ResultInv, PollIInv, LoopInv
<1>10. LoopInv'
  BY <1>1, <1>7, <1>9 DEF PollIInv, LoopInv, ResultInv, world
<1>11. /\ (pc' = "record" => active' \in PollerNames) /\ (pc' = "details" => active' \in PollerNames)
       /\ pc' # "details" => todo' = {}
  BY <1>1 DEF PollIInv, FetchDetails
<1> QED
  BY <1>2, <1>6, <1>10, <1>11 DEF PollIInv

\* A result that differs is logged
LEMMA RecordKeepsPollIInv ==
    ASSUME PollIInv, Record
    PROVE  PollIInv'
<1>1. /\ UNCHANGED <<world, todo, cache>> /\ pc' = "waiting" /\ result' = NoResult
      /\ last' = last \/ last' = [last EXCEPT ![active] = result]
  BY DEF Record
<1>2. WorldInv' /\ CacheInv'
  BY <1>1 DEF PollIInv, WorldInv, CacheInv, world
<1>3. LastInv'
  BY <1>1 DEF PollIInv, LastInv, LoopInv
<1>4. todo' = {}
  BY <1>1 DEF PollIInv, Record
<1> QED
  BY <1>1, <1>2, <1>3, <1>4 DEF PollIInv, LoopInv, ResultInv, NoResult

\* The loop is interrupted, or ended by a query that raises
LEMMA EndKeepsPollIInv ==
    ASSUME PollIInv, NEW how \in {"stopped", "died"}, End(how)
    PROVE  PollIInv'
<1>1. WorldInv' /\ LastInv'
  BY DEF End, PollIInv, WorldInv, LastInv, world
<1>2. CacheInv'
  BY DEF End, CacheInv
<1>3. LoopInv'
  BY DEF End, LoopInv, ResultInv, NoResult
<1> QED
  BY <1>1, <1>2, <1>3 DEF PollIInv, End

\* Ticks, and steps that change nothing
LEMMA OthersKeepPollIInv ==
    ASSUME PollIInv, UNCHANGED <<world, loop, cache, last>>
    PROVE  PollIInv'
  BY DEF PollIInv, WorldInv, LoopInv, ResultInv, Lags, CacheInv, LastInv, world, loop

\* The invariant is inductive
LEMMA NextKeepsPollIInv ==
    ASSUME PollIInv, [PollNext]_pollVars
    PROVE  PollIInv'
<1>1. CASE LoopStep
  BY <1>1, QueryKeepsPollIInv, FetchKeepsPollIInv, RecordKeepsPollIInv DEF LoopStep
<1>2. CASE KeyboardInterrupt \/ QueryRaises
  BY <1>2, EndKeepsPollIInv DEF KeyboardInterrupt, QueryRaises
<1>3. CASE Tick
  BY <1>3, OthersKeepPollIInv DEF Tick
<1>4. CASE Stopped \/ UNCHANGED pollVars
  BY <1>4, OthersKeepPollIInv DEF Stopped, pollVars
<1>5. CASE \E i \in AllItems : ChangeItem(i) \/ Serve(i)
  BY <1>5, ChangeKeepsPollIInv, ServeKeepsPollIInv
<1> QED
  BY <1>1, <1>2, <1>3, <1>4, <1>5 DEF PollNext

(***************************************************************************)
(* What is read, cached and logged is no further behind than what a USS    *)
(* serves, in every reachable state.                                       *)
(***************************************************************************)
THEOREM PollInvariance == PollSpec => []PollIInv
<1>1. PollInit => PollIInv
  BY PollInitIInv
<1>2. PollIInv /\ [PollNext]_pollVars => PollIInv'
  BY NextKeepsPollIInv
<1> QED
  BY <1>1, <1>2, PTL DEF PollSpec

(***************************************************************************)
(* No result that tracer_poll logs shows details more than one version     *)
(* older than the reference they are logged with, for any pollers, polled  *)
(* in any order, and however requests fail: the cache of details           *)
(* (fetch/scd.py:299-320) never makes them older than what the USS served  *)
(* when the reference was read.                                            *)
(***************************************************************************)
THEOREM DetailsAlwaysLag == PollSpec => []DetailsLag
<1>1. PollIInv => DetailsLag
  BY DEF PollIInv, LastInv, ResultInv, Lags, DetailsLag
<1> QED
  BY <1>1, PollInvariance, PTL

-----------------------------------------------------------------------------
(***************************************************************************)
(* TracerSubscribe: the inductive invariant                                *)
(***************************************************************************)
Stopping == [pc |-> "stopping", phase |-> "run", n |-> 0, version |-> 0]

\* Processes at work on their n-th kind
AtWork == [pc : {"get", "del", "put"}, phase : {"start", "stop"},
           n : 1..Len(Kinds), version : Nat]

TypeInv ==
    /\ sub \in [KindSet -> Nat] /\ run \in Nat /\ \A k \in KindSet : sub[k] <= run
    /\ failed \in Nat /\ setbacks \in Nat /\ left \in BOOLEAN
    /\ proc = [p \in Procs |-> proc[p]]
    /\ proc[Master] \in {Off, Running, Stopping, Exited, Failed} \cup AtWork
    /\ \A w \in Workers : proc[w] \in {Off, Running, Exited} \cup {x \in AtWork : x.phase = "stop"}

RidCleared == \A k \in KindSet \ {"scd"} : sub[k] = 0

\* An SCD subscription of an earlier run
LeftOver == \E k \in KindSet \cap {"scd"} : sub[k] \notin {0, run}

\* Before the master forks, the kinds up to its own have been renewed, and
\* what there is of the others was left by earlier runs
StartInv ==
    InPhase(Master, "start") =>
        /\ ~left /\ \A w \in Workers : proc[w] = Off
        /\ proc[Master].pc # "exited" =>
              /\ \A m \in 1..(proc[Master].n - 1) : sub[Kinds[m]] = run
              /\ \A m \in proc[Master].n..Len(Kinds) : sub[Kinds[m]] # run
        /\ proc[Master].pc = "del" => /\ proc[Master].version # 0
                                      /\ sub[Kind(Master)] = proc[Master].version
        /\ proc[Master].pc = "put" => sub[Kind(Master)] = 0
        /\ proc[Master].pc = "exited" => failed > 0 \/ LeftOver

\* While the master lives on, nothing is subscribed anew, and until a process
\* exits nothing is removed
RunInv ==
    InPhase(Master, "run") =>
        /\ \A w \in Workers : proc[w] # Off
        /\ ~left => /\ \A w \in Workers : proc[w] = Running
                    /\ \A k \in KindSet : sub[k] = run

\* What an exit handler has passed is gone, and what it is about to delete is
\* gone or still as it was read
HandlerInv(p) ==
    InPhase(p, "stop") /\ proc[p].pc # "exited" =>
        /\ proc[p].pc \in {"get", "del"}
        /\ \A m \in 1..(proc[p].n - 1) : sub[Kinds[m]] = 0
        /\ proc[p].pc = "del" => /\ proc[p].version # 0
                                 /\ sub[Kind(p)] \in {0, proc[p].version}

\* An exit handler that will go on to the SCD subscription unless a request
\* fails or it is killed
GoesOn(w) ==
    /\ InPhase(w, "stop") /\ Kind(w) # "scd"
    /\ \/ proc[w].pc = "get"
       \/ proc[w].pc = "del" /\ sub[Kind(w)] # 0

\* Among exit handlers that race, one always does: a delete that comes second
\* gives up only after another handler has gone ahead
Frontier ==
    InPhase(Master, "run") /\ left /\ setbacks = 0 =>
        RidCleared \/ \E w \in Workers : GoesOn(w)

\* The master's exit handler runs alone, and makes up for one setback
StopInv ==
    InPhase(Master, "stop") =>
        /\ left /\ \A w \in Workers : proc[w] = Exited
        /\ setbacks = 0 => RidCleared
        /\ proc[Master].pc = "del" => sub[Kind(Master)] # 0
        /\ proc[Master].pc = "exited" /\ setbacks <= 1 => RidCleared

IInv ==
    /\ TypeInv
    /\ InPhase(Master, "off") => \A w \in Workers : proc[w] = Off
    /\ \A p \in Procs : HandlerInv(p)
    /\ StartInv /\ RunInv /\ Frontier /\ StopInv

\* The subscriptions the receiver keeps
LEMMA KindFacts ==
    /\ Len(Kinds) \in Nat /\ Len(Kinds) > 0
    /\ \A n \in 1..Len(Kinds) : Kinds[n] \in KindSet
    /\ \A k \in KindSet : \E n \in 1..Len(Kinds) : k = Kinds[n]
    /\ Procs = Workers \cup {"master"} /\ "master" \notin Workers
  BY ConstantsAssumption DEF KindSet, Procs, Master

\* A process that has passed every kind has passed all there are
LEMMA AllPassed ==
    ASSUME NEW s, NEW v, NEW n \in 1..Len(Kinds), ~(n < Len(Kinds)),
           \A m \in 1..(n - 1) : s[Kinds[m]] = v, s[Kinds[n]] = v
    PROVE  \A k \in KindSet : s[k] = v
<1> SUFFICES ASSUME NEW k \in KindSet PROVE s[k] = v
  OBVIOUS
<1>1. PICK m \in 1..Len(Kinds) : k = Kinds[m]
  BY KindFacts
<1>2. m \in 1..(n - 1) \/ m = n
  BY KindFacts
<1> QED
  BY <1>1, <1>2

\* A process that is at the SCD subscription, or at the end, has passed all others
LEMMA RidPassed ==
    ASSUME NEW s, NEW n \in 1..Len(Kinds), \A m \in 1..(n - 1) : s[Kinds[m]] = 0,
           Kinds[n] = "scd" \/ (~(n < Len(Kinds)) /\ s[Kinds[n]] = 0)
    PROVE  \A k \in KindSet \ {"scd"} : s[k] = 0
<1> SUFFICES ASSUME NEW k \in KindSet, k # "scd" PROVE s[k] = 0
  OBVIOUS
<1>1. PICK m \in 1..Len(Kinds) : k = Kinds[m]
  BY KindFacts
<1>2. ~(n < Len(Kinds))
  BY KindFacts, OrderAssumption
<1>3. m \in 1..(n - 1) \/ m = n
  BY <1>2, KindFacts
<1> QED
  BY <1>1, <1>3

\* Kinds are distinct: setting the subscription of one leaves the others alone
LEMMA OtherKinds ==
    ASSUME NEW n \in 1..Len(Kinds), NEW m \in 1..(n - 1)
    PROVE  Kinds[m] # Kinds[n] /\ Kinds[m] \in KindSet /\ Kinds[n] \in KindSet
<1>1. m \in 1..Len(Kinds) /\ m # n
  BY KindFacts
<1> QED
  BY <1>1, KindFacts, ConstantsAssumption

\* No run has begun
LEMMA InitIInv ==
    ASSUME Init
    PROVE  IInv
<1>1. TypeInv
  <2>1. sub \in [KindSet -> Nat] /\ run \in Nat /\ \A k \in KindSet : sub[k] <= run
    BY DEF Init
  <2> QED
    BY <2>1, KindFacts DEF Init, TypeInv, Master
<1>2. \A p \in Procs : proc[p] = Off
  BY DEF Init
<1>3. Master \in Procs /\ Off.phase = "off"
  BY DEF Procs, Off
<1>4. \A p \in Procs : HandlerInv(p)
  BY <1>2, <1>3 DEF HandlerInv, InPhase
<1> QED
  BY <1>1, <1>2, <1>3, <1>4
  DEF IInv, StartInv, RunInv, Frontier, StopInv, InPhase, Procs, Init

\* Changes and notifications
LEMMA OthersKeepIInv ==
    ASSUME IInv, UNCHANGED <<sub, run, proc, history>>
    PROVE  IInv'
  BY DEF IInv, TypeInv, HandlerInv, StartInv, RunInv, Frontier, StopInv, GoesOn, RidCleared,
         LeftOver, InPhase, Kind, history

\* The phase that a process is in is that of a whole state
LEMMA Phases ==
    ASSUME IInv
    PROVE  /\ InPhase(Master, "off") <=> proc[Master] = Off
           /\ InPhase(Master, "run") <=> proc[Master] \in {Running, Stopping}
           /\ proc[Master].pc = "exited" <=> proc[Master] \in {Exited, Failed}
           /\ proc[Master].pc = "running" <=> proc[Master] = Running
           /\ proc[Master].pc = "stopping" <=> proc[Master] = Stopping
           /\ Alive(Master) <=> proc[Master] \notin {Off, Exited, Failed}
           /\ \A w \in Workers : /\ Alive(w) <=> proc[w] \notin {Off, Exited}
                                 /\ proc[w].pc = "running" <=> proc[w] = Running
                                 /\ proc[w].pc = "exited" <=> proc[w] = Exited
                                 /\ InPhase(w, "stop") <=> proc[w] \in {Exited} \cup AtWork
                                 /\ ~InPhase(w, "start")
<1>1. /\ proc[Master] \in {Off, Running, Stopping, Exited, Failed} \cup AtWork
      /\ \A w \in Workers : proc[w] \in {Off, Running, Exited} \cup {x \in AtWork : x.phase = "stop"}
  BY DEF IInv, TypeInv
<1>2. ASSUME NEW x \in {Off, Running, Stopping, Exited, Failed} \cup AtWork
      PROVE  /\ x.phase = "off" <=> x = Off
             /\ x.phase = "run" <=> x \in {Running, Stopping}
             /\ x.pc = "exited" <=> x \in {Exited, Failed}
             /\ x.pc = "running" <=> x = Running
             /\ x.pc = "stopping" <=> x = Stopping
             /\ x.pc \notin {"off", "exited"} <=> x \notin {Off, Exited, Failed}
  BY DEF Off, Running, Stopping, Exited, Failed, AtWork
<1>3. ASSUME NEW x \in {Off, Running, Exited} \cup {y \in AtWork : y.phase = "stop"}
      PROVE  /\ x.pc \notin {"off", "exited"} <=> x \notin {Off, Exited}
             /\ x.pc = "running" <=> x = Running
             /\ x.pc = "exited" <=> x = Exited
             /\ x.phase = "stop" <=> x \in {Exited} \cup AtWork
             /\ x.phase # "start"
  BY DEF Off, Running, Exited, AtWork
<1> QED
  BY <1>1, <1>2, <1>3 DEF InPhase, Alive

\* A run begins over what a former one left
LEMMA InitRunKeepsIInv ==
    ASSUME IInv, init
    PROVE  IInv'
<1> DEFINE first == [pc |-> "get", phase |-> "start", n |-> 1, version |-> 0]
<1>1. /\ proc' = [p \in Procs |-> IF p = Master THEN first ELSE Off]
      /\ run' = run + 1 /\ sub' = sub /\ left' = FALSE /\ setbacks' = 0 /\ failed' = 0
  BY DEF init
<1>2. proc'[Master] = first /\ \A w \in Workers : proc'[w] = Off
  BY <1>1, KindFacts DEF Master, Procs
<1>3. first \in AtWork
  BY KindFacts DEF AtWork
<1>4. TypeInv'
  <2>1. sub' \in [KindSet -> Nat] /\ run' \in Nat /\ \A k \in KindSet : sub'[k] <= run'
    BY <1>1 DEF IInv, TypeInv
  <2>2. proc' = [p \in Procs |-> proc'[p]]
    BY <1>1
  <2> QED
    BY <1>1, <1>2, <1>3, <2>1, <2>2 DEF TypeInv
<1>5. \A p \in Procs : HandlerInv(p)'
  BY <1>2 DEF HandlerInv, InPhase, Procs, Off
<1>6. \A m \in 1..Len(Kinds) : sub'[Kinds[m]] # run'
  <2>1. \A k \in KindSet : sub[k] \in Nat /\ sub[k] <= run /\ run \in Nat
    BY DEF IInv, TypeInv
  <2>2. \A k \in KindSet : sub'[k] # run'
    BY <1>1, <2>1
  <2> QED
    BY <2>2, KindFacts
<1>7. StartInv'
  BY <1>1, <1>2, <1>6 DEF StartInv, InPhase
<1> QED
  BY <1>2, <1>4, <1>5, <1>7 DEF IInv, RunInv, Frontier, StopInv, InPhase

\* A run that is killed leaves its subscriptions
LEMMA CrashKeepsIInv ==
    ASSUME IInv, Crash
    PROVE  IInv'
<1>1. proc' = [p \in Procs |-> Off] /\ UNCHANGED <<sub, run, failed, setbacks>> /\ left' = TRUE
  BY DEF Crash
<1>2. \A p \in Procs : proc'[p] = Off
  BY <1>1
<1>3. Master \in Procs /\ Workers \subseteq Procs
  BY DEF Procs
<1>4. TypeInv'
  BY <1>1, <1>2, <1>3 DEF IInv, TypeInv
<1>5. \A p \in Procs : HandlerInv(p)'
  BY <1>2 DEF HandlerInv, InPhase, Off
<1> QED
  BY <1>2, <1>3, <1>4, <1>5 DEF IInv, StartInv, RunInv, Frontier, StopInv, InPhase, Off

-----------------------------------------------------------------------------
(***************************************************************************)
(* Workers                                                                 *)
(***************************************************************************)

\* A worker's step while the master lives: subscriptions go, if at all, and
\* only once a process has begun to exit
LEMMA WorkerStepKeepsIInv ==
    ASSUME IInv, NEW w \in Workers, InPhase(Master, "run"),
           NEW x \in {Running, Exited} \cup {y \in AtWork : y.phase = "stop"},
           proc' = [proc EXCEPT ![w] = x], run' = run,
           sub' \in [KindSet -> Nat], \A k \in KindSet : sub'[k] \in {sub[k], 0},
           failed' \in Nat, setbacks' \in Nat, left' \in BOOLEAN,
           left' \/ (~left /\ sub' = sub /\ x = Running),
           HandlerInv(w)', Frontier'
    PROVE  IInv'
<1>1. Master \in Procs /\ w \in Procs /\ w # Master /\ Workers \subseteq Procs
  BY KindFacts DEF Master
<1>2. /\ DOMAIN proc = Procs /\ proc'[w] = x
      /\ \A q \in Procs : q # w => proc'[q] = proc[q]
  BY <1>1 DEF IInv, TypeInv
<1>3. TypeInv'
  <2>1. proc' = [p \in Procs |-> proc'[p]]
    BY <1>1, <1>2 DEF IInv, TypeInv
  <2>2. proc'[Master] = proc[Master] /\ proc[Master] \in {Off, Running, Stopping, Exited, Failed} \cup AtWork
    BY <1>1, <1>2 DEF IInv, TypeInv
  <2>3. \A v \in Workers : proc'[v] \in {Off, Running, Exited} \cup {y \in AtWork : y.phase = "stop"}
    BY <1>1, <1>2 DEF IInv, TypeInv
  <2>4. \A k \in KindSet : sub'[k] <= run'
    BY DEF IInv, TypeInv
  <2> QED
    BY <2>1, <2>2, <2>3, <2>4 DEF IInv, TypeInv
<1>4. ASSUME NEW q \in Procs PROVE HandlerInv(q)'
  <2>1. CASE q = w
    BY <2>1
  <2>2. CASE q = Master
    BY <1>1, <1>2, <2>2 DEF HandlerInv, InPhase
  <2>3. CASE q \in Workers /\ q # w
    <3> SUFFICES ASSUME InPhase(q, "stop"), proc[q].pc # "exited"
                 PROVE  HandlerInv(q)'
      BY <1>2, <2>3 DEF HandlerInv, InPhase
    <3>1. proc'[q] = proc[q] /\ HandlerInv(q) /\ proc[q] \in AtWork
      BY <1>2, <2>3, Phases DEF IInv, Exited
    <3>2. proc[q].n \in 1..Len(Kinds)
      BY <3>1 DEF AtWork
    <3>3. Kinds[proc[q].n] \in KindSet /\ \A m \in 1..(proc[q].n - 1) : Kinds[m] \in KindSet
      BY <3>2, KindFacts
    <3>4. \A m \in 1..(proc[q].n - 1) : sub'[Kinds[m]] = 0
      BY <3>1, <3>3 DEF HandlerInv
    <3>5. proc[q].pc = "del" => sub'[Kinds[proc[q].n]] \in {0, proc[q].version}
      BY <3>1, <3>3 DEF HandlerInv, Kind
    <3> QED
      BY <3>1, <3>4, <3>5 DEF HandlerInv, Kind, InPhase
  <2> QED
    BY <2>1, <2>2, <2>3, KindFacts DEF Master
<1>5. InPhase(Master, "run")'
  BY <1>1, <1>2 DEF InPhase
<1>6. RunInv'
  <2>1. \A v \in Workers : proc[v] # Off /\ proc'[v] # Off
    BY <1>1, <1>2 DEF IInv, RunInv, Off, Running, Exited, AtWork
  <2>2. ~left' => /\ \A v \in Workers : proc'[v] = Running
                  /\ \A k \in KindSet : sub'[k] = run'
    BY <1>1, <1>2 DEF IInv, RunInv
  <2> QED
    BY <2>1, <2>2 DEF RunInv
<1> QED
  BY <1>3, <1>4, <1>5, <1>6 DEF IInv, StartInv, StopInv, InPhase

\* A worker begins the exit handler it inherited
LEMMA WorkerExitKeepsIInv ==
    ASSUME IInv, NEW w \in Workers, WorkerExit(w)
    PROVE  IInv'
<1> DEFINE x == [pc |-> "get", phase |-> "stop", n |-> 1, version |-> 0]
<1>1. /\ proc[w] = Running /\ proc' = [proc EXCEPT ![w] = x] /\ left' = TRUE
      /\ UNCHANGED <<sub, run, failed, setbacks>>
  BY Phases DEF WorkerExit, shutdown
<1>2. w \in Procs /\ DOMAIN proc = Procs /\ proc'[w] = x
  BY <1>1, KindFacts DEF IInv, TypeInv
<1>3. x \in AtWork
  BY KindFacts DEF AtWork
<1>4. InPhase(Master, "run")
  <2>1. Running # Off /\ Running # Exited
    BY DEF Running, Off, Exited
  <2>2. ~InPhase(Master, "off") /\ ~InPhase(Master, "start") /\ ~InPhase(Master, "stop")
    BY <1>1, <2>1 DEF IInv, StartInv, StopInv
  <2>3. proc[Master] \in {Off, Running, Stopping, Exited, Failed} \cup AtWork
    BY DEF IInv, TypeInv
  <2> QED
    BY <2>2, <2>3 DEF InPhase, Off, Running, Exited, Stopping, Failed, AtWork
<1>5. HandlerInv(w)'
  BY <1>2 DEF HandlerInv, InPhase
<1>6. Frontier'
  <2>1. 1 \in 1..Len(Kinds) /\ \A m \in 1..(1 - 1) : sub[Kinds[m]] = 0
    BY KindFacts
  <2>2. Kinds[1] = "scd" => RidCleared'
    BY <1>1, <2>1, RidPassed DEF RidCleared
  <2>3. Kinds[1] # "scd" => GoesOn(w)'
    BY <1>2 DEF GoesOn, InPhase, Kind
  <2> QED
    BY <2>2, <2>3 DEF Frontier
<1> HIDE DEF x
<1>7. x.phase = "stop"
  BY DEF x
<1> QED
  BY <1>1, <1>3, <1>4, <1>5, <1>6, <1>7, WorkerStepKeepsIInv DEF IInv, TypeInv

\* The master forks a worker again
LEMMA RespawnKeepsIInv ==
    ASSUME IInv, NEW w \in Workers, Respawn(w)
    PROVE  IInv'
<1>1. /\ proc[w] = Exited /\ proc' = [proc EXCEPT ![w] = Running]
      /\ UNCHANGED <<sub, run, failed, setbacks, left>>
      /\ InPhase(Master, "run")
  BY Phases DEF Respawn, history
<1>2. /\ w \in Procs /\ w # Master /\ Master \in Procs /\ DOMAIN proc = Procs /\ proc'[w] = Running
      /\ \A q \in Procs : q # w => proc'[q] = proc[q]
  BY <1>1, KindFacts DEF IInv, TypeInv, Master
<1>3. left
  BY <1>1 DEF IInv, RunInv, Running, Exited
<1>4. HandlerInv(w)'
  BY <1>2 DEF HandlerInv, InPhase, Running
<1>5. Frontier'
  <2> SUFFICES ASSUME setbacks = 0, ~RidCleared PROVE \E v \in Workers : GoesOn(v)'
    BY <1>1 DEF Frontier, RidCleared
  <2>1. PICK v \in Workers : GoesOn(v)
    BY <1>1, <1>3 DEF IInv, Frontier
  <2>2. v # w /\ v \in Procs
    BY <1>1, <2>1, KindFacts DEF GoesOn, Exited
  <2>3. GoesOn(v)'
    BY <1>1, <1>2, <2>1, <2>2 DEF GoesOn, InPhase, Kind
  <2> QED
    BY <2>3
<1> QED
  BY <1>1, <1>3, <1>4, <1>5, WorkerStepKeepsIInv DEF IInv, TypeInv

\* A worker is killed before its exit handler runs
LEMMA KillWorkerKeepsIInv ==
    ASSUME IInv, NEW w \in Workers, KillWorker(w)
    PROVE  IInv'
<1>1. /\ proc' = [proc EXCEPT ![w] = Exited] /\ InPhase(Master, "run")
      /\ UNCHANGED <<sub, run, failed>> /\ left' = TRUE /\ setbacks' = setbacks + 1
  BY Phases DEF KillWorker
<1>2. setbacks \in Nat /\ setbacks' \in Nat /\ setbacks' # 0
  BY <1>1 DEF IInv, TypeInv
<1>3. w \in Procs /\ DOMAIN proc = Procs /\ proc'[w] = Exited
  BY <1>1, KindFacts DEF IInv, TypeInv
<1>4. HandlerInv(w)' /\ Frontier'
  BY <1>2, <1>3 DEF HandlerInv, Exited, Frontier
<1> QED
  BY <1>1, <1>2, <1>4, WorkerStepKeepsIInv DEF IInv, TypeInv

\* A worker makes requests only in its exit handler
LEMMA WorkerAtWork ==
    ASSUME IInv, NEW w \in Workers, proc[w].pc \in {"get", "del", "put"}
    PROVE  /\ proc[w] \in AtWork /\ InPhase(w, "stop") /\ proc[w].pc # "put"
           /\ InPhase(Master, "run") /\ left
<1>1. proc[w] \in {Off, Running, Exited} \cup {y \in AtWork : y.phase = "stop"}
  BY DEF IInv, TypeInv
<1>2. proc[w] \in AtWork /\ InPhase(w, "stop")
  BY <1>1 DEF Off, Running, Exited, InPhase
<1>3. proc[w].pc # "put"
  BY <1>2, KindFacts DEF IInv, HandlerInv
<1>4. proc[w] # Off /\ proc[w] # Exited /\ proc[w] # Running
  BY DEF Off, Running, Exited
<1>5. ~InPhase(Master, "off") /\ ~InPhase(Master, "start") /\ ~InPhase(Master, "stop")
  BY <1>4 DEF IInv, StartInv, StopInv
<1>6. proc[Master] \in {Off, Running, Stopping, Exited, Failed} \cup AtWork
  BY DEF IInv, TypeInv
<1>7. InPhase(Master, "run")
  BY <1>5, <1>6 DEF InPhase, Off, Running, Exited, Stopping, Failed, AtWork
<1>8. left
  BY <1>4, <1>7 DEF IInv, RunInv
<1> QED
  BY <1>2, <1>3, <1>7, <1>8

\* A process that goes on to the next subscription is at work
LEMMA NextIsAtWork ==
    ASSUME NEW x \in AtWork, x.n + 1 \in 1..Len(Kinds)
    PROVE  LET y == [x EXCEPT !.pc = "get", !.n = @ + 1] IN
           y \in AtWork /\ y.phase = x.phase /\ y.pc = "get" /\ y.n = x.n + 1
  BY DEF AtWork

\* A process that goes on to delete what it found is at work
LEMMA DeleterIsAtWork ==
    ASSUME NEW x \in AtWork, NEW v \in Nat
    PROVE  LET y == [x EXCEPT !.pc = "del", !.version = v] IN
           /\ y \in AtWork /\ y.phase = x.phase /\ y.pc = "del" /\ y.n = x.n
           /\ y.version = v
  BY DEF AtWork

\* A handler whose kind is gone goes on, and at the end all are gone
LEMMA WorkerMovesOn ==
    ASSUME IInv, NEW w \in Workers, proc[w].pc \in {"get", "del"}, NextKind(w),
           sub' \in [KindSet -> Nat], \A k \in KindSet : sub'[k] \in {sub[k], 0},
           run' = run, UNCHANGED history, sub'[Kind(w)] = 0
    PROVE  IInv'
<1>1. /\ proc[w] \in AtWork /\ InPhase(w, "stop") /\ InPhase(Master, "run") /\ left
      /\ w \in Procs /\ DOMAIN proc = Procs
  BY WorkerAtWork, KindFacts DEF IInv, TypeInv
<1> DEFINE n == proc[w].n
<1>2. n \in 1..Len(Kinds) /\ Kinds[n] \in KindSet /\ \A m \in 1..(n - 1) : Kinds[m] \in KindSet
  BY <1>1, KindFacts DEF AtWork
<1>3. \A m \in 1..(n - 1) : sub'[Kinds[m]] = 0
  BY <1>1, <1>2 DEF IInv, HandlerInv
<1>4. sub'[Kinds[n]] = 0
  BY DEF Kind
<1>5. failed' \in Nat /\ setbacks' \in Nat /\ left' = left /\ left' \in BOOLEAN
  BY DEF IInv, TypeInv, history
<1>6. CASE n < Len(Kinds)
  <2> DEFINE x == [proc[w] EXCEPT !.pc = "get", !.n = @ + 1]
  <2>1. proc' = [proc EXCEPT ![w] = x]
    BY <1>1, <1>6 DEF NextKind
  <2>2. /\ x \in AtWork /\ x.phase = "stop" /\ x.pc = "get" /\ x.n = n + 1
    <3>1. n + 1 \in 1..Len(Kinds)
      BY <1>2, <1>6, KindFacts
    <3> QED
      BY <1>1, <3>1, NextIsAtWork DEF InPhase
  <2>3. proc'[w] = x
    BY <1>1, <2>1
  <2> HIDE DEF x
  <2>4. \A m \in 1..n : sub'[Kinds[m]] = 0
    BY <1>2, <1>3, <1>4
  <2>5. x.n - 1 = n
    BY <1>2, <2>2
  <2>6. HandlerInv(w)'
    BY <2>2, <2>3, <2>4, <2>5 DEF HandlerInv, InPhase
  <2>7. Frontier'
    <3>1. x.n \in 1..Len(Kinds)
      BY <2>2 DEF AtWork
    <3>2. Kinds[x.n] = "scd" => RidCleared'
      BY <2>4, <2>5, <3>1, RidPassed DEF RidCleared
    <3>3. Kinds[x.n] # "scd" => GoesOn(w)'
      BY <2>2, <2>3 DEF GoesOn, InPhase, Kind
    <3> QED
      BY <3>2, <3>3 DEF Frontier
  <2> QED
    BY <1>1, <1>5, <2>1, <2>2, <2>6, <2>7, WorkerStepKeepsIInv
<1>7. CASE ~(n < Len(Kinds))
  <2>1. proc' = [proc EXCEPT ![w] = Exited]
    BY <1>1, <1>7 DEF NextKind, InPhase
  <2>2. RidCleared'
    <3> HIDE DEF n
    <3> QED
      BY <1>2, <1>3, <1>4, <1>7, RidPassed DEF RidCleared
  <2>3. HandlerInv(w)' /\ Frontier'
    BY <1>1, <2>1, <2>2 DEF HandlerInv, Frontier, Exited
  <2> QED
    BY <1>1, <1>5, <2>1, <2>3, WorkerStepKeepsIInv
<1> QED
  BY <1>6, <1>7

\* A handler that gives up because another came first
LEMMA WorkerGivesUp ==
    ASSUME IInv, NEW w \in Workers, proc[w].pc \in {"get", "del"}, Raise(w),
           sub' \in [KindSet -> Nat], \A k \in KindSet : sub'[k] \in {sub[k], 0},
           run' = run, failed' \in Nat, left' = left,
           \/ Fails(w)
           \/ ~GoesOn(w) /\ sub' = sub /\ setbacks' = setbacks
    PROVE  IInv'
<1>1. /\ proc[w] \in AtWork /\ InPhase(w, "stop") /\ InPhase(Master, "run") /\ left
      /\ w \in Procs /\ DOMAIN proc = Procs
  BY WorkerAtWork, KindFacts DEF IInv, TypeInv
<1>2. proc' = [proc EXCEPT ![w] = Exited]
  BY <1>1 DEF Raise, InPhase
<1>3. proc'[w] = Exited /\ HandlerInv(w)' /\ \A q \in Procs : q # w => proc'[q] = proc[q]
  BY <1>1, <1>2 DEF HandlerInv, Exited
<1>4. left' \in BOOLEAN
  BY DEF IInv, TypeInv
<1>5. setbacks' \in Nat /\ Frontier'
  <2>1. CASE Fails(w)
    <3>1. setbacks \in Nat /\ setbacks' = setbacks + 1
      BY <1>1, <2>1 DEF Fails, IInv, TypeInv
    <3>2. setbacks' \in Nat /\ setbacks' # 0
      BY <3>1
    <3> QED
      BY <3>2 DEF Frontier
  <2>2. CASE ~GoesOn(w) /\ sub' = sub /\ setbacks' = setbacks
    <3>1. setbacks' \in Nat
      BY <2>2 DEF IInv, TypeInv
    <3> SUFFICES ASSUME setbacks = 0, ~RidCleared PROVE \E v \in Workers : GoesOn(v)'
      BY <2>2, <3>1 DEF Frontier, RidCleared
    <3>2. PICK v \in Workers : GoesOn(v)
      BY <1>1 DEF IInv, Frontier
    <3>3. v # w /\ v \in Procs
      BY <2>2, <3>2, KindFacts
    <3>4. GoesOn(v)'
      BY <1>3, <2>2, <3>2, <3>3 DEF GoesOn, InPhase, Kind
    <3> QED
      BY <3>4
  <2> QED
    BY <2>1, <2>2
<1> QED
  BY <1>1, <1>2, <1>3, <1>4, <1>5, WorkerStepKeepsIInv

\* A worker's exit handler reads a subscription
LEMMA WorkerGetKeepsIInv ==
    ASSUME IInv, NEW w \in Workers, GetSubscription(w)
    PROVE  IInv'
<1>1. /\ proc[w] \in AtWork /\ InPhase(w, "stop") /\ InPhase(Master, "run") /\ left
      /\ w \in Procs /\ DOMAIN proc = Procs /\ proc[w].pc = "get" /\ sub' = sub /\ run' = run
  BY WorkerAtWork, KindFacts DEF GetSubscription, IInv, TypeInv
<1>2. sub \in [KindSet -> Nat] /\ Kind(w) \in KindSet
  BY <1>1, KindFacts DEF IInv, TypeInv, AtWork, Kind
<1>3. CASE sub[Kind(w)] = 0 /\ Cleared(w) /\ UNCHANGED history
  <2>1. NextKind(w)
    BY <1>1, <1>3 DEF Cleared, InPhase
  <2> QED
    BY <1>1, <1>2, <1>3, <2>1, WorkerMovesOn
<1>4. CASE /\ sub[Kind(w)] # 0 /\ UNCHANGED history
           /\ proc' = [proc EXCEPT ![w].pc = "del", ![w].version = sub[Kind(w)]]
  <2> DEFINE x == [proc[w] EXCEPT !.pc = "del", !.version = sub[Kind(w)]]
  <2>1. proc' = [proc EXCEPT ![w] = x] /\ proc'[w] = x
    BY <1>1, <1>4
  <2>2. /\ x \in AtWork /\ x.phase = "stop" /\ x.pc = "del" /\ x.n = proc[w].n
        /\ x.version = sub[Kind(w)]
    BY <1>1, <1>2 DEF AtWork, InPhase
  <2> HIDE DEF x
  <2>3. HandlerInv(w)'
    BY <1>1, <1>4, <2>1, <2>2, KindFacts DEF HandlerInv, InPhase, Kind, IInv
  <2>4. Frontier'
    <3>1. proc[w].n \in 1..Len(Kinds) /\ \A m \in 1..(proc[w].n - 1) : sub'[Kinds[m]] = 0
      BY <1>1, KindFacts DEF AtWork, IInv, HandlerInv
    <3>2. Kind(w) = "scd" => RidCleared'
      BY <3>1, RidPassed DEF RidCleared, Kind
    <3>3. Kind(w) # "scd" => GoesOn(w)'
      BY <1>1, <1>4, <2>1, <2>2 DEF GoesOn, InPhase, Kind
    <3> QED
      BY <3>2, <3>3 DEF Frontier
  <2>5. failed' \in Nat /\ setbacks' \in Nat /\ left' = left /\ left' \in BOOLEAN
    BY <1>4 DEF IInv, TypeInv, history
  <2> QED
    BY <1>1, <1>2, <2>1, <2>2, <2>3, <2>4, <2>5, WorkerStepKeepsIInv
<1>5. CASE Fails(w) /\ Raise(w)
  <2>1. failed' \in Nat /\ left' = left
    BY <1>5 DEF Fails, IInv, TypeInv
  <2> QED
    BY <1>1, <1>2, <1>5, <2>1, WorkerGivesUp
<1> QED
  BY <1>3, <1>4, <1>5 DEF GetSubscription

\* A worker's exit handler deletes a subscription
LEMMA WorkerDeleteKeepsIInv ==
    ASSUME IInv, NEW w \in Workers, DeleteSubscription(w)
    PROVE  IInv'
<1> DEFINE gone == [sub EXCEPT ![Kind(w)] = 0]
<1>1. /\ proc[w] \in AtWork /\ InPhase(w, "stop") /\ InPhase(Master, "run") /\ left
      /\ w \in Procs /\ DOMAIN proc = Procs /\ proc[w].pc = "del" /\ run' = run
  BY WorkerAtWork, KindFacts DEF DeleteSubscription, IInv, TypeInv
<1>2. sub \in [KindSet -> Nat] /\ Kind(w) \in KindSet
  BY <1>1, KindFacts DEF IInv, TypeInv, AtWork, Kind
<1>3. gone \in [KindSet -> Nat] /\ gone[Kind(w)] = 0 /\ \A k \in KindSet : gone[k] \in {sub[k], 0}
  BY <1>2
<1>4. CASE Deletable(w) /\ sub' = gone /\ Cleared(w) /\ UNCHANGED history
  <2>1. NextKind(w)
    BY <1>1, <1>4 DEF Cleared, InPhase
  <2> QED
    BY <1>1, <1>3, <1>4, <2>1, WorkerMovesOn
<1>5. CASE ~Deletable(w) /\ Raise(w) /\ UNCHANGED <<sub, history>>
  <2>1. sub[Kind(w)] = 0 \/ Kind(w) = "scd"
    BY <1>1, <1>5 DEF Deletable, IInv, HandlerInv
  <2>2. ~GoesOn(w)
    BY <1>1, <2>1 DEF GoesOn
  <2>3. failed' \in Nat /\ left' = left /\ setbacks' = setbacks
    BY <1>5 DEF IInv, TypeInv, history
  <2> QED
    BY <1>1, <1>2, <1>5, <2>2, <2>3, WorkerGivesUp
<1>6. CASE Fails(w) /\ Raise(w) /\ sub' \in {sub, gone}
  <2>1. failed' \in Nat /\ left' = left
    BY <1>6 DEF Fails, IInv, TypeInv
  <2>2. sub' \in [KindSet -> Nat] /\ \A k \in KindSet : sub'[k] \in {sub[k], 0}
    BY <1>2, <1>3, <1>6
  <2> QED
    BY <1>1, <1>6, <2>1, <2>2, WorkerGivesUp
<1> QED
  BY <1>4, <1>5, <1>6 DEF DeleteSubscription

\* A request of a worker's exit handler
LEMMA WorkerRequestKeepsIInv ==
    ASSUME IInv, NEW w \in Workers, Request(w)
    PROVE  IInv'
<1>1. ~PutSubscription(w)
  BY WorkerAtWork DEF PutSubscription
<1> QED
  BY <1>1, WorkerGetKeepsIInv, WorkerDeleteKeepsIInv DEF Request

-----------------------------------------------------------------------------
(***************************************************************************)
(* The master                                                              *)
(***************************************************************************)

\* The signal to the master changes nothing in the DSS
LEMMA InterruptKeepsIInv ==
    ASSUME IInv, Interrupt
    PROVE  IInv'
<1>1. /\ proc[Master] = Running /\ proc' = [proc EXCEPT ![Master].pc = "stopping"]
      /\ UNCHANGED <<sub, run, failed, setbacks, left>>
  BY Phases DEF Interrupt, Goto, history
<1>2. Master \in Procs /\ DOMAIN proc = Procs /\ proc = [p \in Procs |-> proc[p]]
  BY KindFacts DEF IInv, TypeInv, Master
<1>3. proc'[Master] = Stopping /\ \A w \in Workers : w \in Procs /\ w # Master /\ proc'[w] = proc[w]
  BY <1>1, <1>2, KindFacts DEF Running, Stopping, Master
<1>4. InPhase(Master, "run") /\ InPhase(Master, "run")'
  BY <1>1, <1>3 DEF InPhase, Running, Stopping
<1>5. TypeInv'
  <2>1. proc' = [p \in Procs |-> proc'[p]]
    BY <1>1, <1>2
  <2> QED
    BY <1>1, <1>3, <2>1 DEF IInv, TypeInv
<1>6. \A p \in Procs : HandlerInv(p)'
  <2>1. HandlerInv(Master)'
    BY <1>4 DEF HandlerInv, InPhase
  <2>2. \A w \in Workers : HandlerInv(w)'
    BY <1>1, <1>3 DEF IInv, HandlerInv, InPhase, Kind
  <2> QED
    BY <2>1, <2>2 DEF Procs
<1>7. RunInv'
  BY <1>1, <1>3, <1>4 DEF IInv, RunInv
<1>8. Frontier'
  BY <1>1, <1>3, <1>4 DEF IInv, Frontier, GoesOn, RidCleared, InPhase, Kind
<1> QED
  BY <1>4, <1>5, <1>6, <1>7, <1>8 DEF IInv, StartInv, StopInv, InPhase

\* A step of the master alone in its exit handler, or into it
LEMMA MasterStopStep ==
    ASSUME IInv, NEW x \in {Exited} \cup {y \in AtWork : y.phase = "stop"},
           proc' = [proc EXCEPT ![Master] = x], run' = run,
           \A w \in Workers : proc[w] = Exited,
           sub' \in [KindSet -> Nat], \A k \in KindSet : sub'[k] \in {sub[k], 0},
           failed' \in Nat, setbacks' \in Nat, left' = TRUE,
           HandlerInv(Master)',
           setbacks' = 0 => RidCleared',
           x.pc = "del" => sub'[Kinds[x.n]] # 0,
           x.pc = "exited" /\ setbacks' <= 1 => RidCleared'
    PROVE  IInv'
<1>1. Master \in Procs /\ DOMAIN proc = Procs /\ proc = [p \in Procs |-> proc[p]]
  BY KindFacts DEF IInv, TypeInv, Master
<1>2. proc'[Master] = x /\ \A w \in Workers : w \in Procs /\ w # Master /\ proc'[w] = Exited
  BY <1>1, KindFacts DEF Master
<1>3. TypeInv'
  <2>1. proc' = [p \in Procs |-> proc'[p]]
    BY <1>1
  <2>2. run' \in Nat /\ \A k \in KindSet : sub'[k] <= run'
    BY DEF IInv, TypeInv
  <2> QED
    BY <1>2, <2>1, <2>2 DEF TypeInv
<1>4. x.phase = "stop"
  BY DEF Exited
<1>5. \A p \in Procs : HandlerInv(p)'
  <2>1. \A w \in Workers : HandlerInv(w)'
    BY <1>2 DEF HandlerInv, Exited
  <2> QED
    BY <2>1 DEF Procs
<1>6. StopInv'
  BY <1>2 DEF StopInv, Kind
<1> QED
  BY <1>2, <1>3, <1>4, <1>5, <1>6 DEF IInv, StartInv, RunInv, Frontier, InPhase

\* The master, its workers gone, begins its exit handler
LEMMA MasterExitKeepsIInv ==
    ASSUME IInv, MasterExit
    PROVE  IInv'
<1> DEFINE x == [pc |-> "get", phase |-> "stop", n |-> 1, version |-> 0]
<1>1. /\ proc[Master] = Stopping /\ proc' = [proc EXCEPT ![Master] = x] /\ left' = TRUE
      /\ UNCHANGED <<sub, run, failed, setbacks>>
      /\ \A w \in Workers : proc[w] \in {Off, Exited}
  BY Phases DEF MasterExit, shutdown
<1>2. InPhase(Master, "run")
  BY <1>1 DEF InPhase, Stopping
<1>3. \A w \in Workers : proc[w] = Exited
  BY <1>1, <1>2 DEF IInv, RunInv
<1>4. left
  BY <1>2, <1>3, ConstantsAssumption DEF IInv, RunInv, Exited, Running
<1>5. setbacks = 0 => RidCleared
  BY <1>2, <1>3, <1>4 DEF IInv, Frontier, GoesOn, Exited
<1>6. x \in AtWork /\ x.phase = "stop" /\ x.pc = "get" /\ x.n = 1
  BY KindFacts DEF AtWork
<1>7. proc'[Master] = x
  BY <1>1, KindFacts DEF IInv, TypeInv, Master
<1> HIDE DEF x
<1>8. HandlerInv(Master)'
  BY <1>6, <1>7 DEF HandlerInv, InPhase
<1>9. RidCleared' <=> RidCleared
  BY <1>1 DEF RidCleared
<1> QED
  BY <1>1, <1>3, <1>5, <1>6, <1>8, <1>9, MasterStopStep DEF IInv, TypeInv

\* The requests of the master's exit handler.  Nobody comes before it, so it
\* gives up only when a request fails or at the SCD subscription
LEMMA MasterAtStop ==
    ASSUME IInv, InPhase(Master, "stop"), proc[Master].pc \in {"get", "del", "put"}
    PROVE  /\ proc[Master] \in AtWork /\ proc[Master].pc # "put" /\ left
           /\ \A w \in Workers : proc[w] = Exited
           /\ setbacks = 0 => RidCleared
           /\ Kind(Master) \in KindSet /\ sub \in [KindSet -> Nat]
           /\ Master \in Procs /\ DOMAIN proc = Procs
           /\ proc[Master].pc = "del" => Deletable(Master) \/ Kind(Master) = "scd"
<1>1. Master \in Procs /\ DOMAIN proc = Procs /\ sub \in [KindSet -> Nat]
  BY KindFacts DEF IInv, TypeInv, Master
<1>2. proc[Master] \in AtWork
  BY DEF IInv, TypeInv, Off, Running, Stopping, Exited, Failed
<1>3. Kind(Master) \in KindSet
  BY <1>2, KindFacts DEF AtWork, Kind
<1>4. HandlerInv(Master) /\ StopInv
  BY <1>1 DEF IInv
<1>5. proc[Master].pc # "exited" /\ proc[Master].pc # "put"
  BY <1>4 DEF HandlerInv
<1>6. proc[Master].pc = "del" => Deletable(Master) \/ Kind(Master) = "scd"
  BY <1>4, <1>5 DEF HandlerInv, StopInv, Deletable
<1> QED
  BY <1>1, <1>2, <1>3, <1>4, <1>5, <1>6 DEF StopInv

\* The master's exit handler is done with a subscription that is gone
LEMMA MasterMovesOn ==
    ASSUME IInv, InPhase(Master, "stop"), proc[Master].pc \in {"get", "del"}, NextKind(Master),
           sub' \in [KindSet -> Nat], \A k \in KindSet : sub'[k] \in {sub[k], 0},
           run' = run, UNCHANGED history, sub'[Kind(Master)] = 0
    PROVE  IInv'
<1>1. /\ proc[Master] \in AtWork /\ Master \in Procs /\ DOMAIN proc = Procs /\ HandlerInv(Master)
      /\ left /\ \A w \in Workers : proc[w] = Exited
      /\ setbacks = 0 => RidCleared
  <2>1. /\ proc[Master] \in AtWork /\ Master \in Procs /\ DOMAIN proc = Procs
        /\ left /\ \A w \in Workers : proc[w] = Exited
        /\ setbacks = 0 => RidCleared
    BY MasterAtStop
  <2>2. HandlerInv(Master)
    BY <2>1 DEF IInv
  <2> QED
    BY <2>1, <2>2
<1> DEFINE n == proc[Master].n
<1>2. n \in 1..Len(Kinds) /\ Kinds[n] \in KindSet /\ \A m \in 1..(n - 1) : Kinds[m] \in KindSet
  <2>1. n \in 1..Len(Kinds)
    BY <1>1 DEF AtWork
  <2> HIDE DEF n
  <2> QED
    BY <2>1, KindFacts
<1>3. \A m \in 1..(n - 1) : sub'[Kinds[m]] = 0
  BY <1>1, <1>2 DEF HandlerInv
<1>4. sub'[Kinds[n]] = 0
  BY DEF Kind
<1>5. failed' \in Nat /\ setbacks' \in Nat /\ setbacks' = setbacks
  BY DEF IInv, TypeInv, history
<1>6. left' = TRUE
  BY <1>1 DEF IInv, TypeInv, history
<1>7. RidCleared => RidCleared'
  BY DEF RidCleared
<1>8. CASE n < Len(Kinds)
  <2> DEFINE x == [proc[Master] EXCEPT !.pc = "get", !.n = @ + 1]
  <2>1. proc' = [proc EXCEPT ![Master] = x]
    BY <1>1, <1>8 DEF NextKind
  <2>2. n + 1 \in 1..Len(Kinds)
    BY <1>2, <1>8, KindFacts
  <2>3. /\ x \in AtWork /\ x.phase = "stop" /\ x.pc = "get" /\ x.n = n + 1
    BY <1>1, <2>2, NextIsAtWork DEF InPhase
  <2>4. proc'[Master] = x
    BY <1>1, <2>1
  <2> HIDE DEF x
  <2>5. \A m \in 1..n : sub'[Kinds[m]] = 0
    BY <1>2, <1>3, <1>4
  <2>6. HandlerInv(Master)'
    <3>1. x.n - 1 = n
      BY <1>2, <2>3
    <3> QED
      BY <2>3, <2>4, <2>5, <3>1 DEF HandlerInv, InPhase
  <2> QED
    BY <1>1, <1>5, <1>6, <1>7, <2>1, <2>3, <2>6, MasterStopStep
<1>9. CASE ~(n < Len(Kinds))
  <2>1. proc' = [proc EXCEPT ![Master] = Exited]
    BY <1>1, <1>9 DEF NextKind, InPhase
  <2>2. RidCleared'
    <3> HIDE DEF n
    <3> QED
      BY <1>2, <1>3, <1>4, <1>9, RidPassed DEF RidCleared
  <2>3. HandlerInv(Master)' /\ Exited.pc = "exited"
    BY <1>1, <2>1 DEF HandlerInv, Exited
  <2> QED
    BY <1>1, <1>5, <1>6, <2>1, <2>2, <2>3, MasterStopStep
<1> QED
  BY <1>8, <1>9

\* Its failure is a second setback, or everything was gone before
LEMMA MasterFails ==
    ASSUME IInv, InPhase(Master, "stop"), proc[Master].pc \in {"get", "del"},
           Fails(Master), Raise(Master),
           sub' \in [KindSet -> Nat], \A k \in KindSet : sub'[k] \in {sub[k], 0}, run' = run
    PROVE  IInv'
<1>1. /\ Master \in Procs /\ DOMAIN proc = Procs /\ left /\ \A w \in Workers : proc[w] = Exited
      /\ setbacks = 0 => RidCleared
  BY MasterAtStop
<1>2. proc' = [proc EXCEPT ![Master] = Exited] /\ proc'[Master] = Exited
  BY <1>1 DEF Raise, InPhase
<1>3. failed' \in Nat /\ setbacks \in Nat /\ setbacks' = setbacks + 1 /\ left' = left
  BY DEF Fails, IInv, TypeInv
<1>4. setbacks' \in Nat /\ setbacks' # 0 /\ (setbacks' <= 1 => setbacks = 0)
  BY <1>3
<1>5. RidCleared => RidCleared'
  BY DEF RidCleared
<1>6. left' = TRUE
  BY <1>1, <1>3 DEF IInv, TypeInv
<1>7. HandlerInv(Master)' /\ Exited.pc = "exited"
  BY <1>2 DEF HandlerInv, Exited
<1> QED
  BY <1>1, <1>2, <1>3, <1>4, <1>5, <1>6, <1>7, MasterStopStep

\* It gives up at the SCD subscription, the last one
LEMMA MasterGivesUp ==
    ASSUME IInv, InPhase(Master, "stop"), proc[Master].pc = "del", Kind(Master) = "scd",
           Raise(Master), UNCHANGED <<sub, run, history>>
    PROVE  IInv'
<1>1. /\ proc[Master] \in AtWork /\ Master \in Procs /\ DOMAIN proc = Procs
      /\ left /\ \A w \in Workers : proc[w] = Exited
      /\ sub \in [KindSet -> Nat]
  BY MasterAtStop
<1>2. proc' = [proc EXCEPT ![Master] = Exited] /\ proc'[Master] = Exited
  BY <1>1 DEF Raise, InPhase
<1>3. failed' \in Nat /\ setbacks' \in Nat /\ left' = TRUE
  BY <1>1 DEF history, IInv, TypeInv
<1>4. RidCleared'
  <2>1. proc[Master].n \in 1..Len(Kinds) /\ \A m \in 1..(proc[Master].n - 1) : sub[Kinds[m]] = 0
    BY <1>1 DEF AtWork, IInv, HandlerInv
  <2> QED
    BY <2>1, RidPassed DEF RidCleared, Kind
<1>5. HandlerInv(Master)' /\ Exited.pc = "exited"
  BY <1>2 DEF HandlerInv, Exited
<1> QED
  BY <1>1, <1>2, <1>3, <1>4, <1>5, MasterStopStep

\* A request of the master's exit handler
LEMMA MasterStopRequestKeepsIInv ==
    ASSUME IInv, InPhase(Master, "stop"), Request(Master)
    PROVE  IInv'
<1> DEFINE gone == [sub EXCEPT ![Kind(Master)] = 0]
<1>1. /\ proc[Master] \in AtWork /\ proc[Master].pc \in {"get", "del"} /\ left
      /\ \A w \in Workers : proc[w] = Exited
      /\ setbacks = 0 => RidCleared
      /\ Kind(Master) \in KindSet /\ sub \in [KindSet -> Nat]
      /\ Master \in Procs /\ DOMAIN proc = Procs /\ HandlerInv(Master)
      /\ proc[Master].pc = "del" => Deletable(Master) \/ Kind(Master) = "scd"
  <2>1. proc[Master].pc \in {"get", "del", "put"}
    BY DEF Request, GetSubscription, DeleteSubscription, PutSubscription
  <2> QED
    BY <2>1, MasterAtStop DEF IInv
<1>2. gone \in [KindSet -> Nat] /\ gone[Kind(Master)] = 0
      /\ \A k \in KindSet : gone[k] \in {sub[k], 0}
  BY <1>1
<1>3. ASSUME proc[Master].pc = "get", sub[Kind(Master)] = 0, Cleared(Master),
             UNCHANGED history, sub' = sub, run' = run
      PROVE  IInv'
  <2>1. NextKind(Master)
    BY <1>3 DEF Cleared, InPhase
  <2> QED
    BY <1>1, <1>3, <2>1, MasterMovesOn
<1>4. ASSUME sub[Kind(Master)] # 0, UNCHANGED history, sub' = sub, run' = run,
             proc' = [proc EXCEPT ![Master].pc = "del", ![Master].version = sub[Kind(Master)]]
      PROVE  IInv'
  <2> DEFINE x == [proc[Master] EXCEPT !.pc = "del", !.version = sub[Kind(Master)]]
  <2>1. proc' = [proc EXCEPT ![Master] = x] /\ proc'[Master] = x
    BY <1>1, <1>4
  <2>2. /\ x \in AtWork /\ x.phase = "stop" /\ x.pc = "del" /\ x.n = proc[Master].n
        /\ x.version = sub[Kind(Master)]
    <3>1. sub[Kind(Master)] \in Nat
      BY <1>1
    <3> QED
      BY <1>1, <3>1, DeleterIsAtWork DEF InPhase
  <2> HIDE DEF x
  <2>3. HandlerInv(Master)'
    BY <1>1, <1>4, <2>1, <2>2 DEF HandlerInv, InPhase, Kind
  <2>4. failed' \in Nat /\ setbacks' \in Nat /\ setbacks' = setbacks /\ left' = TRUE
    BY <1>1, <1>4 DEF IInv, TypeInv, history
  <2>5. RidCleared => RidCleared'
    BY <1>4 DEF RidCleared
  <2>6. sub'[Kinds[x.n]] # 0
    BY <1>4, <2>2 DEF Kind
  <2> QED
    BY <1>1, <1>4, <2>1, <2>2, <2>3, <2>4, <2>5, <2>6, MasterStopStep
<1>5. CASE GetSubscription(Master)
  BY <1>1, <1>3, <1>4, <1>5, MasterFails DEF GetSubscription
<1>6. CASE DeleteSubscription(Master)
  <2>1. proc[Master].pc = "del" /\ run' = run
    BY <1>6 DEF DeleteSubscription
  <2>2. CASE sub' = gone /\ Cleared(Master) /\ UNCHANGED history
    <3>1. NextKind(Master)
      BY <2>2 DEF Cleared, InPhase
    <3> QED
      BY <1>1, <1>2, <2>1, <2>2, <3>1, MasterMovesOn
  <2>3. CASE Fails(Master) /\ Raise(Master) /\ sub' \in {sub, gone}
    <3>1. sub' \in [KindSet -> Nat] /\ \A k \in KindSet : sub'[k] \in {sub[k], 0}
      BY <1>1, <1>2, <2>3
    <3> QED
      BY <2>1, <2>3, <3>1, MasterFails
  <2>4. CASE ~Deletable(Master) /\ Raise(Master) /\ UNCHANGED <<sub, history>>
    BY <1>1, <2>1, <2>4, MasterGivesUp
  <2> QED
    BY <1>6, <2>1, <2>2, <2>3, <2>4 DEF DeleteSubscription
<1>7. ~PutSubscription(Master)
  BY <1>1 DEF PutSubscription
<1> QED
  BY <1>5, <1>6, <1>7 DEF Request

\* A step of the master while it starts, with every worker still to come
LEMMA MasterStartStep ==
    ASSUME IInv, InPhase(Master, "start"),
           NEW x \in {Failed} \cup {y \in AtWork : y.phase = "start"},
           proc' = [proc EXCEPT ![Master] = x], run' = run,
           sub' \in [KindSet -> Nat], \A k \in KindSet : sub'[k] \in {sub[k], 0, run},
           failed' \in Nat, setbacks' \in Nat, left' = left,
           x.pc # "exited" => /\ \A m \in 1..(x.n - 1) : sub'[Kinds[m]] = run
                              /\ \A m \in x.n..Len(Kinds) : sub'[Kinds[m]] # run,
           x.pc = "del" => x.version # 0 /\ sub'[Kinds[x.n]] = x.version,
           x.pc = "put" => sub'[Kinds[x.n]] = 0,
           x.pc = "exited" => failed' > 0 \/ LeftOver'
    PROVE  IInv'
<1>1. Master \in Procs /\ DOMAIN proc = Procs /\ proc = [p \in Procs |-> proc[p]]
  BY KindFacts DEF IInv, TypeInv, Master
<1>2. ~left /\ \A w \in Workers : proc[w] = Off
  BY DEF IInv, StartInv
<1>3. proc'[Master] = x /\ \A w \in Workers : w \in Procs /\ w # Master /\ proc'[w] = Off
  BY <1>1, <1>2, KindFacts DEF Master
<1>4. TypeInv'
  <2>1. proc' = [p \in Procs |-> proc'[p]]
    BY <1>1
  <2>2. run' \in Nat /\ left' \in BOOLEAN /\ \A k \in KindSet : sub'[k] <= run'
    BY DEF IInv, TypeInv
  <2> QED
    BY <1>3, <2>1, <2>2 DEF TypeInv
<1>5. x.phase = "start"
  BY DEF Failed
<1>6. \A p \in Procs : HandlerInv(p)'
  BY <1>3, <1>5 DEF Procs, HandlerInv, InPhase, Off
<1>7. StartInv'
  BY <1>2, <1>3 DEF StartInv, Kind
<1> QED
  BY <1>3, <1>4, <1>5, <1>6, <1>7 DEF IInv, RunInv, Frontier, StopInv, InPhase

\* What there is while the master subscribes
LEMMA MasterAtStart ==
    ASSUME IInv, InPhase(Master, "start"), proc[Master].pc \in {"get", "del", "put"}
    PROVE  /\ proc[Master] \in AtWork
           /\ Kind(Master) \in KindSet /\ sub \in [KindSet -> Nat]
           /\ Master \in Procs /\ DOMAIN proc = Procs
           /\ \A m \in 1..(proc[Master].n - 1) : sub[Kinds[m]] = run
           /\ \A m \in proc[Master].n..Len(Kinds) : sub[Kinds[m]] # run
           /\ proc[Master].pc = "del" => Deletable(Master) \/ Kind(Master) = "scd"
           /\ proc[Master].pc = "put" => sub[Kind(Master)] = 0
<1>1. Master \in Procs /\ DOMAIN proc = Procs /\ sub \in [KindSet -> Nat]
  BY KindFacts DEF IInv, TypeInv, Master
<1>2. proc[Master] \in AtWork
  BY DEF IInv, TypeInv, Off, Running, Stopping, Exited, Failed
<1>3. Kind(Master) \in KindSet
  BY <1>2, KindFacts DEF AtWork, Kind
<1> QED
  BY <1>1, <1>2, <1>3 DEF IInv, StartInv, Deletable

\* A request that fails ends the start
LEMMA StartFails ==
    ASSUME IInv, InPhase(Master, "start"), Fails(Master), Raise(Master),
           sub' \in [KindSet -> Nat], \A k \in KindSet : sub'[k] \in {sub[k], 0, run}, run' = run
    PROVE  IInv'
<1>1. proc' = [proc EXCEPT ![Master] = Failed]
  BY DEF Raise
<1>2. failed \in Nat /\ failed' = failed + 1 /\ setbacks' = setbacks /\ setbacks \in Nat /\ left' = left
  BY DEF Fails, IInv, TypeInv, InPhase
<1>3. failed' \in Nat /\ failed' > 0
  BY <1>2
<1>4. Failed.pc = "exited"
  BY DEF Failed
<1> QED
  BY <1>1, <1>2, <1>3, <1>4, MasterStartStep

\* The old subscription is gone
LEMMA StartClears ==
    ASSUME IInv, InPhase(Master, "start"), proc[Master].pc \in {"get", "del"}, Cleared(Master),
           sub' \in [KindSet -> Nat], \A k \in KindSet : sub'[k] \in {sub[k], 0},
           run' = run, UNCHANGED history, sub'[Kind(Master)] = 0,
           \A m \in 1..(proc[Master].n - 1) : sub'[Kinds[m]] = run,
           \A m \in proc[Master].n..Len(Kinds) : sub'[Kinds[m]] # run
    PROVE  IInv'
<1>1. proc[Master] \in AtWork /\ Master \in Procs /\ DOMAIN proc = Procs
  BY MasterAtStart
<1> DEFINE x == [proc[Master] EXCEPT !.pc = "put"]
<1>2. proc' = [proc EXCEPT ![Master] = x]
  BY <1>1 DEF Cleared, Goto
<1>3. /\ x \in AtWork /\ x.phase = "start" /\ x.pc = "put" /\ x.n = proc[Master].n
  BY <1>1 DEF AtWork, InPhase
<1> HIDE DEF x
<1>4. failed' \in Nat /\ setbacks' \in Nat /\ left' = left
  BY DEF IInv, TypeInv, history
<1> QED
  BY <1>2, <1>3, <1>4, MasterStartStep DEF Kind

\* The new one is made: on to the next kind, or the workers are forked
LEMMA StartPuts ==
    ASSUME IInv, InPhase(Master, "start"), proc[Master].pc = "put", NextKind(Master),
           sub' = [sub EXCEPT ![Kind(Master)] = run], run' = run, UNCHANGED history
    PROVE  IInv'
<1>1. /\ proc[Master] \in AtWork /\ Master \in Procs /\ DOMAIN proc = Procs
      /\ Kind(Master) \in KindSet /\ sub \in [KindSet -> Nat]
      /\ \A m \in 1..(proc[Master].n - 1) : sub[Kinds[m]] = run
      /\ \A m \in proc[Master].n..Len(Kinds) : sub[Kinds[m]] # run
  BY MasterAtStart
<1> DEFINE n == proc[Master].n
<1>2. n \in 1..Len(Kinds)
  BY <1>1 DEF AtWork
<1>3. /\ run \in Nat /\ sub' \in [KindSet -> Nat]
      /\ \A k \in KindSet : sub'[k] \in {sub[k], 0, run} /\ sub'[k] <= run
  BY <1>1 DEF IInv, TypeInv
<1>4. (\A m \in 1..(n - 1) : sub'[Kinds[m]] = run) /\ sub'[Kinds[n]] = run
  <2> HIDE DEF n
  <2>1. sub' = [sub EXCEPT ![Kinds[n]] = run] /\ \A m \in 1..(n - 1) : sub[Kinds[m]] = run
    BY <1>1 DEF Kind, n
  <2> QED
    BY <1>1, <1>2, <2>1, OtherKinds, KindFacts
<1>5. failed' \in Nat /\ setbacks' \in Nat /\ left' = left
  BY DEF IInv, TypeInv, history
<1>6. CASE n < Len(Kinds)
  <2> DEFINE x == [proc[Master] EXCEPT !.pc = "get", !.n = @ + 1]
  <2>1. proc' = [proc EXCEPT ![Master] = x]
    BY <1>1, <1>6 DEF NextKind
  <2>2. n + 1 \in 1..Len(Kinds)
    BY <1>2, <1>6, KindFacts
  <2>3. x \in AtWork /\ x.phase = "start" /\ x.pc = "get" /\ x.n = n + 1
    BY <1>1, <2>2, NextIsAtWork DEF InPhase
  <2> HIDE DEF x
  <2>4. \A m \in 1..n : sub'[Kinds[m]] = run
    BY <1>2, <1>4
  <2>5. x.n - 1 = n
    BY <1>2, <2>3
  <2>6. \A m \in x.n..Len(Kinds) : sub'[Kinds[m]] # run
    <3>1. \A m \in (n + 1)..Len(Kinds) : sub[Kinds[m]] # run
      BY <1>1, <1>2, KindFacts
    <3> HIDE DEF n
    <3>2. \A m \in (n + 1)..Len(Kinds) : Kinds[m] \in KindSet /\ Kinds[m] # Kinds[n]
      BY <1>2, KindFacts, ConstantsAssumption
    <3>3. sub' = [sub EXCEPT ![Kinds[n]] = run]
      BY DEF Kind, n
    <3> QED
      BY <1>1, <2>3, <3>1, <3>2, <3>3
  <2> QED
    BY <1>3, <1>5, <2>1, <2>3, <2>4, <2>5, <2>6, MasterStartStep
<1>7. CASE ~(n < Len(Kinds))
  <2>1. proc' = [q \in Procs |-> Running]
    BY <1>7 DEF NextKind
  <2>2. \A k \in KindSet : sub'[k] = run
    <3> HIDE DEF n
    <3> QED
      BY <1>2, <1>4, <1>7, AllPassed
  <2>3. ~left' /\ left' \in BOOLEAN
    BY <1>5 DEF IInv, TypeInv, StartInv
  <2>4. \A q \in Procs : proc'[q] = Running
    BY <2>1
  <2>5. Workers \subseteq Procs /\ Running # Off
    BY DEF Procs, Running, Off
  <2>6. TypeInv'
    BY <1>1, <1>3, <1>5, <2>1, <2>3, <2>4, <2>5 DEF TypeInv
  <2>7. \A p \in Procs : HandlerInv(p)'
    BY <2>4 DEF HandlerInv, InPhase, Running
  <2>8. RunInv'
    BY <2>2, <2>4, <2>5 DEF RunInv
  <2> QED
    BY <1>1, <2>3, <2>4, <2>6, <2>7, <2>8
    DEF IInv, StartInv, Frontier, StopInv, InPhase, Running
<1> QED
  BY <1>6, <1>7

\* A request of the master as it subscribes
LEMMA MasterStartRequestKeepsIInv ==
    ASSUME IInv, InPhase(Master, "start"), Request(Master)
    PROVE  IInv'
<1> DEFINE gone == [sub EXCEPT ![Kind(Master)] = 0]
           fresh == [sub EXCEPT ![Kind(Master)] = run]
<1>1. proc[Master].pc \in {"get", "del", "put"}
  BY DEF Request, GetSubscription, DeleteSubscription, PutSubscription
<1>2. /\ proc[Master] \in AtWork
      /\ Kind(Master) \in KindSet /\ sub \in [KindSet -> Nat]
      /\ Master \in Procs /\ DOMAIN proc = Procs
      /\ \A m \in 1..(proc[Master].n - 1) : sub[Kinds[m]] = run
      /\ \A m \in proc[Master].n..Len(Kinds) : sub[Kinds[m]] # run
      /\ proc[Master].pc = "del" => Deletable(Master) \/ Kind(Master) = "scd"
      /\ proc[Master].pc = "put" => sub[Kind(Master)] = 0
  BY <1>1, MasterAtStart
<1>3. gone \in [KindSet -> Nat] /\ fresh \in [KindSet -> Nat] /\ gone[Kind(Master)] = 0
  BY <1>2 DEF IInv, TypeInv
<1>4. CASE GetSubscription(Master)
  <2>1. proc[Master].pc = "get" /\ sub' = sub /\ run' = run
    BY <1>4 DEF GetSubscription
  <2>2. CASE sub[Kind(Master)] = 0 /\ Cleared(Master) /\ UNCHANGED history
    BY <1>2, <2>1, <2>2, StartClears
  <2>3. CASE /\ sub[Kind(Master)] # 0 /\ UNCHANGED history
             /\ proc' = [proc EXCEPT ![Master].pc = "del", ![Master].version = sub[Kind(Master)]]
    <3> DEFINE x == [proc[Master] EXCEPT !.pc = "del", !.version = sub[Kind(Master)]]
    <3>1. proc' = [proc EXCEPT ![Master] = x]
      BY <1>2, <2>3
    <3>2. sub[Kind(Master)] \in Nat
      BY <1>2
    <3>3. /\ x \in AtWork /\ x.phase = "start" /\ x.pc = "del" /\ x.n = proc[Master].n
          /\ x.version = sub[Kind(Master)]
      BY <1>2, <3>2, DeleterIsAtWork DEF InPhase
    <3> HIDE DEF x
    <3>4. failed' \in Nat /\ setbacks' \in Nat /\ left' = left
      BY <2>3 DEF IInv, TypeInv, history
    <3> QED
      BY <1>2, <2>1, <2>3, <3>1, <3>3, <3>4, MasterStartStep DEF Kind
  <2>4. CASE Fails(Master) /\ Raise(Master)
    BY <1>2, <2>1, <2>4, StartFails
  <2> QED
    BY <1>4, <2>2, <2>3, <2>4 DEF GetSubscription
<1>5. CASE DeleteSubscription(Master)
  <2>1. proc[Master].pc = "del" /\ run' = run
    BY <1>5 DEF DeleteSubscription
  <2>2. CASE sub' = gone /\ Cleared(Master) /\ UNCHANGED history
    <3>1. proc[Master].n \in 1..Len(Kinds)
      BY <1>2 DEF AtWork
    <3>2. \A m \in 1..(proc[Master].n - 1) : sub'[Kinds[m]] = run
      <4> DEFINE n == proc[Master].n
      <4>1. n \in 1..Len(Kinds) /\ \A m \in 1..(n - 1) : sub[Kinds[m]] = run
        BY <1>2, <3>1
      <4>2. sub' = [sub EXCEPT ![Kinds[n]] = 0]
        BY <2>2 DEF Kind
      <4> HIDE DEF n
      <4>3. \A m \in 1..(n - 1) : sub'[Kinds[m]] = run
        BY <1>2, <4>1, <4>2, OtherKinds
      <4> QED
        BY <4>3 DEF n
    <3>3. \A m \in proc[Master].n..Len(Kinds) : sub'[Kinds[m]] # run
      <4> DEFINE n == proc[Master].n
      <4>1. n \in 1..Len(Kinds) /\ \A m \in n..Len(Kinds) : sub[Kinds[m]] # run
        BY <1>2, <3>1
      <4>2. sub' = [sub EXCEPT ![Kinds[n]] = 0]
        BY <2>2 DEF Kind
      <4>3. run # 0
        BY <1>2, <2>1 DEF IInv, TypeInv, StartInv, Kind
      <4> HIDE DEF n
      <4>4. \A m \in n..Len(Kinds) : Kinds[m] \in KindSet
        BY <4>1, KindFacts
      <4>5. \A m \in n..Len(Kinds) : sub'[Kinds[m]] # run
        BY <1>2, <4>1, <4>2, <4>3, <4>4
      <4> QED
        BY <4>5 DEF n
    <3>4. \A k \in KindSet : sub'[k] \in {sub[k], 0}
      BY <1>2, <2>2
    <3> QED
      BY <1>3, <2>1, <2>2, <3>2, <3>3, <3>4, StartClears
  <2>3. CASE Fails(Master) /\ Raise(Master) /\ sub' \in {sub, gone}
    <3>1. sub' \in [KindSet -> Nat] /\ \A k \in KindSet : sub'[k] \in {sub[k], 0, run}
      BY <1>2, <1>3, <2>3
    <3> QED
      BY <2>1, <2>3, <3>1, StartFails
  <2>4. CASE ~Deletable(Master) /\ Raise(Master) /\ UNCHANGED <<sub, history>>
    <3>1. Kind(Master) = "scd" /\ Kind(Master) \in KindSet
      BY <1>2, <2>1, <2>4
    <3>2. sub[Kind(Master)] # 0 /\ sub[Kind(Master)] # run
      <4>1. proc[Master].n \in 1..Len(Kinds)
        BY <1>2 DEF AtWork
      <4>2. proc[Master].n \in proc[Master].n..Len(Kinds)
        BY <4>1
      <4> QED
        BY <1>2, <2>1, <4>2 DEF IInv, StartInv, Kind
    <3>3. LeftOver'
      BY <2>1, <2>4, <3>1, <3>2 DEF LeftOver
    <3>4. proc' = [proc EXCEPT ![Master] = Failed] /\ Failed.pc = "exited"
      BY <2>4 DEF Raise, Failed
    <3>5. failed' \in Nat /\ setbacks' \in Nat /\ left' = left
      BY <2>4 DEF IInv, TypeInv, history
    <3> QED
      BY <1>2, <2>1, <2>4, <3>3, <3>4, <3>5, MasterStartStep
  <2> QED
    BY <1>5, <2>1, <2>2, <2>3, <2>4 DEF DeleteSubscription
<1>6. CASE PutSubscription(Master)
  <2>1. proc[Master].pc = "put" /\ run' = run
    BY <1>6 DEF PutSubscription
  <2>2. CASE sub' = fresh /\ NextKind(Master) /\ UNCHANGED history
    BY <2>1, <2>2, StartPuts
  <2>3. CASE Fails(Master) /\ Raise(Master) /\ sub' \in {sub, fresh}
    <3>1. sub' \in [KindSet -> Nat] /\ \A k \in KindSet : sub'[k] \in {sub[k], 0, run}
      BY <1>2, <1>3, <2>3
    <3> QED
      BY <2>1, <2>3, <3>1, StartFails
  <2> QED
    BY <1>2, <1>6, <2>1, <2>2, <2>3 DEF PutSubscription
<1> QED
  BY <1>4, <1>5, <1>6 DEF Request

\* A request of the master
LEMMA MasterRequestKeepsIInv ==
    ASSUME IInv, Request(Master)
    PROVE  IInv'
<1>1. proc[Master].pc \in {"get", "del", "put"}
  BY DEF Request, GetSubscription, DeleteSubscription, PutSubscription
<1>2. proc[Master] \in AtWork
  BY <1>1 DEF IInv, TypeInv, Off, Running, Stopping, Exited, Failed
<1>3. InPhase(Master, "start") \/ InPhase(Master, "stop")
  BY <1>2 DEF AtWork, InPhase
<1> QED
  BY <1>3, MasterStartRequestKeepsIInv, MasterStopRequestKeepsIInv

-----------------------------------------------------------------------------
\* The invariant is inductive
LEMMA NextKeepsIInv ==
    ASSUME IInv, [Next]_vars
    PROVE  IInv'
<1>1. CASE init
  BY <1>1, InitRunKeepsIInv
<1>2. CASE Interrupt
  BY <1>2, InterruptKeepsIInv
<1>3. CASE MasterExit
  BY <1>3, MasterExitKeepsIInv
<1>4. CASE Crash
  BY <1>4, CrashKeepsIInv
<1>5. CASE Done \/ UNCHANGED vars
  BY <1>5, OthersKeepIInv DEF Done, vars
<1>6. CASE \E p \in Procs : Request(p)
  BY <1>6, WorkerRequestKeepsIInv, MasterRequestKeepsIInv DEF Procs
<1>7. CASE \E w \in Workers : WorkerStep(w)
  BY <1>7, WorkerExitKeepsIInv, RespawnKeepsIInv, KillWorkerKeepsIInv DEF WorkerStep
<1>8. CASE \E k \in KindSet : Change(k) \/ \E w \in Workers : Notify(w, k)
  BY <1>8, OthersKeepIInv DEF Change, Notify
<1> QED
  BY <1>1, <1>2, <1>3, <1>4, <1>5, <1>6, <1>7, <1>8 DEF Next

(***************************************************************************)
(* The invariant about how far each process has come with the              *)
(* subscriptions holds in every reachable state.                           *)
(***************************************************************************)
THEOREM Invariance == Spec => []IInv
<1>1. Init => IInv
  BY InitIInv
<1>2. IInv /\ [Next]_vars => IInv'
  BY NextKeepsIInv
<1> QED
  BY <1>1, <1>2, PTL DEF Spec

(***************************************************************************)
(* While the master runs and no process of the run has begun to exit, the  *)
(* DSS holds this run's subscription of every kind, whatever the runs      *)
(* before were stopped or killed at (context.py:98-104, 121-161).          *)
(***************************************************************************)
THEOREM RunningAlwaysSubscribed == Spec => []RunningSubscribed
<1>1. IInv => RunningSubscribed
  BY Phases DEF RunningSubscribed, IInv, RunInv
<1> QED
  BY <1>1, Invariance, PTL

(***************************************************************************)
(* A start fails only because a request to the DSS failed or because of an *)
(* SCD subscription that an earlier run has left: the RID subscription     *)
(* that is deleted is still in the version that was read, and the one that *)
(* is put has been cleared (context.py:121-143, 153-174).                  *)
(***************************************************************************)
THEOREM StartAlwaysSucceeds == Spec => []StartSucceeds
<1>1. IInv => StartSucceeds
  BY DEF StartSucceeds, IInv, StartInv, LeftOver, InPhase, Failed
<1> QED
  BY <1>1, Invariance, PTL

(***************************************************************************)
(* When the master has exited after its exit handler, no RID subscription  *)
(* is left in the DSS unless two exit handlers of the run were cut short   *)
(* by a failed request or a kill, for any number of workers that race for  *)
(* the deletes and give up at the SCD subscription (context.py:75-96,      *)
(* 106-110, 133-174).                                                      *)
(***************************************************************************)
THEOREM StopAlwaysRemoves == Spec => []StopRemoves
<1>1. IInv => StopRemoves
  BY DEF StopRemoves, IInv, StopInv, RidCleared, InPhase, Exited
<1> QED
  BY <1>1, Invariance, PTL

=============================================================================
