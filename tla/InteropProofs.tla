--------------------------- MODULE InteropProofs ---------------------------
(***************************************************************************)
(* What the interoperability suite's verdicts mean, and what a round       *)
(* leaves behind, for any number of DSS instances, any times and any       *)
(* number of failing requests.                                             *)
(*                                                                         *)
(* While a round is in its test steps every assertion so far has held.     *)
(* The test step and the request it is at then say exactly which entities  *)
(* exist, in which store, whether they are deleted, and how long they have *)
(* to live: that is the invariant the verdicts follow from.                *)
(***************************************************************************)
EXTENDS Interop, FiniteSetTheorems, TLAPS

(***************************************************************************)
(* The inductive invariant                                                 *)
(***************************************************************************)

\* What an entity with a short and with a long time to live lives for at least,
\* its end being written in whole seconds
Brief   == Short - Second + 1
Lasting == Long - Second + 1

Pools  == DSSs \cup {Region}
Entity == [version : Nat, ends : Nat, live : BOOLEAN]
isa1   == <<"isa", 1, 0>>

\* The steps that create an entity
CreationSteps == {1, 2, 9, 10, 12, 16}

\* The request i of test step k has passed
Passed(k, i) == step > k \/ (step = k /\ index > i)

\* The test step that makes the entity of a name, the one that deletes it (18
\* if none does), the request of these steps and the store it is made in
MadeAt(name) ==
    IF IsISA(name) THEN IF name[2] = 1 THEN 1 ELSE IF name[2] = 2 THEN 10 ELSE 12
    ELSE IF name[2] = 1 THEN 2 ELSE IF name[2] = 2 THEN 9 ELSE 16
GoneAt(name) ==
    IF IsISA(name) THEN IF name[2] = 1 THEN 18 ELSE IF name[2] = 2 THEN 11 ELSE 15
    ELSE IF name[2] = 1 THEN 6 ELSE IF name[2] = 2 THEN 18 ELSE 17
Slot(name) == IF IsISA(name) THEN 1 ELSE name[3]
Home(name) == Pool(all_dss[Slot(name)])

Made(name) == Passed(MadeAt(name), Slot(name))
Gone(name) == Passed(GoneAt(name), Slot(name))
Row(name)  == store[Home(name)][Id(name)]

\* Types, and how the rounds, their results and the requests are numbered
TypeInv ==
    /\ fault \in [DSSs -> Faults]
    /\ DOMAIN store = Pools
    /\ \A q \in Pools : \A id \in DOMAIN store[q] : store[q][id] \in Entity /\ id \in (0..round) \X Names
    /\ {now, timeEnd, delay, index} \subseteq Nat /\ index > 0 /\ delay <= MaxDelay
    /\ round \in 1..Len(permutations) /\ step \in 1..17
    /\ slept \in BOOLEAN /\ bumpy \in BOOLEAN
    /\ context \in Seq([name : Names, version : {NoVersion, 1}])
    /\ results \in Seq(0..17)
    /\ mode \in {"test", "cleanUp", "done", "aborted"}
    /\ mode = "cleanUp" => Len(results) = round
    /\ mode = "test" => /\ Len(results) = round - 1 /\ index <= n
                        /\ step \in {1, 10, 11, 12, 15} => index = 1

\* An entity has the version it was created with, unless it is ISA_1, which
\* then ends soon
VersionsInv ==
    \A q \in Pools, name \in Names :
        Id(name) \in DOMAIN store[q] =>
            \/ store[q][Id(name)].version = 1
            \/ name = isa1 /\ step >= 5 /\ store[q][Id(name)].ends <= now + Short

\* In the test steps: the context and the store
ContextInv ==
    /\ \A k \in DOMAIN context : context[k].version = 1
    /\ \A name \in Names : Entered(name) <=> Made(name)

StoreInv ==
    /\ \A q \in Pools, name \in Names :
          Id(name) \in DOMAIN store[q] <=> Made(name) /\ q = Home(name)
    /\ \A name \in Names :
          Made(name) => /\ Row(name).live <=> ~Gone(name)
                        /\ name # isa1 \/ step <= 5 => Row(name).version = 1

\* In the test steps: what there is to live.  The delay of the round is made
\* good by adding it.
TimeInv ==
    /\ Made(isa1) /\ step <= 5 => Row(isa1).ends + delay >= now + Lasting
    /\ step > 5 => Row(isa1).ends <= now + Short
    /\ step > 9 \/ (step = 9 /\ slept) => Row(isa1).ends <= now
    /\ \A i \in 1..n :
          /\ Made(<<"sub", 1, i>>) /\ step <= 8 =>
                Row(<<"sub", 1, i>>).ends + delay >= now + Lasting
          /\ Made(<<"sub", 2, i>>) /\ step <= 12 /\ ~(step = 12 /\ slept) =>
                /\ Row(<<"sub", 2, i>>).ends + delay >= now + Brief
                /\ Row(<<"sub", 2, i>>).ends <= now + Short
          /\ step > 12 \/ (step = 12 /\ slept) => Row(<<"sub", 2, i>>).ends <= now
    /\ step \in {2, 16} /\ index > 1 => timeEnd + delay >= now + Lasting
    /\ step = 9 /\ index > 1 => slept /\ timeEnd + delay >= now + Brief /\ timeEnd <= now + Short

\* In the test steps: the faults that would have failed the round by now
FaultInv ==
    /\ \A i \in 1..n : /\ Passed(3, i) => Pool(all_dss[i]) = Pool(primary)
                       /\ Passed(9, i) => fault[all_dss[i]] # "stale_isa"
                       /\ Passed(13, i) => fault[all_dss[i]] # "expired_sub"
    /\ step > 10 => fault[primary] # "deaf"
    /\ step > 5 => fault[primary] # "fixed_isa"

TestInv == ContextInv /\ StoreInv /\ TimeInv /\ FaultInv

\* In cleanUp: what the entries before the present one leave
CleanInv ==
    \A k \in DOMAIN context :
        k < index =>
            \/ ~Live(primary, Id(context[k].name))
            \/ /\ context[k].name = isa1 /\ step >= 5
               /\ Held(primary)[Id(isa1)].ends <= now + Short
            \/ Id(context[k].name) \in missed

IInv ==
    /\ TypeInv
    /\ VersionsInv
    /\ mode = "test" => TestInv
    /\ mode = "cleanUp" => CleanInv
    /\ PassMeansInteroperable /\ FailuresExplained

-----------------------------------------------------------------------------
(***************************************************************************)
(* The permutations of the instances                                       *)
(***************************************************************************)

\* The times to live
LEMMA TimesFacts ==
    /\ Short \in Nat /\ Short > 0 /\ Long \in Nat /\ MaxDelay \in Nat /\ Second \in Nat
    /\ Brief \in Nat /\ Brief > 0 /\ Brief <= Short /\ Brief = Short - Second + 1
    /\ Lasting \in Nat /\ Lasting > 2 * Short + MaxDelay
  BY ConstantsAssumption, TimesAssumption DEF Brief, Lasting

\* Writing a time in whole seconds cuts off less than a second
LEMMA WholeSecondsFacts ==
    ASSUME NEW t \in Nat
    PROVE  /\ WholeSeconds(t) \in Nat /\ WholeSeconds(t) <= t /\ WholeSeconds(t) + Second >= t + 1
<1>1. Second \in Nat /\ Second > 0
  BY TimesAssumption
<1>2. t % Second \in 0..(Second - 1)
  BY <1>1
<1>3. t - (t % Second) \in Nat
  <2>1. t % Second <= t
    BY <1>1
  <2> QED
    BY <1>1, <1>2, <2>1
<1> QED
  BY <1>1, <1>2, <1>3 DEF WholeSeconds

\* There are at least two instances, finitely many
LEMMA CountFacts ==
    /\ n \in Nat /\ n >= 2
    /\ IsFiniteSet(DSSs) /\ IsFiniteSet(1..n) /\ Cardinality(1..n) = n
<1>1. n \in Nat /\ n >= 2 /\ IsFiniteSet(DSSs)
  BY ConstantsAssumption, FS_CardinalityType DEF n
<1>2. IsFiniteSet(1..n) /\ Cardinality(1..n) = n
  BY <1>1, FS_Interval
<1> QED
  BY <1>1, <1>2

\* There are finitely many, since each has its graph
LEMMA FinitelyManyOrders == IsFiniteSet(SetToSeqs(DSSs))
<1> DEFINE orders == SetToSeqs(DSSs)
           graph == [f \in orders |-> {<<i, f[i]>> : i \in 1..n}]
<1>1. IsFiniteSet(SUBSET ((1..n) \X DSSs))
  BY CountFacts, FS_Product, FS_SUBSET
<1>2. orders \subseteq [1..n -> DSSs]
  BY DEF SetToSeqs, n
<1> HIDE DEF orders
<1>3. graph \in [orders -> SUBSET ((1..n) \X DSSs)]
  <2>1. ASSUME NEW f \in orders
        PROVE  {<<i, f[i]>> : i \in 1..n} \subseteq (1..n) \X DSSs
    <3>1. \A i \in 1..n : f[i] \in DSSs
      BY <1>2
    <3> QED
      BY <3>1
  <2> QED
    BY <2>1
<1>4. ASSUME NEW f \in orders, NEW g \in orders, graph[f] = graph[g]
      PROVE  f = g
  <2>1. \A i \in 1..n : f[i] = g[i]
    <3>1. SUFFICES ASSUME NEW i \in 1..n PROVE f[i] = g[i]
      OBVIOUS
    <3>2. <<i, f[i]>> \in graph[g]
      BY <1>4
    <3> QED
      BY <3>2
  <2>2. f \in [1..n -> DSSs] /\ g \in [1..n -> DSSs]
    BY <1>2
  <2>3. f = [i \in 1..n |-> f[i]] /\ g = [i \in 1..n |-> g[i]]
    BY <2>2
  <2>4. [i \in 1..n |-> f[i]] = [i \in 1..n |-> g[i]]
    BY <2>1
  <2> QED
    BY <2>3, <2>4, Zenon
<1>5. graph \in Injection(orders, SUBSET ((1..n) \X DSSs))
  <2>1. DOMAIN graph = orders
    OBVIOUS
  <2> HIDE DEF graph
  <2> QED
    BY <1>3, <1>4, <2>1 DEF Injection, IsInjective
<1> HIDE DEF orders, graph
<1> QED
  BY <1>1, <1>5, FS_Injection DEF orders

\* Every permutation lists every instance once
LEMMA OrdersAreComplete ==
    ASSUME NEW f \in SetToSeqs(DSSs)
    PROVE  /\ f \in [1..n -> DSSs]
           /\ \A d \in DSSs : \E i \in 1..n : f[i] = d
<1>1. f \in [1..n -> DSSs] /\ \A i, j \in 1..n : i # j => f[i] # f[j]
  BY DEF SetToSeqs, n
<1>2. f \in Injection(1..n, DSSs)
  BY <1>1 DEF Injection, IsInjective
<1>3. f \in Surjection(1..n, DSSs)
  BY <1>2, CountFacts, FS_Injection DEF n
<1> QED
  BY <1>1, <1>3 DEF Surjection

\* startTest has a round to run, and each has an order of the instances
LEMMA PermutationFacts ==
    /\ Len(permutations) \in Nat \ {0}
    /\ \A r \in 1..Len(permutations) : permutations[r] \in SetToSeqs(DSSs)
<1> DEFINE orders == SetToSeqs(DSSs)
           m == Cardinality(orders)
<1>1. m \in Nat /\ ExistsBijection(1..m, orders)
  BY FinitelyManyOrders, FS_CardinalityType
<1>2. orders # {}
  <2>1. PICK f : f \in Bijection(1..n, DSSs)
    BY CountFacts, FS_CardinalityType DEF ExistsBijection, n
  <2>2. f \in orders
    BY <2>1 DEF Bijection, Injection, IsInjective, SetToSeqs, n
  <2> QED
    BY <2>2
<1>3. m # 0
  BY <1>2, FinitelyManyOrders, FS_EmptySet
<1>4. \E f \in [1..m -> orders] : IsInjective(f)
  BY <1>1 DEF ExistsBijection, Bijection, Injection
<1>5. permutations \in [1..m -> orders]
  BY <1>4 DEF permutations, SetToSeq
<1> HIDE DEF m, orders
<1>6. Len(permutations) = m
  BY <1>1, <1>5
<1> QED
  BY <1>1, <1>3, <1>5, <1>6 DEF orders

-----------------------------------------------------------------------------
(***************************************************************************)
(* Names, instances and stores                                             *)
(***************************************************************************)

\* The names of the suite's context
LEMMA NameCases ==
    ASSUME NEW name \in Names
    PROVE  \/ \E k \in 1..3 : name = <<"isa", k, 0>>
           \/ \E k \in 1..3, i \in 1..n : name = <<"sub", k, i>>
  BY DEF Names, ISANames, SubNames

\* When the entity of each name is made and deleted, and by which request
LEMMA NamesOfKinds ==
    /\ isa1 \in Names
    /\ \A k \in 1..3 :
          LET isa == <<"isa", k, 0>> IN
          /\ isa \in Names /\ IsISA(isa) /\ Slot(isa) = 1
          /\ MadeAt(isa) = (IF k = 1 THEN 1 ELSE IF k = 2 THEN 10 ELSE 12)
          /\ GoneAt(isa) = (IF k = 1 THEN 18 ELSE IF k = 2 THEN 11 ELSE 15)
    /\ \A k \in 1..3, i \in 1..n :
          LET sub == <<"sub", k, i>> IN
          /\ sub \in Names /\ ~IsISA(sub) /\ Slot(sub) = i
          /\ MadeAt(sub) = (IF k = 1 THEN 2 ELSE IF k = 2 THEN 9 ELSE 16)
          /\ GoneAt(sub) = (IF k = 1 THEN 6 ELSE IF k = 2 THEN 18 ELSE 17)
  BY DEF isa1, Names, ISANames, SubNames, IsISA, Slot, MadeAt, GoneAt

\* An entity is made by a creation step before the step that deletes it
LEMMA NameFacts ==
    ASSUME NEW name \in Names
    PROVE  /\ Slot(name) \in 1..n /\ MadeAt(name) \in CreationSteps
           /\ GoneAt(name) \in {6, 11, 15, 17, 18}
           /\ MadeAt(name) < GoneAt(name)
           /\ MadeAt(name) \in {1, 10, 12} => Slot(name) = 1
           /\ GoneAt(name) \in {11, 15} => Slot(name) = 1
           /\ MadeAt(name) = 1 => name = isa1
<1>1. CASE \E k \in 1..3 : name = <<"isa", k, 0>>
  BY <1>1, CountFacts, NamesOfKinds DEF CreationSteps, isa1
<1>2. CASE \E k \in 1..3, i \in 1..n : name = <<"sub", k, i>>
  BY <1>2, NamesOfKinds DEF CreationSteps
<1> QED
  BY <1>1, <1>2, NameCases

\* A request makes one entity and deletes one
LEMMA OneNamePerRequest ==
    ASSUME NEW a \in Names, NEW b \in Names, Slot(a) = Slot(b)
    PROVE  /\ MadeAt(a) = MadeAt(b) => a = b
           /\ GoneAt(a) = GoneAt(b) /\ GoneAt(a) # 18 => a = b
<1>1. CASE \E k \in 1..3 : a = <<"isa", k, 0>>
  <2>1. CASE \E k \in 1..3 : b = <<"isa", k, 0>>
    BY <1>1, <2>1, NamesOfKinds
  <2>2. CASE \E k \in 1..3, i \in 1..n : b = <<"sub", k, i>>
    BY <1>1, <2>2, NamesOfKinds
  <2> QED
    BY <2>1, <2>2, NameCases
<1>2. CASE \E k \in 1..3, i \in 1..n : a = <<"sub", k, i>>
  <2>1. CASE \E k \in 1..3 : b = <<"isa", k, 0>>
    BY <1>2, <2>1, NamesOfKinds
  <2>2. CASE \E k \in 1..3, i \in 1..n : b = <<"sub", k, i>>
    BY <1>2, <2>2, NamesOfKinds
  <2> QED
    BY <2>1, <2>2, NameCases
<1> QED
  BY <1>1, <1>2, NameCases

\* Every instance has its turn in a round, and a store
LEMMA InstanceFacts ==
    ASSUME TypeInv
    PROVE  /\ all_dss \in [1..n -> DSSs] /\ primary \in DSSs
           /\ \A d \in DSSs : \E i \in 1..n : all_dss[i] = d
           /\ \A d \in DSSs : Pool(d) \in Pools
           /\ \A name \in Names : Home(name) \in Pools
<1>1. all_dss \in SetToSeqs(DSSs)
  BY PermutationFacts DEF TypeInv, all_dss
<1>2. all_dss \in [1..n -> DSSs] /\ \A d \in DSSs : \E i \in 1..n : all_dss[i] = d
  BY <1>1, OrdersAreComplete
<1>3. primary \in DSSs
  BY <1>2, CountFacts DEF primary
<1>4. \A d \in DSSs : Pool(d) \in Pools
  BY DEF Pool, Pools
<1> QED
  BY <1>2, <1>3, <1>4, NameFacts DEF Home

\* An identifier tells its round and its name
LEMMA DistinctIds ==
    /\ \A a, b : Id(a) = Id(b) => a = b
    /\ \A a : Id(a)[1] = round /\ Id(a)[2] = a
  BY DEF Id

\* The identifiers of the present round
LEMMA IdsOfTheRound ==
    ASSUME TypeInv
    PROVE  \A name \in Names : Id(name) \in (0..round) \X Names
<1>1. round \in 0..round
  BY PermutationFacts DEF TypeInv
<1> QED
  BY <1>1 DEF Id

\* What storing and deleting an entity does to the stores
LEMMA StoredFacts ==
    ASSUME TypeInv, NEW d \in DSSs, NEW id, NEW v, NEW e, NEW new, new = Stored(d, id, v, e)
    PROVE  /\ DOMAIN new = Pools
           /\ \A q \in Pools : q # Pool(d) => new[q] = store[q]
           /\ DOMAIN new[Pool(d)] = DOMAIN store[Pool(d)] \cup {id}
           /\ new[Pool(d)][id] = [version |-> v, ends |-> e, live |-> TRUE]
           /\ \A i \in DOMAIN store[Pool(d)] : i # id => new[Pool(d)][i] = store[Pool(d)][i]
<1>1. Pool(d) \in Pools /\ DOMAIN store = Pools
  BY InstanceFacts DEF TypeInv
<1> DEFINE row == [i \in DOMAIN store[Pool(d)] \cup {id} |->
                     IF i = id THEN [version |-> v, ends |-> e, live |-> TRUE]
                     ELSE store[Pool(d)][i]]
<1>2. new = [store EXCEPT ![Pool(d)] = row]
  BY DEF Stored
<1>3. /\ DOMAIN row = DOMAIN store[Pool(d)] \cup {id}
      /\ row[id] = [version |-> v, ends |-> e, live |-> TRUE]
      /\ \A i \in DOMAIN store[Pool(d)] : i # id => row[i] = store[Pool(d)][i]
  OBVIOUS
<1> HIDE DEF row
<1>4. new[Pool(d)] = row /\ DOMAIN new = Pools /\ \A q \in Pools : q # Pool(d) => new[q] = store[q]
  BY <1>1, <1>2
<1> QED
  BY <1>3, <1>4

\* A deletion changes one entity of one store, which stays in the table
LEMMA DeletedFacts ==
    ASSUME TypeInv, NEW d \in DSSs, NEW id, NEW new, new = Deleted(d, id)
    PROVE  /\ DOMAIN new = Pools
           /\ \A q \in Pools : DOMAIN new[q] = DOMAIN store[q]
           /\ \A q \in Pools : \A i \in DOMAIN store[q] :
                 /\ q # Pool(d) \/ i # id => new[q][i] = store[q][i]
                 /\ q = Pool(d) /\ i = id => new[q][i] = [store[q][i] EXCEPT !.live = FALSE]
  BY InstanceFacts DEF TypeInv, Deleted

-----------------------------------------------------------------------------
(***************************************************************************)
(* A request of a test step: the stores hold what they should, whether the *)
(* request succeeds or not                                                 *)
(***************************************************************************)

\* Entities keep version and end, or are written by this round; those of other
\* rounds stay as they are
StoreMove ==
    /\ DOMAIN store' = Pools
    /\ \A q \in Pools : \A id \in DOMAIN store'[q] :
          /\ store'[q][id] \in Entity
          /\ \/ /\ id \in DOMAIN store[q]
                /\ store'[q][id].version = store[q][id].version
                /\ store'[q][id].ends = store[q][id].ends
             \/ /\ \E name \in Names : id = Id(name)
                /\ \/ store'[q][id].version = 1
                   \/ id = Id(isa1) /\ step >= 5 /\ store'[q][id].ends <= now + Short
    /\ \A id : id[1] # round => (id \in DOMAIN store'[Region] <=> id \in DOMAIN store[Region])
    /\ \A id \in DOMAIN store[Region] : id[1] # round => store'[Region][id] = store[Region][id]

\* A request without effect is a store move
LEMMA NothingMoves ==
    ASSUME TypeInv, store' = store
    PROVE  StoreMove
  BY DEF TypeInv, StoreMove

\* So is a creation, and testStep5's update
LEMMA StoredMoves ==
    ASSUME TypeInv, NEW d \in DSSs, NEW name \in Names, NEW v \in Nat, NEW e \in Nat,
           v = 1 \/ (name = isa1 /\ step >= 5 /\ e <= now + Short),
           store' = Stored(d, Id(name), v, e)
    PROVE  StoreMove
<1> DEFINE row == [version |-> v, ends |-> e, live |-> TRUE]
<1>1. /\ DOMAIN store' = Pools
      /\ \A q \in Pools : q # Pool(d) => store'[q] = store[q]
      /\ DOMAIN store'[Pool(d)] = DOMAIN store[Pool(d)] \cup {Id(name)}
      /\ store'[Pool(d)][Id(name)] = row
      /\ \A i \in DOMAIN store[Pool(d)] : i # Id(name) => store'[Pool(d)][i] = store[Pool(d)][i]
  BY StoredFacts
<1>2. row \in Entity /\ row.version = v /\ row.ends = e
  BY DEF Entity
<1> HIDE DEF row
<1>3. \A q \in Pools : \A id \in DOMAIN store[q] : store[q][id] \in Entity
  BY DEF TypeInv
<1>4. name = isa1 => Id(name) = Id(isa1)
  OBVIOUS
<1>5. Region \in Pools /\ Id(name)[1] = round
  BY DistinctIds DEF Pools
<1>6. /\ \A id : id[1] # round => (id \in DOMAIN store'[Region] <=> id \in DOMAIN store[Region])
      /\ \A id \in DOMAIN store[Region] : id[1] # round => store'[Region][id] = store[Region][id]
  <2>1. CASE Region = Pool(d)
    BY <1>1, <1>5, <2>1
  <2>2. CASE Region # Pool(d)
    BY <1>1, <1>5, <2>2
  <2> QED
    BY <2>1, <2>2
<1> QED
  BY <1>1, <1>2, <1>3, <1>4, <1>6 DEF StoreMove

\* So is a deletion
LEMMA DeletedMoves ==
    ASSUME TypeInv, NEW d \in DSSs, NEW id, id[1] = round, store' = Deleted(d, id)
    PROVE  StoreMove
<1>1. /\ DOMAIN store' = Pools
      /\ \A q \in Pools : DOMAIN store'[q] = DOMAIN store[q]
      /\ \A q \in Pools : \A i \in DOMAIN store[q] :
            \/ store'[q][i] = store[q][i]
            \/ store'[q][i] = [store[q][i] EXCEPT !.live = FALSE]
  BY DeletedFacts
<1>2. ASSUME NEW x \in Entity
      PROVE  /\ [x EXCEPT !.live = FALSE] \in Entity
             /\ [x EXCEPT !.live = FALSE].version = x.version
             /\ [x EXCEPT !.live = FALSE].ends = x.ends
  BY DEF Entity
<1>3. \A q \in Pools : \A i \in DOMAIN store[q] : store[q][i] \in Entity
  BY DEF TypeInv
<1>4. ASSUME NEW q \in Pools, NEW i \in DOMAIN store'[q]
      PROVE  /\ store'[q][i] \in Entity /\ i \in DOMAIN store[q]
             /\ store'[q][i].version = store[q][i].version
             /\ store'[q][i].ends = store[q][i].ends
  <2>1. i \in DOMAIN store[q] /\ store[q][i] \in Entity
    BY <1>1, <1>3, <1>4
  <2>2. CASE store'[q][i] = store[q][i]
    BY <2>1, <2>2
  <2>3. CASE store'[q][i] = [store[q][i] EXCEPT !.live = FALSE]
    BY <1>2, <2>1, <2>3
  <2> QED
    BY <1>1, <2>1, <2>2, <2>3
<1>5. Region \in Pools
  BY DEF Pools
<1>6. /\ DOMAIN store'[Region] = DOMAIN store[Region]
      /\ \A i \in DOMAIN store[Region] : i # id => store'[Region][i] = store[Region][i]
  <2>1. ASSUME NEW i \in DOMAIN store[Region], i # id
        PROVE  store'[Region][i] = store[Region][i]
    <3>1. Pool(d) \in Pools /\ DOMAIN store = Pools
      BY InstanceFacts DEF TypeInv
    <3>2. CASE Region = Pool(d)
      BY <1>5, <2>1, <3>1, <3>2 DEF Deleted
    <3>3. CASE Region # Pool(d)
      BY <1>5, <3>1, <3>3 DEF Deleted
    <3> QED
      BY <3>2, <3>3
  <2> QED
    BY <1>1, <1>5, <2>1
<1> QED
  BY <1>1, <1>4, <1>6 DEF StoreMove

\* A round changes nothing of what was left behind
LEMMA LeftBehindStays ==
    ASSUME StoreMove, round' = round, now' = now, round \in Nat
    PROVE  LeftBehind' = LeftBehind
<1>1. \A id : id[1] < round => id[1] # round
  OBVIOUS
<1>2. /\ \A id : id[1] # round => (id \in DOMAIN store'[Region] <=> id \in DOMAIN store[Region])
      /\ \A id \in DOMAIN store[Region] : id[1] # round => store'[Region][id] = store[Region][id]
  BY DEF StoreMove
<1> QED
  BY <1>1, <1>2 DEF LeftBehind

\* Store moves keep what is known of the versions
LEMMA VersionsKept ==
    ASSUME TypeInv, VersionsInv, StoreMove, round' = round, now' \in Nat, now' >= now,
           step' \in Nat, step' >= step
    PROVE  VersionsInv'
<1> SUFFICES ASSUME NEW q \in Pools, NEW name \in Names, Id(name) \in DOMAIN store'[q]
             PROVE  \/ store'[q][Id(name)].version = 1
                    \/ name = isa1 /\ step' >= 5 /\ store'[q][Id(name)].ends <= now' + Short
  BY DEF VersionsInv, Id
<1>1. /\ now \in Nat /\ step \in Nat /\ Short \in Nat
      /\ store'[q][Id(name)].ends \in Nat
  BY ConstantsAssumption DEF TypeInv, StoreMove, Entity
<1>2. \/ /\ Id(name) \in DOMAIN store[q]
         /\ store'[q][Id(name)].version = store[q][Id(name)].version
         /\ store'[q][Id(name)].ends = store[q][Id(name)].ends
      \/ store'[q][Id(name)].version = 1
      \/ Id(name) = Id(isa1) /\ step >= 5 /\ store'[q][Id(name)].ends <= now + Short
  BY DEF StoreMove
<1>3. \/ store'[q][Id(name)].version = 1
      \/ name = isa1 /\ step >= 5 /\ store'[q][Id(name)].ends <= now + Short
  BY <1>2, DistinctIds DEF VersionsInv
<1> QED
  BY <1>1, <1>3

(***************************************************************************)
(* The end of a request: the next one, or the end of the round             *)
(***************************************************************************)

Advance(last) ==
    /\ mode' = "test" /\ results' = results
    /\ last => step < 17 /\ step' = step + 1 /\ index' = 1 /\ slept' = FALSE
    /\ ~last => step' = step /\ index' = index + 1 /\ slept' = slept

RoundDone(result) ==
    /\ mode' = "cleanUp" /\ results' = Append(results, result) /\ index' = 1 /\ step' = step
    /\ slept' \in BOOLEAN

\* The steps of one request, and those of a request per instance (step 5 has
\* two requests)
OneByOne(last) ==
    /\ step \in {1, 10, 11, 12, 15} => last
    /\ last => index = n \/ step \in {1, 5, 10, 11, 12, 15}
    /\ ~last => index < n

\* What follows a request: the next one, or a passed or failed round
LEMMA AssertedCases ==
    ASSUME TypeInv, NEW passed \in BOOLEAN, NEW last \in BOOLEAN, mode = "test",
           Asserted(passed, last)
    PROVE  \/ passed /\ Advance(last)
           \/ passed /\ step = 17 /\ RoundDone(0)
           \/ ~passed /\ RoundDone(step)
<1>1. slept \in BOOLEAN /\ FALSE \in BOOLEAN
  BY Zenon DEF TypeInv
<1>2. step # 17 => step < 17
  BY DEF TypeInv
<1>3. CASE ~passed
  BY <1>1, <1>3, Zenon DEF Asserted, AssertionFails, RoundDone
<1>4. CASE passed /\ last /\ step = 17
  BY <1>1, <1>4, Zenon DEF Asserted, NextStep, RoundDone
<1>5. CASE passed /\ last /\ step # 17
  BY <1>2, <1>5, Zenon DEF Asserted, NextStep, Advance
<1>6. CASE passed /\ ~last
  BY <1>6, Zenon DEF Asserted, Advance
<1> QED
  BY <1>3, <1>4, <1>5, <1>6

\* What one more request adds to what has been made, deleted and passed
LEMMA Progress ==
    ASSUME TypeInv, NEW last \in BOOLEAN, mode = "test", Advance(last), OneByOne(last)
    PROVE  /\ \A name \in Names :
                 /\ Made(name)' <=> Made(name) \/ (MadeAt(name) = step /\ Slot(name) = index)
                 /\ Gone(name)' <=> Gone(name) \/ (GoneAt(name) = step /\ Slot(name) = index)
           /\ \A k \in {3, 9, 13}, i \in 1..n :
                 Passed(k, i)' <=> Passed(k, i) \/ (k = step /\ i = index)
           /\ step' \in 1..17 /\ step' >= step /\ index' \in 1..n
           /\ step' \in {1, 10, 11, 12, 15} => index' = 1
<1>1. /\ step \in 1..17 /\ index \in 1..n /\ n \in Nat
      /\ step \in {1, 10, 11, 12, 15} => index = 1
  BY CountFacts DEF TypeInv
<1>2. ASSUME NEW k \in Nat, NEW i \in 1..n,
             k = step /\ last => index = n \/ (index = 1 /\ i = 1)
      PROVE  (step' > k \/ (step' = k /\ index' > i))
                <=> (step > k \/ (step = k /\ index > i)) \/ (k = step /\ i = index)
  BY <1>1, <1>2 DEF Advance
<1>3. ASSUME NEW name \in Names
      PROVE  /\ Made(name)' <=> Made(name) \/ (MadeAt(name) = step /\ Slot(name) = index)
             /\ Gone(name)' <=> Gone(name) \/ (GoneAt(name) = step /\ Slot(name) = index)
  <2>1. /\ MadeAt(name) \in Nat /\ GoneAt(name) \in Nat /\ Slot(name) \in 1..n
        /\ MadeAt(name) # 5 /\ GoneAt(name) # 5
        /\ MadeAt(name) \in {1, 10, 11, 12, 15} => Slot(name) = 1
        /\ GoneAt(name) \in {1, 10, 11, 12, 15} => Slot(name) = 1
    BY NameFacts DEF CreationSteps
  <2>2. /\ MadeAt(name) = step /\ last => index = n \/ (index = 1 /\ Slot(name) = 1)
        /\ GoneAt(name) = step /\ last => index = n \/ (index = 1 /\ Slot(name) = 1)
    BY <1>1, <2>1 DEF OneByOne
  <2> QED
    BY <1>2, <2>1, <2>2 DEF Made, Gone, Passed
<1>4. ASSUME NEW k \in {3, 9, 13}, NEW i \in 1..n
      PROVE  Passed(k, i)' <=> Passed(k, i) \/ (k = step /\ i = index)
  BY <1>2 DEF Passed, OneByOne
<1>5. /\ step' \in 1..17 /\ step' >= step /\ index' \in 1..n
      /\ step' \in {1, 10, 11, 12, 15} => index' = 1
  <2>1. CASE last
    <3>1. step < 17 /\ step' = step + 1 /\ index' = 1
      BY <2>1 DEF Advance
    <3> QED
      BY <1>1, <3>1
  <2>2. CASE ~last
    <3>1. step' = step /\ index' = index + 1 /\ index < n /\ step \notin {1, 10, 11, 12, 15}
      BY <2>2 DEF Advance, OneByOne
    <3> QED
      BY <1>1, <3>1
  <2> QED
    BY <2>1, <2>2
<1> QED
  BY <1>3, <1>4, <1>5

-----------------------------------------------------------------------------
(***************************************************************************)
(* A request that passes: the test steps' invariant                        *)
(***************************************************************************)

\* The stores and identifiers of a round do not change with its requests
LEMMA SameRound ==
    ASSUME UNCHANGED <<fault, round>>
    PROVE  /\ all_dss' = all_dss /\ primary' = primary
           /\ \A d : Pool(d)' = Pool(d)
           /\ \A name : Id(name)' = Id(name) /\ Home(name)' = Home(name)
  BY DEF all_dss, primary, Pool, Id, Home

\* The entity that the present request makes, or deletes
MadeNow(name) == MadeAt(name) = step /\ Slot(name) = index
GoneNow(name) == GoneAt(name) = step /\ Slot(name) = index

\* What becomes of the entity of a name
NewRow(name) == store'[Home(name)][Id(name)]

\* The update of ISA_1 in testStep5
Renewed(name, last) == name = isa1 /\ step = 5 /\ last

RowsMove(last) ==
    /\ \A k \in DOMAIN context' : context'[k].version = 1
    /\ \A name \in Names : Entered(name)' <=> Entered(name) \/ MadeNow(name)
    /\ \A q \in Pools, name \in Names :
          Id(name) \in DOMAIN store'[q]
              <=> Id(name) \in DOMAIN store[q] \/ (MadeNow(name) /\ q = Home(name))
    /\ \A name \in Names :
          /\ MadeNow(name) => /\ NewRow(name).live /\ NewRow(name).version = 1
                              /\ name = isa1 => NewRow(name).ends >= now + Lasting
                              /\ ~IsISA(name) => NewRow(name).ends = timeEnd'
          /\ Made(name) =>
                /\ NewRow(name).live <=> Row(name).live /\ ~GoneNow(name)
                /\ ~Renewed(name, last) => /\ NewRow(name).version = Row(name).version
                                           /\ NewRow(name).ends = Row(name).ends
                /\ Renewed(name, last) => NewRow(name).ends <= now + Short

TimeMove ==
    /\ UNCHANGED <<now, delay>>
    /\ step \in {9, 12} => slept
    /\ step \in {2, 16} => timeEnd' + delay >= now + Lasting
    /\ step = 9 => timeEnd' + delay >= now + Brief /\ timeEnd' <= now + Short

FaultMove(last) ==
    /\ step = 5 /\ last => fault[primary] # "fixed_isa"
    /\ step = 3 => Pool(asked) = Pool(primary)
    /\ step = 9 => fault[asked] # "stale_isa"
    /\ step = 13 => fault[asked] # "expired_sub"
    /\ step = 10 => fault[primary] # "deaf"

\* After a request that passed, the test steps' invariant holds for the next one
LEMMA AdvanceKeepsTestInv ==
    ASSUME TypeInv, TypeInv', TestInv, mode = "test", NEW last \in BOOLEAN,
           Advance(last), OneByOne(last), UNCHANGED <<fault, round>>,
           RowsMove(last), TimeMove, FaultMove(last)
    PROVE  TestInv'
<1>1. /\ \A name \in Names : /\ Made(name)' <=> Made(name) \/ MadeNow(name)
                             /\ Gone(name)' <=> Gone(name) \/ GoneNow(name)
      /\ \A k \in {3, 9, 13}, i \in 1..n : Passed(k, i)' <=> Passed(k, i) \/ (k = step /\ i = index)
      /\ step' \in 1..17 /\ step' >= step /\ index' \in 1..n
  BY Progress DEF MadeNow, GoneNow
<1>2. /\ \A name : Id(name)' = Id(name) /\ Home(name)' = Home(name) /\ Row(name)' = NewRow(name)
      /\ \A d : Pool(d)' = Pool(d)
      /\ all_dss' = all_dss /\ primary' = primary
  BY SameRound DEF Row, NewRow
<1>3. /\ step \in 1..17 /\ index \in 1..n /\ n \in Nat
      /\ {now, delay, timeEnd, timeEnd', Lasting, Brief, Short} \subseteq Nat
  <2>1. step \in 1..17 /\ index \in Nat /\ index > 0 /\ index <= n
    BY DEF TypeInv
  <2>2. {now, delay, timeEnd} \subseteq Nat
    BY DEF TypeInv
  <2>3. timeEnd' \in Nat
    BY DEF TypeInv
  <2>4. Lasting \in Nat /\ Brief \in Nat /\ Short \in Nat
    BY TimesFacts
  <2> QED
    BY <2>1, <2>2, <2>3, <2>4, CountFacts
<1>4. ContextInv'
  <2>1. \A name \in Names : Entered(name)' <=> Made(name)'
    BY <1>1 DEF TestInv, ContextInv, RowsMove
  <2> QED
    BY <2>1 DEF ContextInv, RowsMove
<1>5. StoreInv'
  <2>1. ASSUME NEW q \in Pools, NEW name \in Names
        PROVE  Id(name) \in DOMAIN store'[q] <=> Made(name)' /\ q = Home(name)
    BY <1>1 DEF TestInv, StoreInv, RowsMove
  <2>2. ASSUME NEW name \in Names, Made(name)'
        PROVE  /\ NewRow(name).live <=> ~Gone(name)'
               /\ name # isa1 \/ step' <= 5 => NewRow(name).version = 1
    <3>1. CASE MadeNow(name)
      <4>1. ~Gone(name)'
        BY <1>1, <1>3, <3>1, NameFacts DEF MadeNow, GoneNow, Gone, Passed, CreationSteps
      <4> QED
        BY <3>1, <4>1 DEF RowsMove
    <3>2. CASE Made(name)
      <4>1. /\ NewRow(name).live <=> Row(name).live /\ ~GoneNow(name)
            /\ ~Renewed(name, last) => NewRow(name).version = Row(name).version
        BY <3>2 DEF RowsMove
      <4>2. /\ Row(name).live <=> ~Gone(name)
            /\ name # isa1 \/ step <= 5 => Row(name).version = 1
        BY <3>2 DEF TestInv, StoreInv
      <4>3. Renewed(name, last) => name = isa1 /\ ~(step' <= 5)
        BY <1>3 DEF Renewed, Advance
      <4>4. step' <= 5 => step <= 5
        BY <1>1, <1>3
      <4> QED
        BY <1>1, <4>1, <4>2, <4>3, <4>4
    <3> QED
      BY <1>1, <2>2, <3>1, <3>2
  <2>3. ASSUME NEW name \in Names, Made(name)'
        PROVE  /\ Row(name)'.live <=> ~Gone(name)'
               /\ name # isa1 \/ step' <= 5 => Row(name)'.version = 1
    BY <1>2, <2>2, <2>3
  <2>4. ASSUME NEW q \in Pools, NEW name \in Names
        PROVE  Id(name)' \in DOMAIN store'[q] <=> Made(name)' /\ q = Home(name)'
    BY <1>2, <2>1
  <2> QED
    BY <2>3, <2>4 DEF StoreInv
<1>6. FaultInv'
  <2>1. asked = all_dss[index] /\ index \in 1..n
    BY <1>3 DEF asked
  <2>2. /\ step' > 10 => step > 10 \/ step = 10
        /\ step' > 5 => step > 5 \/ (step = 5 /\ last)
    BY <1>3 DEF Advance
  <2>3. /\ \A i \in 1..n : /\ Passed(3, i)' => Pool(all_dss[i]) = Pool(primary)
                           /\ Passed(9, i)' => fault[all_dss[i]] # "stale_isa"
                           /\ Passed(13, i)' => fault[all_dss[i]] # "expired_sub"
        /\ step' > 10 => fault[primary] # "deaf"
        /\ step' > 5 => fault[primary] # "fixed_isa"
    BY <1>1, <2>1, <2>2 DEF TestInv, FaultInv, FaultMove
  <2>4. \A i \in 1..n : Passed(3, i)' => Pool(all_dss[i])' = Pool(primary)'
    BY <1>2, <2>3
  <2> QED
    BY <1>2, <2>3, <2>4 DEF FaultInv
<1>7. TimeInv'
  <2>1. ASSUME NEW name \in Names, Made(name)
        PROVE  Row(name).ends \in Nat
    <3>1. Id(name) \in DOMAIN store[Home(name)] /\ Home(name) \in Pools
      BY <2>1, InstanceFacts DEF TestInv, StoreInv
    <3> QED
      BY <3>1 DEF TypeInv, Row, Entity
  <2>2. isa1 \in Names /\ Slot(isa1) = 1 /\ MadeAt(isa1) = 1
    BY NamesOfKinds DEF isa1
  <2>3. (Made(isa1) <=> step > 1) /\ (MadeNow(isa1) <=> step = 1)
    BY <1>3, <2>2 DEF Made, MadeNow, Passed, TypeInv
  <2>4. CASE step = 1
    <3>1. step' = 2 /\ index' = 1
      BY <2>4 DEF Advance, OneByOne
    <3>2. Row(isa1)'.ends >= now + Lasting
      <4>1. NewRow(isa1).ends >= now + Lasting
        BY <2>2, <2>3, <2>4 DEF RowsMove
      <4> QED
        BY <1>2, <4>1
    <3>3. ASSUME NEW i \in 1..n
          PROVE  ~Made(<<"sub", 1, i>>)' /\ ~Made(<<"sub", 2, i>>)'
      <4>1. /\ MadeAt(<<"sub", 1, i>>) = 2 /\ Slot(<<"sub", 1, i>>) = i
            /\ MadeAt(<<"sub", 2, i>>) = 9 /\ Slot(<<"sub", 2, i>>) = i
        BY NamesOfKinds
      <4>2. ~(step' > 2) /\ ~(step' = 2 /\ index' > i) /\ ~(step' > 9) /\ ~(step' = 9 /\ index' > i)
        BY <1>3, <3>1
      <4> QED
        BY <4>1, <4>2 DEF Made, Passed
    <3>4. Row(isa1)'.ends \in Nat
      <4>1. Id(isa1) \in DOMAIN store'[Home(isa1)] /\ Home(isa1) \in Pools
        BY <2>2, <2>3, <2>4, InstanceFacts DEF RowsMove
      <4>2. NewRow(isa1) \in Entity
        BY <4>1 DEF TypeInv, NewRow
      <4> QED
        BY <1>2, <4>2 DEF Entity
    <3>5. Row(isa1)'.ends + delay >= now + Lasting
      BY <1>3, <3>2, <3>4
    <3> QED
      BY <1>3, <2>4, <3>1, <3>3, <3>5 DEF TimeInv, TimeMove
  <2>5. CASE step > 1
    <3>1. /\ Row(isa1).ends \in Nat
          /\ Row(isa1)'.ends = Row(isa1).ends \/ (step = 5 /\ Row(isa1)'.ends <= now + Short)
          /\ step = 5 /\ last => Row(isa1)'.ends <= now + Short
          /\ step = 5 /\ ~last => Row(isa1)'.ends = Row(isa1).ends
      BY <1>2, <2>1, <2>2, <2>3, <2>5 DEF RowsMove, Renewed
    <3>2. /\ Made(isa1)' /\ step' <= 5 => Row(isa1)'.ends + delay >= now + Lasting
          /\ step' > 5 => Row(isa1)'.ends <= now + Short
          /\ step' > 9 \/ (step' = 9 /\ slept') => Row(isa1)'.ends <= now
      <4>1. step = 5 => (step' = 5 /\ ~last) \/ (step' = 6 /\ last)
        BY <1>3 DEF Advance
      <4>2. step # 5 => (step' <= 5 => step <= 5) /\ (step' > 5 => step > 5)
        BY <1>3 DEF Advance
      <4>3. step' > 9 \/ (step' = 9 /\ slept') => step > 9 \/ (step = 9 /\ slept)
        BY <1>3 DEF Advance, TimeMove
      <4> QED
        BY <1>3, <2>3, <2>5, <3>1, <4>1, <4>2, <4>3 DEF TestInv, TimeInv
    <3>3. ASSUME NEW i \in 1..n
          PROVE  /\ Made(<<"sub", 1, i>>)' /\ step' <= 8 =>
                       Row(<<"sub", 1, i>>)'.ends + delay >= now + Lasting
                 /\ Made(<<"sub", 2, i>>)' /\ step' <= 12 /\ ~(step' = 12 /\ slept') =>
                       /\ Row(<<"sub", 2, i>>)'.ends + delay >= now + Brief
                       /\ Row(<<"sub", 2, i>>)'.ends <= now + Short
                 /\ step' > 12 \/ (step' = 12 /\ slept') => Row(<<"sub", 2, i>>)'.ends <= now
      <4> DEFINE s1 == <<"sub", 1, i>>
                 s2 == <<"sub", 2, i>>
      <4>1. /\ s1 \in Names /\ s2 \in Names /\ s1 # isa1 /\ s2 # isa1
            /\ ~IsISA(s1) /\ ~IsISA(s2) /\ Slot(s1) = i /\ Slot(s2) = i
            /\ MadeAt(s1) = 2 /\ MadeAt(s2) = 9
        BY NamesOfKinds DEF isa1
      <4> HIDE DEF s1, s2
      <4>2. /\ Made(s1)' <=> Made(s1) \/ MadeNow(s1)
            /\ Made(s2)' <=> Made(s2) \/ MadeNow(s2)
        BY <1>1, <4>1
      <4>3. /\ MadeNow(s1) => step = 2 /\ Row(s1)'.ends = timeEnd'
            /\ MadeNow(s2) => step = 9 /\ Row(s2)'.ends = timeEnd'
            /\ Made(s1) => Row(s1)'.ends = Row(s1).ends /\ Row(s1).ends \in Nat
            /\ Made(s2) => Row(s2)'.ends = Row(s2).ends /\ Row(s2).ends \in Nat
        BY <1>2, <2>1, <4>1 DEF RowsMove, Renewed, MadeNow
      <4>4. /\ Made(s1) /\ step <= 8 => Row(s1).ends + delay >= now + Lasting
            /\ Made(s2) /\ step <= 12 /\ ~(step = 12 /\ slept) =>
                  /\ Row(s2).ends + delay >= now + Brief
                  /\ Row(s2).ends <= now + Short
            /\ step > 12 \/ (step = 12 /\ slept) => Row(s2).ends <= now
        BY DEF TestInv, TimeInv, s1, s2
      <4>5. Made(s1)' /\ step' <= 8 => Row(s1)'.ends + delay >= now + Lasting
        BY <1>1, <1>3, <4>2, <4>3, <4>4 DEF TimeMove
      <4>6. step' <= 12 /\ ~(step' = 12 /\ slept') => step <= 12 /\ ~(step = 12 /\ slept)
        BY <1>3 DEF Advance
      <4>7. Made(s2)' /\ step' <= 12 /\ ~(step' = 12 /\ slept') =>
               Row(s2)'.ends + delay >= now + Brief /\ Row(s2)'.ends <= now + Short
        BY <1>3, <4>2, <4>3, <4>4, <4>6 DEF TimeMove
      <4>8. step' > 12 \/ (step' = 12 /\ slept') => step > 12 \/ (step = 12 /\ slept)
        BY <1>3 DEF Advance, TimeMove
      <4>9. step > 9 => Made(s2)
        BY <1>3, <4>1 DEF Made, Passed
      <4>10. step' > 12 \/ (step' = 12 /\ slept') => Row(s2)'.ends <= now
        BY <1>3, <4>3, <4>4, <4>8, <4>9
      <4> QED
        BY <4>5, <4>7, <4>10 DEF s1, s2
    <3>4. /\ step' \in {2, 16} /\ index' > 1 => timeEnd' + delay >= now + Lasting
          /\ step' = 9 /\ index' > 1 =>
                slept' /\ timeEnd' + delay >= now + Brief /\ timeEnd' <= now + Short
      <4>1. index' > 1 => step' = step /\ slept' = slept
        BY <1>3 DEF Advance
      <4> QED
        BY <4>1 DEF TimeMove
    <3>5. now' = now /\ delay' = delay
      BY DEF TimeMove
    <3> QED
      BY <3>2, <3>3, <3>4, <3>5 DEF TimeInv
  <2> QED
    BY <1>3, <2>4, <2>5
<1> QED
  BY <1>4, <1>5, <1>6, <1>7 DEF TestInv

-----------------------------------------------------------------------------
(***************************************************************************)
(* The end of a round                                                      *)
(***************************************************************************)

\* Another instance can be asked
LEMMA AnotherInstance ==
    ASSUME NEW d \in DSSs
    PROVE  \E e \in DSSs : e # d
<1> SUFFICES ASSUME DSSs = {d} PROVE FALSE
  OBVIOUS
<1>1. Cardinality(DSSs) = 1
  BY FS_Singleton
<1> QED
  BY <1>1, ConstantsAssumption

\* What the steps before the last one have shown
LEMMA NoFaultsLeft ==
    ASSUME TypeInv, TestInv, step = 17
    PROVE  /\ \A d \in DSSs : fault[d] \in UnnoticedInOthers
           /\ fault[primary] \in Unnoticed
<1>1. \A d \in DSSs : /\ Pool(d) = Pool(primary)
                      /\ fault[d] \notin {"stale_isa", "expired_sub"}
  <2>1. \A i \in 1..n : Passed(3, i) /\ Passed(9, i) /\ Passed(13, i)
    BY DEF Passed
  <2> QED
    BY <2>1, InstanceFacts DEF TestInv, FaultInv
<1>2. \A d \in DSSs : fault[d] # "apart"
  <2> SUFFICES ASSUME NEW d \in DSSs, fault[d] = "apart" PROVE FALSE
    OBVIOUS
  <2>1. PICK e \in DSSs : e # d
    BY AnotherInstance
  <2>2. Pool(d) = d /\ Pool(e) \in {e, Region}
    BY DEF Pool
  <2> QED
    BY <1>1, <2>1, <2>2, ConstantsAssumption
<1>3. \A d \in DSSs : fault[d] \in Faults
  BY DEF TypeInv
<1>4. fault[primary] # "deaf" /\ fault[primary] # "fixed_isa" /\ primary \in DSSs
  BY InstanceFacts DEF TestInv, FaultInv
<1>5. \A d \in DSSs : fault[d] \in UnnoticedInOthers
  BY <1>1, <1>2, <1>3 DEF Faults, Unnoticed, UnnoticedInOthers
<1> QED
  BY <1>4, <1>5 DEF Unnoticed, UnnoticedInOthers

\* A failed round has a cause
Explained ==
    \/ \E d \in DSSs : fault[d] \notin Unnoticed
    \/ bumpy
    \/ delay > Short - Second
    \/ Cardinality(LeftBehind) + n > Limit

\* The end of a round: its result means what it should
LEMMA RoundDoneKeepsIInv ==
    ASSUME IInv, mode = "test", NEW r \in 0..17, RoundDone(r), StoreMove,
           UNCHANGED <<fault, now, round, why, delay, missed>>,
           timeEnd' \in Nat, bumpy' \in BOOLEAN,
           context' \in Seq([name : Names, version : {NoVersion, 1}]),
           r # 0 => Explained', r = 0 => step = 17
    PROVE  IInv'
<1>1. TypeInv /\ VersionsInv /\ TestInv /\ PassMeansInteroperable
  BY DEF IInv
<1>2. /\ results \in Seq(0..17) /\ Len(results) = round - 1 /\ round \in Nat
      /\ results' = Append(results, r)
  BY <1>1, PermutationFacts DEF TypeInv, RoundDone
<1>3. /\ results' \in Seq(0..17) /\ Len(results') = round /\ results'[round] = r
      /\ \A k \in DOMAIN results' : k = round \/ (k \in DOMAIN results /\ results'[k] = results[k])
  BY <1>2
<1>4. TypeInv'
  <2>1. DOMAIN store' = Pools
    BY DEF StoreMove
  <2>2. \A q \in Pools : \A id \in DOMAIN store'[q] : store'[q][id] \in Entity /\ id \in (0..round) \X Names
    BY <1>1, <1>2, IdsOfTheRound DEF StoreMove, TypeInv
  <2> QED
    BY <1>1, <1>3, <2>1, <2>2 DEF TypeInv, RoundDone
<1>5. VersionsInv'
  <2>1. now \in Nat /\ step \in 1..17
    BY <1>1 DEF TypeInv
  <2>2. now' >= now /\ step' >= step /\ now' \in Nat /\ step' \in Nat
    BY <2>1 DEF RoundDone
  <2> QED
    BY <1>1, <2>2, VersionsKept
<1>6. CleanInv'
  <2>1. \A k \in DOMAIN context' : ~(k < index')
    BY DEF RoundDone
  <2> QED
    BY <2>1 DEF CleanInv
<1>7. PassMeansInteroperable'
  <2>1. r = 0 => /\ \A d \in DSSs : fault[d] \in UnnoticedInOthers
                 /\ fault[permutations[round][1]] \in Unnoticed
    BY <1>1, NoFaultsLeft DEF primary, all_dss
  <2> QED
    BY <1>1, <1>3, <2>1 DEF PassMeansInteroperable
<1>8. FailuresExplained'
  BY <1>3 DEF FailuresExplained, Explained
<1> QED
  BY <1>4, <1>5, <1>6, <1>7, <1>8 DEF IInv, RoundDone

\* One request of a test step, whatever comes of it
LEMMA TestStepKeepsIInv ==
    ASSUME IInv, mode = "test", NEW g \in Glitch, NEW passed \in BOOLEAN, NEW last \in BOOLEAN,
           Asserted(passed, last), OneByOne(last), StoreMove, Steady,
           bumpy' = (bumpy \/ g # "none"), timeEnd' \in Nat,
           context' \in Seq([name : Names, version : {NoVersion, 1}]),
           ~passed => g # "none" \/ Explained,
           passed => RowsMove(last) /\ TimeMove /\ FaultMove(last)
    PROVE  IInv'
<1>1. TypeInv /\ VersionsInv /\ TestInv /\ PassMeansInteroperable
  BY DEF IInv
<1>2. UNCHANGED <<fault, now, round, why, delay, missed>>
  BY DEF Steady
<1>3. bumpy' \in BOOLEAN /\ step \in 0..17 /\ step # 0
  BY <1>1 DEF TypeInv
<1>4. CASE passed /\ Advance(last)
  <2>1. /\ step' \in 1..17 /\ step' >= step /\ index' \in 1..n
        /\ step' \in {1, 10, 11, 12, 15} => index' = 1
    BY <1>1, <1>4, Progress
  <2>2. /\ DOMAIN store' = Pools
        /\ \A q \in Pools : \A id \in DOMAIN store'[q] :
              store'[q][id] \in Entity /\ id \in (0..round) \X Names
    BY <1>1, IdsOfTheRound DEF StoreMove, TypeInv
  <2>3. slept' \in BOOLEAN
    BY <1>1, <1>4, Zenon DEF Advance, TypeInv
  <2>4. Len(results) = round - 1 /\ results \in Seq(0..17)
    BY <1>1 DEF TypeInv
  <2>5. index' \in Nat /\ index' > 0 /\ index' <= n
    BY <2>1, CountFacts
  <2>6. TypeInv'
    BY <1>1, <1>2, <1>3, <1>4, <2>1, <2>2, <2>3, <2>4, <2>5 DEF TypeInv, Advance
  <2>7. VersionsInv'
    <3>1. now \in Nat
      BY <1>1 DEF TypeInv
    <3>2. now' \in Nat /\ now' >= now /\ step' \in Nat
      BY <1>2, <2>1, <3>1
    <3> QED
      BY <1>1, <1>2, <2>1, <3>2, VersionsKept
  <2>8. TestInv'
    BY <1>1, <1>2, <1>4, <2>6, AdvanceKeepsTestInv
  <2>9. PassMeansInteroperable'
    BY <1>1, <1>2, <1>4 DEF PassMeansInteroperable, Advance
  <2> QED
    BY <1>4, <2>6, <2>7, <2>8, <2>9 DEF IInv, Advance, FailuresExplained
<1>5. CASE passed /\ step = 17 /\ RoundDone(0)
  BY <1>2, <1>3, <1>5, RoundDoneKeepsIInv
<1>6. CASE ~passed /\ RoundDone(step)
  <2>1. round \in Nat
    BY <1>1, PermutationFacts DEF TypeInv
  <2>2. LeftBehind' = LeftBehind
    BY <1>2, <2>1, LeftBehindStays
  <2>3. Explained'
    BY <1>2, <1>6, <2>2 DEF Explained
  <2> QED
    BY <1>2, <1>3, <1>6, <2>3, RoundDoneKeepsIInv
<1> QED
  BY <1>1, <1>4, <1>5, <1>6, AssertedCases

-----------------------------------------------------------------------------
(***************************************************************************)
(* The four kinds of requests, as they pass                                *)
(***************************************************************************)

\* An entity that was made is in its store
LEMMA RowFacts ==
    ASSUME TypeInv, TestInv, NEW name \in Names, Made(name)
    PROVE  Id(name) \in DOMAIN store[Home(name)] /\ Home(name) \in Pools /\ Row(name) \in Entity
<1>1. Id(name) \in DOMAIN store[Home(name)] /\ Home(name) \in Pools
  BY InstanceFacts DEF TestInv, StoreInv
<1> QED
  BY <1>1 DEF TypeInv, Row

\* The numbers of the model, without the rest of the types
LEMMA NumberFacts ==
    ASSUME TypeInv
    PROVE  /\ step \in 1..17 /\ index \in Nat /\ index > 0 /\ round \in Nat
           /\ now \in Nat /\ delay \in Nat /\ delay <= MaxDelay /\ timeEnd \in Nat
           /\ Short \in Nat /\ Brief \in Nat /\ Lasting \in Nat /\ Long \in Nat
           /\ Brief > 0 /\ Brief = Short - Second + 1 /\ Second \in Nat
           /\ Lasting > Short /\ Lasting > MaxDelay /\ MaxDelay \in Nat
           /\ mode = "test" => index \in 1..n
<1>1. /\ step \in 1..17 /\ index \in Nat /\ index > 0 /\ round \in 1..Len(permutations)
      /\ now \in Nat /\ delay \in Nat /\ delay <= MaxDelay /\ timeEnd \in Nat
      /\ mode = "test" => index <= n
  BY DEF TypeInv
<1>2. /\ Short \in Nat /\ Brief \in Nat /\ Lasting \in Nat /\ Long \in Nat
      /\ Brief > 0 /\ Brief = Short - Second + 1 /\ Second \in Nat
      /\ Lasting > Short /\ Lasting > MaxDelay /\ MaxDelay \in Nat
  BY TimesFacts
<1> QED
  BY <1>1, <1>2, CountFacts, PermutationFacts

\* A get changes nothing
LEMMA ReadRows ==
    ASSUME TypeInv, TestInv, store' = store, context' = context, NEW last \in BOOLEAN,
           step \notin CreationSteps, step \notin {6, 11, 15, 17}, ~(step = 5 /\ last)
    PROVE  RowsMove(last)
<1>1. \A name \in Names : ~MadeNow(name) /\ ~GoneNow(name) /\ ~Renewed(name, last)
  BY NameFacts, NumberFacts DEF MadeNow, GoneNow, Renewed
<1>2. \A name \in Names : NewRow(name) = Row(name) /\ (Entered(name)' <=> Entered(name))
  BY DEF NewRow, Row, Entered
<1> QED
  BY <1>1, <1>2 DEF RowsMove, TestInv, ContextInv

\* The entity of one name is created
LEMMA CreatedRows ==
    ASSUME TypeInv, TestInv, NEW it \in Names, MadeNow(it), NEW last \in BOOLEAN,
           NEW d \in DSSs, Pool(d) = Home(it), NEW ends \in Nat,
           store' = Stored(d, Id(it), 1, ends),
           context' = Append(context, [name |-> it, version |-> 1]),
           it = isa1 => ends >= now + Lasting,
           ~IsISA(it) => ends = timeEnd'
    PROVE  RowsMove(last)
<1>1. step \in CreationSteps /\ index \in Nat /\ step # 5
  <2>1. index \in Nat
    BY NumberFacts
  <2> QED
    BY <2>1, NameFacts DEF MadeNow, CreationSteps
<1>2. \A name \in Names : /\ MadeNow(name) <=> name = it
                          /\ ~GoneNow(name) /\ ~Renewed(name, last)
  BY <1>1, NameFacts, OneNamePerRequest DEF MadeNow, GoneNow, Renewed, CreationSteps
<1>3. ~Made(it)
  BY <1>1 DEF MadeNow, Made, Passed, CreationSteps
<1> DEFINE row == [version |-> 1, ends |-> ends, live |-> TRUE]
           entry == [name |-> it, version |-> 1]
<1>4. /\ \A q \in Pools : q # Home(it) => store'[q] = store[q]
      /\ DOMAIN store'[Home(it)] = DOMAIN store[Home(it)] \cup {Id(it)}
      /\ store'[Home(it)][Id(it)] = row
      /\ \A i \in DOMAIN store[Home(it)] : i # Id(it) => store'[Home(it)][i] = store[Home(it)][i]
  BY StoredFacts
<1>5. row.live /\ row.version = 1 /\ row.ends = ends
  OBVIOUS
<1>6. entry.name = it /\ entry.version = 1
  OBVIOUS
<1> HIDE DEF row, entry
<1>7. /\ context \in Seq([name : Names, version : {NoVersion, 1}])
      /\ context' = Append(context, entry)
  BY DEF TypeInv, entry
<1>8. /\ \A k \in DOMAIN context : k \in DOMAIN context' /\ context'[k] = context[k]
      /\ \A k \in DOMAIN context' : context'[k] = entry \/ (k \in DOMAIN context /\ context'[k] = context[k])
      /\ \E k \in DOMAIN context' : context'[k] = entry
  <2>1. Len(context) \in Nat /\ Len(context) + 1 \in DOMAIN context'
        /\ context'[Len(context) + 1] = entry
    BY <1>7
  <2> QED
    BY <1>7, <2>1
<1>9. \A k \in DOMAIN context' : context'[k].version = 1
  BY <1>6, <1>8 DEF TestInv, ContextInv
<1>10. \A name \in Names : Entered(name)' <=> Entered(name) \/ MadeNow(name)
  BY <1>2, <1>6, <1>8 DEF Entered
<1>11. ASSUME NEW q \in Pools, NEW name \in Names
       PROVE  Id(name) \in DOMAIN store'[q]
                 <=> Id(name) \in DOMAIN store[q] \/ (MadeNow(name) /\ q = Home(name))
  BY <1>2, <1>4, DistinctIds
<1>12. ASSUME NEW name \in Names, MadeNow(name)
       PROVE  /\ NewRow(name).live /\ NewRow(name).version = 1
              /\ name = isa1 => NewRow(name).ends >= now + Lasting
              /\ ~IsISA(name) => NewRow(name).ends = timeEnd'
  BY <1>2, <1>4, <1>5, <1>12 DEF NewRow
<1>13. ASSUME NEW name \in Names, Made(name)
       PROVE  NewRow(name) = Row(name)
  <2>1. name # it /\ Id(name) # Id(it)
    BY <1>3, <1>13, DistinctIds
  <2>2. Id(name) \in DOMAIN store[Home(name)] /\ Home(name) \in Pools
    BY <1>13, RowFacts
  <2> QED
    BY <1>4, <2>1, <2>2 DEF NewRow, Row
<1> QED
  BY <1>2, <1>9, <1>10, <1>11, <1>12, <1>13 DEF RowsMove

\* The entity of one name is deleted
LEMMA ErasedRows ==
    ASSUME TypeInv, TestInv, NEW it \in Names, GoneNow(it), NEW last \in BOOLEAN,
           Live(primary, Id(it)), store' = Deleted(primary, Id(it)), context' = context
    PROVE  RowsMove(last)
<1>1. primary \in DSSs /\ Pool(primary) \in Pools
  BY InstanceFacts
<1>2. /\ Id(it) \in DOMAIN store[Pool(primary)]
      /\ store[Pool(primary)][Id(it)].live
  BY DEF Live, Held
<1>3. Home(it) = Pool(primary) /\ Made(it)
  BY <1>1, <1>2 DEF TestInv, StoreInv
<1>4. step \in 1..17 /\ step \notin CreationSteps /\ step # 5
  BY NameFacts, NumberFacts DEF GoneNow, CreationSteps
<1>5. \A name \in Names : /\ ~MadeNow(name) /\ ~Renewed(name, last)
                          /\ GoneNow(name) <=> name = it
  <2>1. \A name \in Names : ~MadeNow(name) /\ ~Renewed(name, last)
    BY <1>4, NameFacts DEF MadeNow, Renewed
  <2>2. \A name \in Names : GoneNow(name) => name = it
    <3>1. GoneAt(it) # 18
      BY <1>4 DEF GoneNow
    <3> QED
      BY <3>1, OneNamePerRequest DEF GoneNow
  <2> QED
    BY <2>1, <2>2
<1>6. /\ \A q \in Pools : DOMAIN store'[q] = DOMAIN store[q]
      /\ \A q \in Pools : \A i \in DOMAIN store[q] :
            /\ q # Home(it) \/ i # Id(it) => store'[q][i] = store[q][i]
            /\ q = Home(it) /\ i = Id(it) => store'[q][i] = [store[q][i] EXCEPT !.live = FALSE]
  BY <1>1, <1>3, DeletedFacts
<1>7. ASSUME NEW name \in Names, Made(name)
      PROVE  /\ NewRow(name).live <=> Row(name).live /\ ~GoneNow(name)
             /\ NewRow(name).version = Row(name).version
             /\ NewRow(name).ends = Row(name).ends
  <2>1. Id(name) \in DOMAIN store[Home(name)] /\ Home(name) \in Pools /\ Row(name) \in Entity
    BY <1>7, RowFacts
  <2>2. CASE name = it
    <3>1. NewRow(name) = [Row(name) EXCEPT !.live = FALSE]
      BY <1>6, <2>1, <2>2 DEF NewRow, Row
    <3>2. /\ NewRow(name).live = FALSE
          /\ NewRow(name).version = Row(name).version /\ NewRow(name).ends = Row(name).ends
      BY <2>1, <3>1 DEF Entity
    <3> QED
      BY <2>2, <3>2
  <2>3. CASE name # it
    <3>1. Id(name) # Id(it)
      BY <2>3, DistinctIds
    <3>2. NewRow(name) = Row(name)
      BY <1>6, <2>1, <3>1 DEF NewRow, Row
    <3> QED
      BY <1>5, <2>3, <3>2
  <2> QED
    BY <2>2, <2>3
<1>8. \A name \in Names : Entered(name)' <=> Entered(name)
  BY DEF Entered
<1> QED
  BY <1>5, <1>6, <1>7, <1>8 DEF RowsMove, TestInv, ContextInv

\* ISA_1 is updated
LEMMA RenewedRows ==
    ASSUME TypeInv, TestInv, step = 5, NEW v, NEW e, e <= now + Short,
           store' = Stored(primary, Id(isa1), v, e), context' = context
    PROVE  RowsMove(TRUE)
<1>1. primary \in DSSs /\ isa1 \in Names /\ Home(isa1) = Pool(primary)
  BY InstanceFacts, NamesOfKinds DEF Home, primary, isa1
<1>2. Made(isa1) /\ ~Gone(isa1)
  BY NamesOfKinds DEF Made, Gone, Passed, isa1
<1>3. Row(isa1).live /\ Id(isa1) \in DOMAIN store[Home(isa1)]
  BY <1>1, <1>2, RowFacts DEF TestInv, StoreInv
<1>4. \A name \in Names : /\ ~MadeNow(name) /\ ~GoneNow(name)
                          /\ Renewed(name, TRUE) <=> name = isa1
  BY NameFacts DEF MadeNow, GoneNow, Renewed, CreationSteps
<1> DEFINE row == [version |-> v, ends |-> e, live |-> TRUE]
<1>5. /\ \A q \in Pools : q # Home(isa1) => store'[q] = store[q]
      /\ DOMAIN store'[Home(isa1)] = DOMAIN store[Home(isa1)] \cup {Id(isa1)}
      /\ store'[Home(isa1)][Id(isa1)] = row
      /\ \A i \in DOMAIN store[Home(isa1)] : i # Id(isa1) => store'[Home(isa1)][i] = store[Home(isa1)][i]
  BY <1>1, StoredFacts
<1>6. row.live /\ row.ends = e
  OBVIOUS
<1> HIDE DEF row
<1>7. ASSUME NEW q \in Pools, NEW name \in Names
      PROVE  Id(name) \in DOMAIN store'[q] <=> Id(name) \in DOMAIN store[q]
  BY <1>3, <1>5
<1>8. ASSUME NEW name \in Names, Made(name), name # isa1
      PROVE  NewRow(name) = Row(name)
  <2>1. Id(name) # Id(isa1)
    BY <1>8, DistinctIds
  <2>2. Id(name) \in DOMAIN store[Home(name)] /\ Home(name) \in Pools
    BY <1>8, RowFacts
  <2> QED
    BY <1>5, <2>1, <2>2 DEF NewRow, Row
<1>9. NewRow(isa1).live /\ NewRow(isa1).ends <= now + Short
  BY <1>5, <1>6 DEF NewRow
<1>10. \A name \in Names : Entered(name)' <=> Entered(name)
  BY DEF Entered
<1> QED
  BY <1>3, <1>4, <1>7, <1>8, <1>9, <1>10 DEF RowsMove, TestInv, ContextInv

-----------------------------------------------------------------------------
(***************************************************************************)
(* The requests of the test steps                                          *)
(***************************************************************************)

\* The store after a request is the old one or has the request's effect
LEMMA RequestMoves ==
    ASSUME NEW g, NEW accepted \in BOOLEAN, NEW effect, Request(g, accepted, effect)
    PROVE  /\ bumpy' = (bumpy \/ g # "none")
           /\ store' = store \/ store' = effect
           /\ ~accepted => store' = store
           /\ accepted /\ g = "none" => store' = effect
  BY DEF Request

\* The request of testStep1, testStep10 and testStep12
LEMMA PutISAStep ==
    ASSUME IInv, mode = "test", NEW k \in 1..3, MadeAt(<<"isa", k, 0>>) = step,
           NEW expected \in BOOLEAN, PutISA(<<"isa", k, 0>>, expected),
           ~expected => Explained, step = 12 => slept,
           step = 10 /\ expected => fault[primary] # "deaf"
    PROVE  IInv'
<1> DEFINE name == <<"isa", k, 0>>
           ends == WholeSeconds(now + Long)
<1>1. TypeInv /\ TestInv
  BY DEF IInv
<1>2. /\ name \in Names /\ IsISA(name) /\ Slot(name) = 1 /\ step \in {1, 10, 12} /\ index = 1
  BY <1>1, NamesOfKinds DEF TypeInv
<1>3. primary \in DSSs /\ Pool(primary) = Home(name) /\ ends \in Nat /\ ends >= now + Lasting
  <2>1. now \in Nat /\ Long \in Nat /\ Second \in Nat /\ now + Long \in Nat
    BY <1>1, NumberFacts
  <2>2. ends \in Nat /\ ends + Second >= (now + Long) + 1
    BY <2>1, WholeSecondsFacts
  <2>3. ends >= now + Lasting
    <3> HIDE DEF ends
    <3> QED
      BY <2>1, <2>2 DEF Lasting
  <2> QED
    BY <1>1, <1>2, <2>2, <2>3, InstanceFacts DEF Home, primary
<1>4. PICK g \in Glitch :
         /\ Request(g, TRUE, Stored(primary, Id(name), 1, ends))
         /\ context' = Append(context, [name |-> name,
                                        version |-> Saved(g = "none" /\ expected)])
         /\ Asserted(g = "none" /\ expected, TRUE)
         /\ timeEnd' = timeEnd /\ Steady
  BY Zenon DEF PutISA
<1> DEFINE passed == g = "none" /\ expected
           entry == [name |-> name, version |-> Saved(passed)]
<1>5. passed \in BOOLEAN /\ Saved(passed) \in {NoVersion, 1} /\ (passed => Saved(passed) = 1)
  BY DEF Saved
<1>6. Asserted(passed, TRUE) /\ context' = Append(context, entry)
  BY <1>4
<1>7. entry \in [name : Names, version : {NoVersion, 1}]
  BY <1>2, <1>5
<1>8. context' \in Seq([name : Names, version : {NoVersion, 1}])
  <2>1. context \in Seq([name : Names, version : {NoVersion, 1}])
    BY <1>1 DEF TypeInv
  <2> HIDE DEF entry
  <2> QED
    BY <1>6, <1>7, <2>1
<1>9. /\ bumpy' = (bumpy \/ g # "none")
      /\ store' = store \/ store' = Stored(primary, Id(name), 1, ends)
      /\ g = "none" => store' = Stored(primary, Id(name), 1, ends)
  BY <1>4, RequestMoves
<1>10. StoreMove
  <2> HIDE DEF name, ends
  <2> QED
    BY <1>1, <1>2, <1>3, <1>9, NothingMoves, StoredMoves
<1>11. step \in CreationSteps /\ OneByOne(TRUE) /\ timeEnd' \in Nat
  BY <1>1, <1>2, <1>4, NumberFacts DEF CreationSteps, OneByOne
<1>12. ASSUME passed
       PROVE  RowsMove(TRUE) /\ TimeMove /\ FaultMove(TRUE)
  <2>1. context' = Append(context, [name |-> name, version |-> 1])
    BY <1>5, <1>6, <1>12
  <2>2. store' = Stored(primary, Id(name), 1, ends)
    BY <1>9, <1>12
  <2>3. MadeNow(name)
    BY <1>2 DEF MadeNow
  <2> HIDE DEF name, ends
  <2>4. RowsMove(TRUE)
    BY <1>1, <1>2, <1>3, <2>1, <2>2, <2>3, CreatedRows
  <2>5. TimeMove
    BY <1>2, <1>4 DEF TimeMove, Steady
  <2>6. FaultMove(TRUE)
    BY <1>2, <1>12 DEF FaultMove
  <2> QED
    BY <2>4, <2>5, <2>6
<1>13. ~passed => g # "none" \/ Explained
  OBVIOUS
<1>14. Steady
  BY <1>4
<1> HIDE DEF passed
<1> QED
  BY <1>5, <1>6, <1>8, <1>9, <1>10, <1>11, <1>12, <1>13, <1>14, TestStepKeepsIInv

\* The names are finitely many
LEMMA FinitelyManyNames == IsFiniteSet(Names)
<1> DEFINE pairs == {"isa", "sub"} \X ((1..3) \X (0..n))
           split == [name \in Names |-> <<name[1], <<name[2], name[3]>>>>]
<1>1. IsFiniteSet(pairs)
  <2>1. IsFiniteSet({"isa", "sub"})
    <3>1. {"isa", "sub"} = {"isa"} \cup {"sub"}
      BY Zenon
    <3>2. IsFiniteSet({"isa"})
      BY FS_Singleton, Zenon
    <3>3. IsFiniteSet({"isa"} \cup {"sub"})
      BY <3>2, FS_AddElement, Zenon
    <3> QED
      BY <3>1, <3>3, Zenon
  <2>2. IsFiniteSet(1..3) /\ IsFiniteSet(0..n)
    <3>1. 0 \in Int /\ 1 \in Int /\ 3 \in Int /\ n \in Int
      BY CountFacts
    <3> QED
      BY <3>1, FS_Interval
  <2>3. IsFiniteSet((1..3) \X (0..n))
    BY <2>2, FS_Product
  <2> QED
    BY <2>1, <2>3, FS_Product
<1>2. ASSUME NEW name \in Names
      PROVE  /\ name = <<name[1], name[2], name[3]>>
             /\ name[1] \in {"isa", "sub"} /\ name[2] \in 1..3 /\ name[3] \in 0..n
  BY <1>2, NameCases, CountFacts
<1>3. split \in [Names -> pairs]
  BY <1>2
<1>4. ASSUME NEW a \in Names, NEW b \in Names, split[a] = split[b]
      PROVE  a = b
  <2>1. a[1] = b[1] /\ a[2] = b[2] /\ a[3] = b[3]
    BY <1>4
  <2> QED
    BY <1>2, <2>1
<1>5. split \in Injection(Names, pairs)
  <2>1. DOMAIN split = Names
    OBVIOUS
  <2> HIDE DEF split, pairs
  <2> QED
    BY <1>3, <1>4, <2>1 DEF Injection, IsInjective
<1> HIDE DEF split, pairs
<1> QED
  BY <1>1, <1>5, FS_Injection

\* The subscriptions that count when a subscription is made: those left behind
\* and those its step has made
LEMMA CountedBefore ==
    ASSUME TypeInv, TestInv, mode = "test", ~Explained, NEW k \in 1..3,
           step = (IF k = 1 THEN 2 ELSE IF k = 2 THEN 9 ELSE 16), step = 9 => slept,
           NEW id \in Counted(asked)
    PROVE  id \in LeftBehind \/ \E i \in 1..(index - 1) : id = Id(<<"sub", k, i>>)
<1>1. index \in 1..n /\ asked \in DSSs
  BY NumberFacts, InstanceFacts DEF asked
<1>2. \A e \in DSSs : Pool(e) = Region
  BY DEF Explained, Pool, Unnoticed
<1>3. /\ id \in DOMAIN store[Region] /\ ~IsISA(id[2])
      /\ store[Region][id].live /\ store[Region][id].ends > now
  BY <1>1, <1>2 DEF Counted, Found, Held
<1>4. Region \in Pools /\ id \in (0..round) \X Names /\ round \in Nat
  BY <1>3, NumberFacts DEF TypeInv, Pools
<1>5. CASE id[1] < round
  BY <1>3, <1>5 DEF LeftBehind
<1>6. CASE id[1] = round
  <2> DEFINE name == id[2]
  <2>1. name \in Names /\ id = Id(name)
    BY <1>4, <1>6 DEF Id
  <2>2. Made(name) /\ Home(name) = Region
    BY <1>3, <1>4, <2>1 DEF TestInv, StoreInv
  <2>3. Row(name) = store[Region][id] /\ Row(name) \in Entity /\ now \in Nat
    BY <2>1, <2>2, RowFacts, NumberFacts DEF Row
  <2>4. ~Gone(name) /\ ~(Row(name).ends <= now)
    <3>1. Row(name).live => ~Gone(name)
      BY <2>1, <2>2 DEF TestInv, StoreInv
    <3>2. Row(name).ends \in Nat
      BY <2>3 DEF Entity
    <3> QED
      BY <1>3, <2>3, <3>1, <3>2
  <2>5. PICK j \in 1..3, i \in 1..n : name = <<"sub", j, i>>
    <3>1. ~\E j \in 1..3 : name = <<"isa", j, 0>>
      BY <1>3, NamesOfKinds
    <3> QED
      BY <2>1, <3>1, NameCases
  <2>6. /\ MadeAt(name) = (IF j = 1 THEN 2 ELSE IF j = 2 THEN 9 ELSE 16) /\ Slot(name) = i
        /\ GoneAt(name) = (IF j = 1 THEN 6 ELSE IF j = 2 THEN 18 ELSE 17)
    BY <2>5, NamesOfKinds
  <2>7. step = 16 => Row(<<"sub", 2, i>>).ends <= now
    <3>1. step = 16 => step > 12
      OBVIOUS
    <3> QED
      BY <3>1 DEF TestInv, TimeInv
  <2> HIDE DEF name
  <2>8. j = k /\ index > i
    <3>1. /\ step > MadeAt(name) \/ (step = MadeAt(name) /\ index > i)
          /\ ~(step > GoneAt(name))
      BY <2>2, <2>4, <2>6 DEF Made, Gone, Passed
    <3>2. ~(j = 2 /\ step = 16)
      BY <2>4, <2>5, <2>7
    <3>3. CASE k = 1
      BY <2>6, <3>1, <3>3
    <3>4. CASE k = 2
      BY <2>6, <3>1, <3>4
    <3>5. CASE k = 3
      BY <2>6, <3>1, <3>2, <3>5
    <3> QED
      BY <3>3, <3>4, <3>5
  <2>9. i \in 1..(index - 1)
    BY <1>1, <2>8, CountFacts
  <2> QED
    BY <2>1, <2>5, <2>8, <2>9
<1> QED
  BY <1>4, <1>5, <1>6

\* Without a cause for a failure there is room for the next subscription
LEMMA RoomLeft ==
    ASSUME TypeInv, TestInv, mode = "test", ~Explained, NEW k \in 1..3,
           step = (IF k = 1 THEN 2 ELSE IF k = 2 THEN 9 ELSE 16), step = 9 => slept
    PROVE  Cardinality(Counted(asked)) < Limit
<1> DEFINE made == {Id(<<"sub", k, i>>) : i \in 1..(index - 1)}
           make == [i \in 1..(index - 1) |-> Id(<<"sub", k, i>>)]
<1>1. index \in 1..n /\ n \in Nat /\ round \in Nat /\ Limit \in Nat
  BY NumberFacts, CountFacts, LimitAssumption
<1>2. IsFiniteSet(LeftBehind)
  <2>1. IsFiniteSet((0..round) \X Names)
    <3>1. IsFiniteSet(0..round)
      BY <1>1, FS_Interval
    <3> QED
      BY <3>1, FinitelyManyNames, FS_Product
  <2>2. LeftBehind \subseteq (0..round) \X Names
    BY DEF LeftBehind, TypeInv, Pools
  <2> QED
    BY <2>1, <2>2, FS_Subset
<1>3. IsFiniteSet(made) /\ Cardinality(made) <= index - 1
  <2>1. IsFiniteSet(1..(index - 1)) /\ Cardinality(1..(index - 1)) = index - 1
    <3>1. 1 \in Int /\ index - 1 \in Int /\ (1 > index - 1 => index - 1 = 0)
          /\ (index - 1) - 1 + 1 = index - 1
      BY <1>1
    <3> QED
      BY <3>1, FS_Interval
  <2>2. make \in Surjection(1..(index - 1), made)
    BY DEF Surjection
  <2> HIDE DEF make, made
  <2> QED
    BY <2>1, <2>2, FS_Surjection
<1>4. Counted(asked) \subseteq LeftBehind \cup made
  <2>1. ASSUME NEW id \in Counted(asked)
        PROVE  id \in LeftBehind \cup made
    <3>1. id \in LeftBehind \/ \E i \in 1..(index - 1) : id = Id(<<"sub", k, i>>)
      BY CountedBefore
    <3> QED
      BY <3>1
  <2> QED
    BY <2>1
<1> HIDE DEF made, make
<1>5. /\ IsFiniteSet(LeftBehind \cup made)
      /\ Cardinality(LeftBehind \cup made) <= Cardinality(LeftBehind) + (index - 1)
  <2>1. /\ IsFiniteSet(LeftBehind \cup made) /\ IsFiniteSet(LeftBehind \cap made)
        /\ Cardinality(LeftBehind \cup made) =
              Cardinality(LeftBehind) + Cardinality(made) - Cardinality(LeftBehind \cap made)
    BY <1>2, <1>3, FS_Union, FS_Subset
  <2>2. /\ Cardinality(LeftBehind) \in Nat /\ Cardinality(made) \in Nat
        /\ Cardinality(LeftBehind \cap made) \in Nat
    BY <1>2, <1>3, <2>1, FS_CardinalityType
  <2> QED
    BY <1>1, <1>3, <2>1, <2>2
<1>6. /\ Cardinality(Counted(asked)) <= Cardinality(LeftBehind \cup made)
      /\ Cardinality(Counted(asked)) \in Nat
      /\ Cardinality(LeftBehind \cup made) \in Nat /\ Cardinality(LeftBehind) \in Nat
  BY <1>2, <1>4, <1>5, FS_Subset, FS_CardinalityType
<1>7. Cardinality(LeftBehind) + n <= Limit
  BY <1>1, <1>6 DEF Explained
<1> QED
  BY <1>1, <1>5, <1>6, <1>7

\* One request of testStep2, testStep9 and testStep16
LEMMA PutSubStep ==
    ASSUME IInv, mode = "test", NEW k \in 1..3, MadeAt(<<"sub", k, index>>) = step,
           NEW ttl, ttl = IF k = 2 THEN Short ELSE Long,
           NEW expected \in BOOLEAN, PutSub(k, ttl, expected),
           ~expected => Explained, step = 9 => slept,
           step = 9 /\ expected => fault[asked] # "stale_isa"
    PROVE  IInv'
<1> DEFINE name == <<"sub", k, index>>
           ends == IF index = 1 THEN WholeSeconds(now + ttl) ELSE timeEnd
           room == Cardinality(Counted(asked)) < Limit
           least == IF k = 2 THEN Brief ELSE Lasting
<1>1. TypeInv /\ TestInv
  BY DEF IInv
<1>2. index \in 1..n
  BY <1>1, NumberFacts
<1>3. /\ name \in Names /\ ~IsISA(name) /\ Slot(name) = index
      /\ step = (IF k = 1 THEN 2 ELSE IF k = 2 THEN 9 ELSE 16) /\ name # isa1
  BY <1>2, NamesOfKinds DEF isa1
<1>4. asked \in DSSs /\ Pool(asked) = Home(name)
  BY <1>1, <1>2, <1>3, InstanceFacts DEF Home, asked
<1>5. /\ ends \in Nat /\ ends + delay >= now + least
      /\ k = 2 => ends <= now + Short
  <2>1. now \in Nat /\ ttl \in Nat /\ Second \in Nat /\ now + ttl \in Nat /\ delay \in Nat
        /\ least \in Nat /\ least = ttl - Second + 1
    BY <1>1, NumberFacts DEF Brief, Lasting
  <2> HIDE DEF least
  <2>2. /\ WholeSeconds(now + ttl) \in Nat /\ WholeSeconds(now + ttl) <= now + ttl
        /\ WholeSeconds(now + ttl) + Second >= (now + ttl) + 1
    BY <2>1, WholeSecondsFacts
  <2>3. CASE index = 1
    BY <2>1, <2>2, <2>3
  <2>4. CASE index # 1
    <3>1. index > 1 /\ timeEnd \in Nat
      BY <1>1, <1>2, <2>4, NumberFacts
    <3>2. timeEnd + delay >= now + least /\ (k = 2 => timeEnd <= now + Short)
      BY <1>1, <1>3, <3>1 DEF TestInv, TimeInv, least
    <3> QED
      BY <2>4, <3>1, <3>2
  <2> QED
    BY <2>3, <2>4
<1>6. (ends > now /\ room) \/ Explained
  <2>1. SUFFICES ASSUME ~Explained PROVE ends > now /\ room
    OBVIOUS
  <2>2. room
    BY <1>1, <1>3, <2>1, RoomLeft
  <2>3. delay < Brief /\ delay < Lasting
    BY <1>1, <2>1, NumberFacts DEF Explained
  <2>4. delay < least /\ least \in Nat /\ delay \in Nat /\ now \in Nat
    BY <1>1, <2>3, NumberFacts
  <2> HIDE DEF least, ends
  <2> QED
    BY <1>5, <2>2, <2>4
<1>7. PICK g \in Glitch :
         /\ Request(g, ends > now /\ room, Stored(asked, Id(name), 1, ends))
         /\ timeEnd' = ends
         /\ context' = Append(context,
                [name |-> name, version |-> Saved(g = "none" /\ (ends > now /\ room) /\ expected)])
         /\ Asserted(g = "none" /\ (ends > now /\ room) /\ expected, index = n)
         /\ Steady
  BY Zenon DEF PutSub
<1> DEFINE passed == g = "none" /\ (ends > now /\ room) /\ expected
           last == index = n
           accepted == ends > now /\ room
           entry == [name |-> name, version |-> Saved(passed)]
<1>8. /\ passed \in BOOLEAN /\ last \in BOOLEAN /\ accepted \in BOOLEAN
      /\ Saved(passed) \in {NoVersion, 1} /\ (passed => Saved(passed) = 1)
  BY DEF Saved
<1>9. /\ Asserted(passed, last) /\ context' = Append(context, entry)
      /\ Request(g, accepted, Stored(asked, Id(name), 1, ends))
  BY <1>7
<1>10. entry \in [name : Names, version : {NoVersion, 1}]
  BY <1>3, <1>8
<1>11. context' \in Seq([name : Names, version : {NoVersion, 1}])
  <2>1. context \in Seq([name : Names, version : {NoVersion, 1}])
    BY <1>1 DEF TypeInv
  <2> HIDE DEF entry
  <2> QED
    BY <1>9, <1>10, <2>1
<1>12. /\ bumpy' = (bumpy \/ g # "none")
       /\ store' = store \/ store' = Stored(asked, Id(name), 1, ends)
       /\ g = "none" /\ accepted => store' = Stored(asked, Id(name), 1, ends)
  <2> HIDE DEF accepted
  <2> QED
    BY <1>8, <1>9, RequestMoves
<1>13. StoreMove
  <2> HIDE DEF name, ends
  <2> QED
    BY <1>1, <1>3, <1>4, <1>5, <1>12, NothingMoves, StoredMoves
<1>14. step \in CreationSteps /\ OneByOne(last) /\ timeEnd' \in Nat
  BY <1>2, <1>3, <1>5, <1>7, CountFacts DEF CreationSteps, OneByOne
<1>15. ASSUME passed
       PROVE  RowsMove(last) /\ TimeMove /\ FaultMove(last)
  <2>1. context' = Append(context, [name |-> name, version |-> 1])
    BY <1>8, <1>9, <1>15
  <2>2. store' = Stored(asked, Id(name), 1, ends) /\ timeEnd' = ends
    BY <1>7, <1>12, <1>15
  <2>3. MadeNow(name)
    BY <1>3 DEF MadeNow
  <2>4. FaultMove(last)
    BY <1>3, <1>15 DEF FaultMove
  <2> HIDE DEF name, ends, last, least
  <2>5. RowsMove(last)
    BY <1>1, <1>3, <1>4, <1>5, <1>8, <2>1, <2>2, <2>3, CreatedRows
  <2>6. UNCHANGED <<now, delay>>
    BY <1>7 DEF Steady
  <2>7. TimeMove
    BY <1>3, <1>5, <2>2, <2>6 DEF TimeMove, least
  <2> QED
    BY <2>4, <2>5, <2>7
<1>16. ~passed => g # "none" \/ Explained
  BY <1>6
<1>17. Steady
  BY <1>7
<1> HIDE DEF passed, last
<1> QED
  BY <1>8, <1>9, <1>11, <1>12, <1>13, <1>14, <1>15, <1>16, <1>17, TestStepKeepsIInv

\* One request of the test steps that only read
LEMMA GetStep ==
    ASSUME IInv, mode = "test", step \in {3, 4, 7, 8, 13, 14},
           NEW expected \in BOOLEAN, GetFromAll(expected), ~expected => Explained,
           step = 3 /\ expected => Pool(asked) = Pool(primary),
           step = 13 /\ expected => fault[asked] # "expired_sub"
    PROVE  IInv'
<1>1. TypeInv /\ TestInv
  BY DEF IInv
<1>2. index \in 1..n /\ timeEnd \in Nat
  BY <1>1, NumberFacts
<1>3. PICK g \in Glitch :
         /\ Request(g, FALSE, store) /\ Asserted(g = "none" /\ expected, index = n)
         /\ timeEnd' = timeEnd /\ context' = context /\ Steady
  BY Zenon DEF GetFromAll
<1> DEFINE passed == g = "none" /\ expected
           last == index = n
<1>4. passed \in BOOLEAN /\ last \in BOOLEAN /\ Asserted(passed, last)
  BY <1>3
<1>5. bumpy' = (bumpy \/ g # "none") /\ store' = store
  BY <1>3, RequestMoves
<1>6. StoreMove
  BY <1>1, <1>5, NothingMoves
<1>7. OneByOne(last) /\ step \notin CreationSteps /\ step \notin {6, 11, 15, 17} /\ step # 5
  BY <1>2, CountFacts DEF OneByOne, CreationSteps
<1>8. context' \in Seq([name : Names, version : {NoVersion, 1}])
  BY <1>1, <1>3 DEF TypeInv
<1>9. ASSUME passed
      PROVE  RowsMove(last) /\ TimeMove /\ FaultMove(last)
  <2>1. FaultMove(last)
    BY <1>9 DEF FaultMove
  <2>2. TimeMove
    BY <1>3 DEF TimeMove, Steady
  <2> HIDE DEF last
  <2>3. RowsMove(last)
    BY <1>1, <1>3, <1>4, <1>5, <1>7, ReadRows
  <2> QED
    BY <2>1, <2>2, <2>3
<1>10. ~passed => g # "none" \/ Explained
  OBVIOUS
<1> HIDE DEF passed, last
<1> QED
  BY <1>2, <1>3, <1>4, <1>5, <1>6, <1>7, <1>8, <1>9, <1>10, TestStepKeepsIInv

(***************************************************************************)
(* A region without faults: what its instances return                      *)
(***************************************************************************)

\* Without faults every instance holds what the round made
LEMMA HealthyRow ==
    ASSUME TypeInv, TestInv, ~Explained, NEW name \in Names, Made(name), NEW d \in DSSs
    PROVE  /\ Id(name) \in DOMAIN Held(d) /\ Held(d)[Id(name)] = Row(name)
           /\ Row(name) \in Entity
           /\ Live(d, Id(name)) <=> ~Gone(name)
<1>1. \A e \in DSSs : Pool(e) = Region
  BY DEF Explained, Pool, Unnoticed
<1>2. Home(name) = Region /\ Pool(d) = Region
  BY <1>1, InstanceFacts, NameFacts DEF Home
<1>3. Id(name) \in DOMAIN store[Region] /\ Row(name) = store[Region][Id(name)]
      /\ Row(name) \in Entity
  BY <1>2, RowFacts DEF Row
<1>4. Row(name).live <=> ~Gone(name)
  BY DEF TestInv, StoreInv
<1> QED
  BY <1>2, <1>3, <1>4 DEF Held, Live

\* Without faults a search returns what lives and has not ended
LEMMA HealthySearch ==
    ASSUME TypeInv, TestInv, ~Explained, NEW name \in Names, Made(name), NEW d \in DSSs
    PROVE  /\ IsISA(name) => (Id(name) \in ISAsInArea(d) <=> ~Gone(name) /\ Row(name).ends > now)
           /\ ~IsISA(name) /\ ~Gone(name) /\ Row(name).ends > now =>
                  Id(name) \in SubsInArea(d) /\ Id(name) \in Notified(d)
           /\ Row(name).ends <= now => Id(name) \notin SubsInArea(d)
<1>1. /\ Id(name) \in DOMAIN Held(d) /\ Held(d)[Id(name)] = Row(name)
      /\ Row(name).live <=> ~Gone(name)
  BY HealthyRow DEF TestInv, StoreInv
<1>2. Row(name).ends \in Nat /\ now \in Nat
  BY HealthyRow, NumberFacts DEF Entity
<1>3. fault[d] \notin {"stale_isa", "deaf", "expired_sub"}
  BY DEF Explained, Unnoticed
<1>4. Id(name)[2] = name
  BY DistinctIds
<1>5. Id(name) \in ISAsInArea(d) <=> IsISA(name) /\ ~Gone(name) /\ Row(name).ends > now
  BY <1>1, <1>3, <1>4 DEF ISAsInArea, Found
<1>6. /\ ~IsISA(name) /\ ~Gone(name) /\ Row(name).ends > now => Id(name) \in SubsInArea(d)
      /\ Id(name) \in SubsInArea(d) => Row(name).ends > now
  BY <1>1, <1>3, <1>4 DEF SubsInArea, Found
<1>7. ~IsISA(name) /\ ~Gone(name) /\ Row(name).ends > now => Id(name) \in Notified(d)
  BY <1>1, <1>3, <1>4 DEF Notified, Found
<1> QED
  BY <1>2, <1>5, <1>6, <1>7

\* The names are no identifiers
LEMMA NoNameIsFound ==
    ASSUME TypeInv, NEW d \in DSSs
    PROVE  SubsInArea(d) \cap SubNames = {} /\ Notified(d) \cap SubNames = {}
<1>1. SubsInArea(d) \cup Notified(d) \subseteq (0..round) \X Names
  BY InstanceFacts DEF SubsInArea, Notified, Found, Held, TypeInv
<1>2. ASSUME NEW id \in (0..round) \X Names, NEW k, NEW i, id = <<"sub", k, i>>
      PROVE  FALSE
  <2>1. Len(id) = 2 /\ Len(id) = 3
    BY <1>2
  <2> QED
    BY <2>1
<1> QED
  BY <1>1, <1>2 DEF SubNames

\* One entity is deleted at the primary instance, and its version is known
LEMMA DeleteStep ==
    ASSUME IInv, mode = "test", NEW it \in Names, GoneAt(it) = step, Slot(it) = index,
           NEW last \in BOOLEAN, OneByOne(last),
           NEW expected \in BOOLEAN, DeleteAtPrimary(it, last, expected),
           ~expected => Explained
    PROVE  IInv'
<1> DEFINE accepted == Deletable(primary, Id(it), Version(it))
<1>1. TypeInv /\ TestInv
  BY DEF IInv
<1>2. step \in 1..17 /\ step \in {6, 11, 15, 17} /\ it # isa1 /\ timeEnd \in Nat
  BY <1>1, NumberFacts, NameFacts, NamesOfKinds DEF isa1
<1>3. Made(it) /\ ~Gone(it)
  BY <1>1, <1>2, NameFacts, NumberFacts DEF Made, Gone, Passed, CreationSteps
<1>4. Version(it) = 1
  <2>1. \E k \in DOMAIN context : context[k].name = it
    BY <1>1, <1>3 DEF TestInv, ContextInv, Entered
  <2>2. (CHOOSE k \in DOMAIN context : context[k].name = it) \in DOMAIN context
    BY <2>1
  <2> QED
    BY <1>1, <2>2 DEF Version, TestInv, ContextInv
<1>5. accepted \/ Explained
  <2>1. SUFFICES ASSUME ~Explained PROVE accepted
    OBVIOUS
  <2>2. Live(primary, Id(it)) /\ Held(primary)[Id(it)] = Row(it)
    BY <1>1, <1>3, <2>1, InstanceFacts, HealthyRow
  <2>3. Row(it).version = 1
    BY <1>1, <1>2, <1>3 DEF TestInv, StoreInv
  <2> QED
    BY <1>4, <2>2, <2>3 DEF Deletable
<1>6. PICK g \in Glitch :
         /\ Request(g, accepted, Deleted(primary, Id(it)))
         /\ Asserted(g = "none" /\ accepted /\ expected, last)
         /\ timeEnd' = timeEnd /\ context' = context /\ Steady
  BY Zenon DEF DeleteAtPrimary
<1>7. accepted \in BOOLEAN /\ (accepted => Live(primary, Id(it)))
  BY DEF Deletable
<1> HIDE DEF accepted
<1> DEFINE passed == g = "none" /\ accepted /\ expected
<1>8. passed \in BOOLEAN /\ Asserted(passed, last)
  BY <1>6
<1>9. /\ bumpy' = (bumpy \/ g # "none")
      /\ store' = store \/ store' = Deleted(primary, Id(it))
      /\ g = "none" /\ accepted => store' = Deleted(primary, Id(it))
  BY <1>6, <1>7, RequestMoves
<1>10. StoreMove
  BY <1>1, <1>9, InstanceFacts, DistinctIds, NothingMoves, DeletedMoves
<1>11. context' \in Seq([name : Names, version : {NoVersion, 1}])
  BY <1>1, <1>6 DEF TypeInv
<1>12. ASSUME passed
       PROVE  RowsMove(last) /\ TimeMove /\ FaultMove(last)
  <2>1. FaultMove(last)
    BY <1>2 DEF FaultMove
  <2>2. TimeMove
    BY <1>2, <1>6 DEF TimeMove, Steady
  <2>3. GoneNow(it)
    BY DEF GoneNow
  <2>4. store' = Deleted(primary, Id(it)) /\ Live(primary, Id(it))
    BY <1>7, <1>9, <1>12
  <2>5. RowsMove(last)
    BY <1>1, <1>6, <2>3, <2>4, ErasedRows
  <2> QED
    BY <2>1, <2>2, <2>5
<1>13. ~passed => g # "none" \/ Explained
  BY <1>5
<1>14. Steady /\ timeEnd' \in Nat /\ context' = context /\ bumpy' = (bumpy \/ g # "none")
  BY <1>2, <1>6, <1>9
<1> HIDE DEF passed
<1> QED
  BY <1>8, <1>10, <1>11, <1>12, <1>13, <1>14, TestStepKeepsIInv

-----------------------------------------------------------------------------
(***************************************************************************)
(* The test steps                                                          *)
(***************************************************************************)

\* Identifiers of the subscriptions named in testStep4, 10, 11 and 13
LEMMA NamedFacts ==
    ASSUME TypeInv, TestInv, NEW k \in 1..3
    PROVE  \A id : id \in Named(k) <=> \E i \in 1..n : /\ id = Id(<<"sub", k, i>>)
                                                       /\ Made(<<"sub", k, i>>)
<1>1. \A i \in 1..n : Entered(<<"sub", k, i>>) <=> Made(<<"sub", k, i>>)
  <2>1. \A i \in 1..n : <<"sub", k, i>> \in Names
    BY NamesOfKinds
  <2> QED
    BY <2>1 DEF TestInv, ContextInv
<1> QED
  BY <1>1 DEF Named

\* ISA_1 is created: nothing is expected of the answer
LEMMA testStep1Keeps ==
    ASSUME IInv, testStep1
    PROVE  IInv'
<1> DEFINE k == 1
           expected == TRUE
<1>1. mode = "test" /\ step = 1 /\ PutISA(<<"isa", k, 0>>, expected)
  BY DEF testStep1, Testing
<1>2. k \in 1..3 /\ MadeAt(<<"isa", k, 0>>) = step /\ expected /\ expected \in BOOLEAN
  BY <1>1, NamesOfKinds
<1> HIDE DEF k, expected
<1>3. (~expected => Explained) /\ (step = 12 => slept) /\ (step = 10 /\ expected => fault[primary] # "deaf")
  BY <1>1, <1>2
<1> QED
  BY <1>1, <1>2, <1>3, PutISAStep

\* ISA_1 has not ended while the first subscriptions are made
LEMMA testStep2Keeps ==
    ASSUME IInv, testStep2
    PROVE  IInv'
<1> DEFINE expected == Id(<<"isa", 1, 0>>) \in isas
<1>1. mode = "test" /\ step = 2 /\ PutSub(1, Long, expected) /\ expected \in BOOLEAN
  BY DEF testStep2, Testing
<1>2. TypeInv /\ TestInv
  BY <1>1 DEF IInv
<1>3. index \in 1..n /\ asked \in DSSs
  BY <1>1, <1>2, NumberFacts, InstanceFacts DEF asked
<1>4. MadeAt(<<"sub", 1, index>>) = 2
  BY <1>3, NamesOfKinds
<1>5. ~expected => Explained
  <2>1. SUFFICES ASSUME ~Explained PROVE expected
    OBVIOUS
  <2>2. isa1 \in Names /\ IsISA(isa1) /\ Made(isa1) /\ ~Gone(isa1)
    BY <1>1, NamesOfKinds DEF Made, Gone, Passed, isa1
  <2>3. Row(isa1).ends \in Nat
    BY <1>2, <2>2, RowFacts DEF Entity
  <2>4. Row(isa1).ends > now
    BY <1>1, <1>2, <2>2, <2>3, NumberFacts DEF TestInv, TimeInv
  <2> QED
    BY <1>2, <1>3, <2>1, <2>2, <2>4, HealthySearch DEF isas, isa1
<1> HIDE DEF expected
<1> QED
  BY <1>1, <1>4, <1>5, PutSubStep

\* An instance that knows the primary's subscription shares its store
LEMMA testStep3Keeps ==
    ASSUME IInv, testStep3
    PROVE  IInv'
<1> DEFINE it == <<"sub", 1, 1>>
           expected == Live(asked, Id(it))
<1>1. mode = "test" /\ step = 3 /\ GetFromAll(expected) /\ expected \in BOOLEAN
  BY DEF testStep3, Testing, Live
<1>2. TypeInv /\ TestInv
  BY <1>1 DEF IInv
<1>3. index \in 1..n /\ asked \in DSSs /\ Pool(asked) \in Pools
  BY <1>1, <1>2, NumberFacts, InstanceFacts DEF asked
<1>4. it \in Names /\ Made(it) /\ ~Gone(it) /\ Slot(it) = 1
  BY <1>1, CountFacts, NamesOfKinds DEF Made, Gone, Passed
<1> HIDE DEF it
<1>5. ~expected => Explained
  BY <1>2, <1>3, <1>4, HealthyRow
<1>6. expected => Pool(asked) = Pool(primary)
  <2>1. expected => Id(it) \in DOMAIN store[Pool(asked)]
    BY DEF Live, Held
  <2>2. expected => Pool(asked) = Home(it)
    BY <1>2, <1>3, <1>4, <2>1 DEF TestInv, StoreInv
  <2> QED
    BY <1>4, <2>2 DEF Home, primary
<1> HIDE DEF expected
<1> QED
  BY <1>1, <1>5, <1>6, GetStep

\* The first subscriptions outlast testStep4
LEMMA testStep4Keeps ==
    ASSUME IInv, testStep4
    PROVE  IInv'
<1> DEFINE expected == Named(1) \subseteq subs
<1>1. mode = "test" /\ step = 4 /\ GetFromAll(expected) /\ expected \in BOOLEAN
  BY DEF testStep4, Testing
<1>2. TypeInv /\ TestInv
  BY <1>1 DEF IInv
<1>3. index \in 1..n /\ asked \in DSSs
  BY <1>1, <1>2, NumberFacts, InstanceFacts DEF asked
<1>4. ~expected => Explained
  <2>1. SUFFICES ASSUME ~Explained, NEW id \in Named(1)
                 PROVE  id \in SubsInArea(asked)
    BY DEF subs
  <2>2. PICK i \in 1..n : id = Id(<<"sub", 1, i>>) /\ Made(<<"sub", 1, i>>)
    BY <1>2, <2>1, NamedFacts
  <2> DEFINE it == <<"sub", 1, i>>
  <2>3. it \in Names /\ ~IsISA(it) /\ ~Gone(it) /\ Made(it)
    BY <1>1, <2>2, NamesOfKinds DEF Gone, Passed
  <2>4. Row(it).ends + delay >= now + Lasting
    <3>1. step <= 8
      BY <1>1
    <3>2. TimeInv
      BY <1>2 DEF TestInv
    <3> QED
      BY <2>2, <3>1, <3>2, Zenon DEF TimeInv
  <2> HIDE DEF it
  <2>5. Row(it).ends \in Nat
    BY <1>2, <2>3, RowFacts DEF Entity
  <2>6. Row(it).ends > now
    BY <1>2, <2>4, <2>5, NumberFacts
  <2> QED
    BY <1>2, <1>3, <2>1, <2>2, <2>3, <2>6, HealthySearch DEF it
<1> HIDE DEF expected
<1> QED
  BY <1>1, <1>4, GetStep

\* ISA_1 is read and made to end soon
LEMMA testStep5Keeps ==
    ASSUME IInv, testStep5
    PROVE  IInv'
<1> DEFINE version == Held(primary)[Id(isa1)].version + 1
           ends == WholeSeconds(now + Short)
           updates == fault[primary] # "fixed_isa"
           same == Held(primary)[Id(isa1)].ends = ends
<1>1. TypeInv /\ TestInv /\ mode = "test" /\ step = 5 /\ context' = context /\ timeEnd' = timeEnd
      /\ Steady
  BY DEF testStep5, Testing, IInv
<1>2. timeEnd' \in Nat /\ context' \in Seq([name : Names, version : {NoVersion, 1}])
      /\ index \in 1..n /\ now \in Nat /\ Short \in Nat
  BY <1>1, NumberFacts DEF TypeInv
<1>3. PICK g \in Glitch :
         \/ /\ index = 1 /\ Request(g, FALSE, store)
            /\ Asserted(g = "none" /\ Live(primary, Id(isa1)), FALSE)
         \/ /\ index = 2 /\ Request(g, updates, Stored(primary, Id(isa1), version, ends))
            /\ Asserted(g = "none" /\ (updates \/ same), TRUE)
  BY Zenon DEF testStep5, isa1
<1>4. /\ isa1 \in Names /\ primary \in DSSs /\ Home(isa1) = Pool(primary)
      /\ Made(isa1) /\ ~Gone(isa1)
  BY <1>1, InstanceFacts, NamesOfKinds DEF Made, Gone, Passed, isa1, Home, primary
<1>5. TimeMove /\ FaultMove(FALSE) /\ (updates => FaultMove(TRUE))
  BY <1>1 DEF TimeMove, FaultMove, Steady
<1>6. CASE index = 1 /\ Request(g, FALSE, store)
           /\ Asserted(g = "none" /\ Live(primary, Id(isa1)), FALSE)
  <2> DEFINE passed == g = "none" /\ Live(primary, Id(isa1))
  <2>1. passed \in BOOLEAN /\ Asserted(passed, FALSE)
    BY <1>6
  <2>2. bumpy' = (bumpy \/ g # "none") /\ store' = store
    BY <1>6, RequestMoves
  <2>3. StoreMove
    BY <1>1, <2>2, NothingMoves
  <2> RowsMove(FALSE)
    <3>1. step \notin CreationSteps /\ step \notin {6, 11, 15, 17}
      BY <1>1 DEF CreationSteps
    <3> DEFINE last == FALSE
    <3>2. last \in BOOLEAN /\ ~last
      OBVIOUS
    <3> HIDE DEF last
    <3>3. RowsMove(last)
      BY <1>1, <2>2, <3>1, <3>2, ReadRows
    <3> QED
      BY <3>3 DEF last
  <2>4. OneByOne(FALSE)
    BY <1>1, <1>6, CountFacts DEF OneByOne
  <2>5. ~passed => g # "none" \/ Explained
    BY <1>1, <1>4, HealthyRow
  <2> HIDE DEF passed
  <2> QED
    BY <1>1, <1>2, <1>5, <2>1, <2>2, <2>3, <2>4, <2>5, TestStepKeepsIInv
<1>7. CASE index = 2 /\ Request(g, updates, Stored(primary, Id(isa1), version, ends))
           /\ Asserted(g = "none" /\ (updates \/ same), TRUE)
  <2> DEFINE passed == g = "none" /\ (updates \/ same)
  <2>1. passed \in BOOLEAN /\ Asserted(passed, TRUE) /\ updates \in BOOLEAN
    BY <1>7
  <2>2. version \in Nat /\ ends \in Nat /\ ends <= now + Short
    <3>1. version \in Nat
      BY <1>1, <1>4, RowFacts DEF Row, Held, Entity
    <3>2. now + Short \in Nat
      BY <1>2
    <3> QED
      BY <3>1, <3>2, WholeSecondsFacts
  <2>3. ~same
    <3>1. Row(isa1).ends \in Nat /\ Row(isa1) = Held(primary)[Id(isa1)]
      BY <1>1, <1>4, RowFacts DEF Row, Held, Entity
    <3>2. Row(isa1).ends + delay >= now + Lasting
      BY <1>1, <1>4 DEF TestInv, TimeInv
    <3> HIDE DEF ends
    <3>3. delay \in Nat /\ delay <= MaxDelay /\ MaxDelay \in Nat /\ Lasting \in Nat
          /\ Lasting > 2 * Short + MaxDelay
      BY <1>1, NumberFacts, TimesFacts
    <3>4. Row(isa1).ends # ends
      BY <1>2, <2>2, <3>1, <3>2, <3>3
    <3> QED
      BY <3>1, <3>4
  <2> HIDE DEF version, ends, same, updates
  <2>4. /\ bumpy' = (bumpy \/ g # "none")
        /\ store' = store \/ store' = Stored(primary, Id(isa1), version, ends)
        /\ passed => store' = Stored(primary, Id(isa1), version, ends) /\ updates
    BY <1>7, <2>1, <2>3, RequestMoves
  <2>5. StoreMove
    BY <1>1, <1>4, <2>2, <2>4, NothingMoves, StoredMoves
  <2>6. passed => RowsMove(TRUE)
    BY <1>1, <2>2, <2>4, RenewedRows
  <2>7. OneByOne(TRUE)
    BY <1>1 DEF OneByOne
  <2>8. ~passed => g # "none" \/ Explained
    BY <1>4 DEF Explained, updates, Unnoticed
  <2> HIDE DEF passed
  <2> QED
    BY <1>1, <1>2, <1>5, <2>1, <2>4, <2>5, <2>6, <2>7, <2>8, TestStepKeepsIInv
<1> QED
  BY <1>3, <1>6, <1>7

\* testStep6 and testStep17 delete one subscription per instance
LEMMA DeleteSubs ==
    ASSUME IInv, mode = "test", NEW k \in {1, 3}, step = (IF k = 1 THEN 6 ELSE 17),
           DeleteAtPrimary(<<"sub", k, index>>, index = n, TRUE)
    PROVE  IInv'
<1> DEFINE it == <<"sub", k, index>>
           last == index = n
           expected == TRUE
<1>1. index \in 1..n
  BY NumberFacts DEF IInv
<1>2. it \in Names /\ GoneAt(it) = step /\ Slot(it) = index
  BY <1>1, NamesOfKinds
<1>3. last \in BOOLEAN /\ expected \in BOOLEAN /\ (~expected => Explained)
  OBVIOUS
<1>4. OneByOne(last)
  BY <1>1, CountFacts DEF OneByOne
<1>5. DeleteAtPrimary(it, last, expected)
  OBVIOUS
<1> HIDE DEF it, last, expected
<1> QED
  BY <1>2, <1>3, <1>4, <1>5, DeleteStep

\* The first subscriptions are deleted, by the versions saved in testStep2
LEMMA testStep6Keeps ==
    ASSUME IInv, testStep6
    PROVE  IInv'
<1> DEFINE sub == 1
<1>1. /\ mode = "test" /\ sub \in {1, 3} /\ step = (IF sub = 1 THEN 6 ELSE 17)
      /\ DeleteAtPrimary(<<"sub", sub, index>>, index = n, TRUE)
  BY DEF testStep6, Testing
<1> HIDE DEF sub
<1> QED
  BY <1>1, DeleteSubs

\* The last subscriptions are deleted, by the versions saved in testStep16
LEMMA testStep17Keeps ==
    ASSUME IInv, testStep17
    PROVE  IInv'
<1> DEFINE sub == 3
<1>1. mode = "test" /\ step = 17 /\ DeleteAtPrimary(<<"sub", sub, index>>, index = n, TRUE)
  BY Zenon DEF testStep17, Testing
<1>2. sub \in {1, 3} /\ step = (IF sub = 1 THEN 6 ELSE 17)
  BY <1>1
<1> HIDE DEF sub
<1> QED
  BY <1>1, <1>2, DeleteSubs

\* The first subscriptions are deleted for every instance
LEMMA testStep7Keeps ==
    ASSUME IInv, testStep7
    PROVE  IInv'
<1> DEFINE it == <<"sub", 1, index>>
           expected == ~Live(asked, Id(it))
<1>1. mode = "test" /\ step = 7 /\ GetFromAll(expected) /\ expected \in BOOLEAN
  BY DEF testStep7, Testing, Live
<1>2. TypeInv /\ TestInv
  BY <1>1 DEF IInv
<1>3. index \in 1..n /\ asked \in DSSs
  BY <1>1, <1>2, NumberFacts, InstanceFacts DEF asked
<1>4. it \in Names /\ Made(it) /\ Gone(it)
  BY <1>1, <1>3, NamesOfKinds DEF Made, Gone, Passed
<1> HIDE DEF it
<1>5. ~expected => Explained
  BY <1>2, <1>3, <1>4, HealthyRow
<1> HIDE DEF expected
<1> QED
  BY <1>1, <1>5, GetStep

\* The comparison of identifiers with names always passes
LEMMA testStep8Keeps ==
    ASSUME IInv, testStep8
    PROVE  IInv'
<1> DEFINE expected == subs \cap SubNames = {}
<1>1. mode = "test" /\ step = 8 /\ GetFromAll(expected) /\ expected \in BOOLEAN
  BY DEF testStep8, Testing
<1>2. TypeInv
  BY DEF IInv
<1>3. asked \in DSSs
  BY <1>1, <1>2, NumberFacts, InstanceFacts DEF asked
<1>4. expected
  BY <1>2, <1>3, NoNameIsFound DEF subs
<1> HIDE DEF expected
<1>5. /\ ~expected => Explained
      /\ step = 3 /\ expected => Pool(asked) = Pool(primary)
      /\ step = 13 /\ expected => fault[asked] # "expired_sub"
  BY <1>1, <1>4
<1> QED
  BY <1>1, <1>5, GetStep

\* An ISA that has ended is returned by an instance that keeps ISAs too long,
\* and by no other
LEMMA testStep9Keeps ==
    ASSUME IInv, testStep9
    PROVE  IInv'
<1> DEFINE k == 2
           expected == Id(<<"isa", 1, 0>>) \notin isas
<1>1. /\ mode = "test" /\ step = 9 /\ slept /\ PutSub(k, Short, expected)
      /\ expected \in BOOLEAN
  BY DEF testStep9, Testing
<1>2. TypeInv /\ TestInv
  BY <1>1 DEF IInv
<1>3. index \in 1..n /\ asked \in DSSs
  BY <1>1, <1>2, NumberFacts, InstanceFacts DEF asked
<1>4. k \in 1..3 /\ MadeAt(<<"sub", k, index>>) = step /\ Short = IF k = 2 THEN Short ELSE Long
  BY <1>1, <1>3, NamesOfKinds
<1>5. isa1 \in Names /\ IsISA(isa1) /\ Made(isa1) /\ ~Gone(isa1) /\ Slot(isa1) = 1
  BY <1>1, NamesOfKinds DEF Made, Gone, Passed, isa1
<1>6. Row(isa1).ends \in Nat /\ Row(isa1).ends <= now
  <2>1. Row(isa1).ends \in Nat
    BY <1>2, <1>5, RowFacts DEF Entity
  <2> QED
    BY <1>1, <1>2, <2>1 DEF TestInv, TimeInv
<1>7. ~expected => Explained
  <2>1. SUFFICES ASSUME ~Explained PROVE expected
    OBVIOUS
  <2>2. Id(isa1) \notin ISAsInArea(asked)
    BY <1>2, <1>3, <1>5, <1>6, <2>1, HealthySearch, NumberFacts
  <2> QED
    BY <2>2 DEF isas, isa1
<1>8. expected => fault[asked] # "stale_isa"
  <2>1. SUFFICES ASSUME fault[asked] = "stale_isa" PROVE Id(isa1) \in isas
    BY DEF isa1
  <2>2. Passed(3, index)
    BY <1>1 DEF Passed
  <2>3. Pool(asked) = Home(isa1)
    BY <1>2, <1>3, <1>5, <2>2 DEF TestInv, FaultInv, Home, asked, primary
  <2>4. Id(isa1) \in DOMAIN Held(asked)
    BY <1>2, <1>5, <2>3, RowFacts DEF Held
  <2> QED
    BY <1>5, <2>1, <2>4, DistinctIds DEF isas, ISAsInArea, Found
<1> HIDE DEF expected, k
<1>9. (step = 9 => slept) /\ (step = 9 /\ expected => fault[asked] # "stale_isa")
  BY <1>1, <1>8
<1> QED
  BY <1>1, <1>4, <1>7, <1>9, PutSubStep

\* Nothing deletes the subscriptions of testStep9
LEMMA SecondSubs ==
    ASSUME step \in {10, 11, 12, 13}, NEW i \in 1..n
    PROVE  LET it == <<"sub", 2, i>> IN it \in Names /\ ~IsISA(it) /\ Made(it) /\ ~Gone(it)
<1> DEFINE it == <<"sub", 2, i>>
<1>1. it \in Names /\ ~IsISA(it) /\ MadeAt(it) = 9 /\ GoneAt(it) = 18
  BY NamesOfKinds
<1> HIDE DEF it
<1>2. Made(it) /\ ~Gone(it)
  BY <1>1 DEF Made, Gone, Passed
<1> QED
  BY <1>1, <1>2 DEF it

\* While the subscriptions of testStep9 have not ended, a region without
\* faults names them all, and an instance that names none is found out
LEMMA NotifiedFacts ==
    ASSUME TypeInv, TestInv, step \in {10, 11}
    PROVE  /\ ~(Named(2) \subseteq notified) => Explained
           /\ Named(2) \subseteq notified => fault[primary] # "deaf"
<1>1. primary \in DSSs /\ n \in Nat /\ n >= 2
  BY InstanceFacts, CountFacts
<1>2. ASSUME NEW i \in 1..n
      PROVE  LET it == <<"sub", 2, i>> IN it \in Names /\ ~IsISA(it) /\ Made(it) /\ ~Gone(it)
  BY SecondSubs
<1>3. ASSUME ~Explained, NEW id \in Named(2)
      PROVE  id \in notified
  <2>1. PICK i \in 1..n : id = Id(<<"sub", 2, i>>)
    BY <1>3, NamedFacts
  <2> DEFINE it == <<"sub", 2, i>>
  <2>2. it \in Names /\ ~IsISA(it) /\ Made(it) /\ ~Gone(it)
    BY <1>2, <2>1
  <2>3. Row(it).ends + delay >= now + Brief
    <3>1. step <= 12 /\ ~(step = 12 /\ slept)
      OBVIOUS
    <3>2. TimeInv
      BY DEF TestInv
    <3> QED
      BY <2>1, <2>2, <3>1, <3>2, Zenon DEF TimeInv
  <2> HIDE DEF it
  <2>4. Row(it).ends \in Nat
    BY <2>2, RowFacts DEF Entity
  <2>5. delay < Brief
    BY <1>3, NumberFacts DEF Explained
  <2>6. Row(it).ends > now
    BY <2>3, <2>4, <2>5, NumberFacts
  <2>7. Id(it) \in Notified(primary)
    BY <1>1, <1>3, <2>2, <2>6, HealthySearch
  <2> QED
    BY <2>1, <2>7 DEF notified, it
<1>4. Id(<<"sub", 2, 1>>) \in Named(2)
  BY <1>1, <1>2, NamedFacts
<1>5. fault[primary] = "deaf" => notified = {}
  BY DEF notified, Notified
<1> QED
  BY <1>3, <1>4, <1>5

\* ISA_2 is created in time for the second subscriptions to be named
LEMMA testStep10Keeps ==
    ASSUME IInv, testStep10
    PROVE  IInv'
<1> DEFINE isa == 2
           expected == Named(2) \subseteq notified
<1>1. mode = "test" /\ step = 10 /\ PutISA(<<"isa", isa, 0>>, expected) /\ expected \in BOOLEAN
  BY DEF testStep10, Testing
<1>2. TypeInv /\ TestInv
  BY <1>1 DEF IInv
<1>3. isa \in 1..3 /\ MadeAt(<<"isa", isa, 0>>) = step
  BY <1>1, NamesOfKinds
<1>4. (~expected => Explained) /\ (expected => fault[primary] # "deaf")
  BY <1>1, <1>2, NotifiedFacts
<1> HIDE DEF isa, expected
<1> QED
  BY <1>1, <1>3, <1>4, PutISAStep

\* testStep11 and testStep15 delete an ISA
LEMMA DeleteISA ==
    ASSUME IInv, mode = "test", NEW k \in {2, 3}, step = (IF k = 2 THEN 11 ELSE 15),
           NEW expected \in BOOLEAN, ~expected => Explained,
           DeleteAtPrimary(<<"isa", k, 0>>, TRUE, expected)
    PROVE  IInv'
<1> DEFINE it == <<"isa", k, 0>>
           last == TRUE
<1>1. index = 1
  BY DEF IInv, TypeInv
<1>2. it \in Names /\ GoneAt(it) = step /\ Slot(it) = index
  BY <1>1, NamesOfKinds
<1>3. last \in BOOLEAN /\ last
  OBVIOUS
<1>4. OneByOne(last)
  BY DEF OneByOne
<1>5. DeleteAtPrimary(it, last, expected)
  OBVIOUS
<1> HIDE DEF it, last
<1> QED
  BY <1>2, <1>3, <1>4, <1>5, DeleteStep

\* ISA_2 is deleted in time for the second subscriptions to be named
LEMMA testStep11Keeps ==
    ASSUME IInv, testStep11
    PROVE  IInv'
<1> DEFINE isa == 2
           expected == Named(2) \subseteq notified
<1>1. /\ mode = "test" /\ step = 11 /\ isa \in {2, 3} /\ step = (IF isa = 2 THEN 11 ELSE 15)
      /\ DeleteAtPrimary(<<"isa", isa, 0>>, TRUE, expected) /\ expected \in BOOLEAN
  BY DEF testStep11, Testing
<1>2. ~expected => Explained
  BY <1>1, NotifiedFacts DEF IInv
<1> HIDE DEF isa, expected
<1> QED
  BY <1>1, <1>2, DeleteISA

\* ISA_3 is created; the comparison with names always passes
LEMMA testStep12Keeps ==
    ASSUME IInv, testStep12
    PROVE  IInv'
<1> DEFINE isa == 3
           expected == notified \cap SubNames = {}
<1>1. /\ mode = "test" /\ step = 12 /\ slept /\ PutISA(<<"isa", isa, 0>>, expected)
      /\ expected \in BOOLEAN
  BY DEF testStep12, Testing
<1>2. isa \in 1..3 /\ MadeAt(<<"isa", isa, 0>>) = step
  BY <1>1, NamesOfKinds
<1>3. expected
  BY InstanceFacts, NoNameIsFound DEF IInv, notified
<1> HIDE DEF isa, expected
<1>4. /\ ~expected => Explained
      /\ step = 12 => slept
      /\ step = 10 /\ expected => fault[primary] # "deaf"
  BY <1>1, <1>3
<1> QED
  BY <1>1, <1>2, <1>4, PutISAStep

\* ISA_3 is deleted; the comparison with names always passes
LEMMA testStep15Keeps ==
    ASSUME IInv, testStep15
    PROVE  IInv'
<1> DEFINE isa == 3
           expected == notified \cap SubNames = {}
<1>1. /\ mode = "test" /\ isa \in {2, 3} /\ step = (IF isa = 2 THEN 11 ELSE 15)
      /\ DeleteAtPrimary(<<"isa", isa, 0>>, TRUE, expected) /\ expected \in BOOLEAN
  BY DEF testStep15, Testing
<1>2. expected
  BY InstanceFacts, NoNameIsFound DEF IInv, notified
<1> HIDE DEF isa, expected
<1>3. ~expected => Explained
  BY <1>2
<1> QED
  BY <1>1, <1>3, DeleteISA

\* A subscription that has ended is returned by an instance that keeps
\* subscriptions too long, and by no other
LEMMA testStep13Keeps ==
    ASSUME IInv, testStep13
    PROVE  IInv'
<1> DEFINE expected == subs \cap Named(2) = {}
<1>1. mode = "test" /\ step = 13 /\ GetFromAll(expected) /\ expected \in BOOLEAN
  BY DEF testStep13, Testing
<1>2. TypeInv /\ TestInv
  BY <1>1 DEF IInv
<1>3. index \in 1..n /\ asked \in DSSs /\ 1 \in 1..n
  BY <1>1, <1>2, NumberFacts, InstanceFacts, CountFacts DEF asked
<1>4. \A i \in 1..n : LET it == <<"sub", 2, i>> IN
                      /\ it \in Names /\ ~IsISA(it) /\ Made(it) /\ ~Gone(it)
                      /\ Row(it).ends <= now
  <2>1. ASSUME NEW i \in 1..n
        PROVE  LET it == <<"sub", 2, i>> IN it \in Names /\ ~IsISA(it) /\ Made(it) /\ ~Gone(it)
    BY <1>1, SecondSubs
  <2>2. step > 12 /\ TimeInv
    BY <1>1, <1>2 DEF TestInv
  <2>3. \A i \in 1..n : Row(<<"sub", 2, i>>).ends <= now
    BY <2>2, Zenon DEF TimeInv
  <2> QED
    BY <2>1, <2>3
<1>5. ~expected => Explained
  <2>1. SUFFICES ASSUME ~Explained, NEW id \in Named(2) PROVE id \notin SubsInArea(asked)
    BY DEF subs
  <2>2. PICK i \in 1..n : id = Id(<<"sub", 2, i>>)
    BY <1>2, <2>1, NamedFacts
  <2> DEFINE it == <<"sub", 2, i>>
  <2>3. it \in Names /\ Made(it) /\ Row(it).ends <= now /\ id = Id(it)
    BY <1>4, <2>2
  <2> HIDE DEF it
  <2> QED
    BY <1>2, <1>3, <2>1, <2>3, HealthySearch
<1>6. expected => fault[asked] # "expired_sub"
  <2> DEFINE it == <<"sub", 2, 1>>
  <2>1. SUFFICES ASSUME fault[asked] = "expired_sub"
                 PROVE  Id(it) \in SubsInArea(asked) /\ Id(it) \in Named(2)
    BY DEF subs
  <2>2. it \in Names /\ ~IsISA(it) /\ Made(it) /\ ~Gone(it) /\ Slot(it) = 1
    BY <1>3, <1>4, NamesOfKinds
  <2>3. Id(it) \in Named(2)
    BY <1>2, <1>3, <2>2, NamedFacts
  <2> HIDE DEF it
  <2>4. Passed(3, index)
    BY <1>1 DEF Passed
  <2>5. Pool(asked) = Home(it)
    BY <1>2, <1>3, <2>2, <2>4 DEF TestInv, FaultInv, Home, asked, primary
  <2>6. Id(it) \in DOMAIN Held(asked) /\ Held(asked)[Id(it)].live
    BY <1>2, <2>2, <2>5, RowFacts DEF Held, Row, TestInv, StoreInv
  <2> QED
    BY <2>1, <2>2, <2>3, <2>6, DistinctIds DEF SubsInArea, Found
<1> HIDE DEF expected
<1> QED
  BY <1>1, <1>5, <1>6, GetStep

\* The second subscriptions have ended and are still there to be read by their IDs
LEMMA testStep14Keeps ==
    ASSUME IInv, testStep14
    PROVE  IInv'
<1> DEFINE it == <<"sub", 2, index>>
           expected == Live(asked, Id(it))
<1>1. mode = "test" /\ step = 14 /\ GetFromAll(expected) /\ expected \in BOOLEAN
  BY DEF testStep14, Testing, Live
<1>2. TypeInv /\ TestInv
  BY <1>1 DEF IInv
<1>3. index \in 1..n /\ asked \in DSSs
  BY <1>1, <1>2, NumberFacts, InstanceFacts DEF asked
<1>4. it \in Names /\ Made(it) /\ ~Gone(it)
  BY <1>1, <1>3, NamesOfKinds DEF Made, Gone, Passed
<1> HIDE DEF it
<1>5. ~expected => Explained
  BY <1>2, <1>3, <1>4, HealthyRow
<1> HIDE DEF expected
<1> QED
  BY <1>1, <1>5, GetStep

\* ISA_3 is deleted, and found by no instance without a fault
LEMMA testStep16Keeps ==
    ASSUME IInv, testStep16
    PROVE  IInv'
<1> DEFINE sub == 3
           it == <<"isa", 3, 0>>
           expected == Id(it) \notin isas
<1>1. /\ mode = "test" /\ step = 16 /\ PutSub(sub, Long, expected) /\ expected \in BOOLEAN
  BY DEF testStep16, Testing
<1>2. TypeInv /\ TestInv
  BY <1>1 DEF IInv
<1>3. index \in 1..n /\ asked \in DSSs
  BY <1>1, <1>2, NumberFacts, InstanceFacts DEF asked
<1>4. sub \in 1..3 /\ MadeAt(<<"sub", sub, index>>) = step /\ Long = IF sub = 2 THEN Short ELSE Long
  BY <1>1, <1>3, NamesOfKinds
<1>5. it \in Names /\ IsISA(it) /\ Made(it) /\ Gone(it)
  BY <1>1, NamesOfKinds DEF Made, Gone, Passed
<1> HIDE DEF it
<1>6. ~expected => Explained
  BY <1>2, <1>3, <1>5, HealthySearch DEF isas
<1> HIDE DEF expected, sub
<1> QED
  BY <1>1, <1>4, <1>6, PutSubStep

-----------------------------------------------------------------------------
(***************************************************************************)
(* Time passes in a round                                                  *)
(***************************************************************************)

\* The ends of the entities are numbers
LEMMA EndFacts ==
    ASSUME TypeInv, TestInv
    PROVE  /\ \A name \in Names : Made(name) => Row(name).ends \in Nat
           /\ step > 5 => Made(isa1)
           /\ \A i \in 1..n : /\ {<<"sub", 1, i>>, <<"sub", 2, i>>} \subseteq Names
                              /\ step > 9 => Made(<<"sub", 2, i>>)
                              /\ step = 9 /\ index = 1 => ~Made(<<"sub", 2, i>>)
<1>1. \A name \in Names : Made(name) => Row(name).ends \in Nat
  BY RowFacts DEF Entity
<1>2. step \in 1..17 /\ MadeAt(isa1) = 1 /\ Slot(isa1) = 1
  BY NumberFacts, NamesOfKinds DEF isa1
<1>3. step > 5 => Made(isa1)
  BY <1>2 DEF Made, Passed
<1>4. ASSUME NEW i \in 1..n
      PROVE  /\ {<<"sub", 1, i>>, <<"sub", 2, i>>} \subseteq Names
             /\ step > 9 => Made(<<"sub", 2, i>>)
             /\ step = 9 /\ index = 1 => ~Made(<<"sub", 2, i>>)
  <2>1. /\ {<<"sub", 1, i>>, <<"sub", 2, i>>} \subseteq Names
        /\ MadeAt(<<"sub", 2, i>>) = 9 /\ Slot(<<"sub", 2, i>>) = i
    BY NamesOfKinds
  <2> QED
    BY <1>2, <2>1, CountFacts DEF Made, Passed
<1> QED
  BY <1>1, <1>3, <1>4

\* Time passes between two requests: all but what there is to live stays
LEMMA TimePasses ==
    ASSUME IInv, mode = "test", now' \in Nat, now' >= now,
           delay' \in Nat, delay' <= MaxDelay, slept' \in BOOLEAN,
           UNCHANGED <<fault, store, round, mode, step, index, timeEnd, context, results, why,
                       bumpy>>,
           TimeInv'
    PROVE  IInv'
<1>1. TypeInv /\ VersionsInv /\ TestInv /\ PassMeansInteroperable
  BY DEF IInv
<1>2. TypeInv'
  BY <1>1 DEF TypeInv
<1>3. VersionsInv'
  <2>1. StoreMove /\ step' \in Nat /\ step' >= step
    BY <1>1, NothingMoves, NumberFacts
  <2> QED
    BY <1>1, <2>1, VersionsKept
<1>4. /\ \A name : /\ Id(name)' = Id(name) /\ Home(name)' = Home(name) /\ Row(name)' = Row(name)
                   /\ Made(name)' = Made(name) /\ Gone(name)' = Gone(name)
                   /\ Entered(name)' = Entered(name)
      /\ \A d : Pool(d)' = Pool(d)
      /\ all_dss' = all_dss /\ primary' = primary
  BY SameRound DEF Row, Made, Gone, Passed, Entered
<1>5. ContextInv' /\ StoreInv' /\ FaultInv'
  <2>1. ContextInv'
    BY <1>1, <1>4 DEF TestInv, ContextInv
  <2>2. StoreInv'
    BY <1>1, <1>4 DEF TestInv, StoreInv
  <2>3. FaultInv'
    BY <1>1, <1>4 DEF TestInv, FaultInv, Passed
  <2> QED
    BY <2>1, <2>2, <2>3
<1>6. PassMeansInteroperable'
  BY <1>1 DEF PassMeansInteroperable
<1> QED
  BY <1>2, <1>3, <1>5, <1>6 DEF IInv, TestInv, FailuresExplained

\* The waits of testStep9 and testStep12 outlast what they wait for
LEMMA SleepKeeps ==
    ASSUME IInv, Sleep
    PROVE  IInv'
<1>1. /\ mode = "test" /\ step \in {9, 12} /\ index = 1 /\ ~slept
      /\ slept' = TRUE /\ now' = now + Short /\ delay' = delay
      /\ UNCHANGED <<fault, store, round, mode, step, index, timeEnd, context, results, why, bumpy>>
  BY DEF Sleep
<1>2. TypeInv /\ TestInv /\ TimeInv
  BY <1>1 DEF IInv, TestInv
<1>3. /\ now \in Nat /\ now' \in Nat /\ now' >= now /\ delay \in Nat /\ delay <= MaxDelay
      /\ Short \in Nat /\ slept' \in BOOLEAN /\ now' = now + Short
  BY <1>1, <1>2, NumberFacts
<1>4. \A name : Row(name)' = Row(name) /\ Made(name)' = Made(name)
  BY <1>1, SameRound DEF Row, Made, Passed
<1>5. TimeInv'
  <2>1. Row(isa1).ends \in Nat /\ Row(isa1).ends <= now + Short
    <3>1. step > 5
      BY <1>1
    <3> QED
      BY <1>2, <3>1, EndFacts, NamesOfKinds DEF TimeInv
  <2>2. Row(isa1).ends <= now' /\ Row(isa1).ends <= now' + Short
    BY <1>3, <2>1
  <2>3. ASSUME NEW i \in 1..n
        PROVE  /\ step = 9 => ~Made(<<"sub", 2, i>>)
               /\ step = 12 => Row(<<"sub", 2, i>>).ends <= now'
    <3>1. step = 9 => ~Made(<<"sub", 2, i>>)
      BY <1>1, <1>2, EndFacts
    <3>2. ASSUME step = 12
          PROVE  Row(<<"sub", 2, i>>).ends <= now + Short
      <4>1. Made(<<"sub", 2, i>>)
        <5>1. step > 9
          BY <3>2
        <5> QED
          BY <1>2, <5>1, EndFacts
      <4>2. step <= 12 /\ ~(step = 12 /\ slept)
        BY <1>1, <3>2
      <4> QED
        BY <1>2, <4>1, <4>2, Zenon DEF TimeInv
    <3> QED
      BY <1>1, <3>1, <3>2
  <2>4. (step = 9 \/ step = 12) /\ ~(step <= 5) /\ ~(step <= 8) /\ step \notin {2, 16} /\ ~(index > 1)
        /\ ~(step > 12) /\ step' = step /\ index' = index
    BY <1>1
  <2>5. /\ Made(isa1)' /\ step' <= 5 => Row(isa1)'.ends + delay' >= now' + Lasting
        /\ step' > 5 => Row(isa1)'.ends <= now' + Short
        /\ step' > 9 \/ (step' = 9 /\ slept') => Row(isa1)'.ends <= now'
        /\ step' \in {2, 16} /\ index' > 1 => timeEnd' + delay' >= now' + Lasting
        /\ step' = 9 /\ index' > 1 => slept' /\ timeEnd' + delay' >= now' + Brief /\ timeEnd' <= now' + Short
    BY <1>4, <2>2, <2>4
  <2>6. ASSUME NEW i \in 1..n
        PROVE  /\ Made(<<"sub", 1, i>>)' /\ step' <= 8 =>
                     Row(<<"sub", 1, i>>)'.ends + delay' >= now' + Lasting
               /\ Made(<<"sub", 2, i>>)' /\ step' <= 12 /\ ~(step' = 12 /\ slept') =>
                     /\ Row(<<"sub", 2, i>>)'.ends + delay' >= now' + Brief
                     /\ Row(<<"sub", 2, i>>)'.ends <= now' + Short
               /\ step' > 12 \/ (step' = 12 /\ slept') => Row(<<"sub", 2, i>>)'.ends <= now'
    BY <1>1, <1>4, <2>3, <2>4
  <2> QED
    BY <2>5, <2>6 DEF TimeInv
<1> QED
  BY <1>1, <1>3, <1>5, TimePasses

\* What is lost between two requests is lost to every entity alike
LEMMA DelayKeeps ==
    ASSUME IInv, Delay
    PROVE  IInv'
<1>1. /\ mode = "test" /\ delay = 0 /\ slept' = slept
      /\ UNCHANGED <<fault, store, round, mode, step, index, timeEnd, context, results, why, bumpy>>
  BY DEF Delay
<1>2. PICK d \in 1..MaxDelay : now' = now + d /\ delay' = d
  BY DEF Delay
<1>3. TypeInv /\ TestInv /\ TimeInv
  BY <1>1 DEF IInv, TestInv
<1>4. /\ now \in Nat /\ now' \in Nat /\ now' >= now /\ delay' \in Nat /\ delay' <= MaxDelay
      /\ Short \in Nat /\ Brief \in Nat /\ Lasting \in Nat /\ timeEnd \in Nat /\ step \in 1..17 /\ index \in Nat
      /\ delay = 0 /\ now' = now + delay'
  BY <1>1, <1>2, <1>3, NumberFacts
<1>5. slept' \in BOOLEAN
  BY <1>1, <1>3, Zenon DEF TypeInv
<1>6. \A name : Row(name)' = Row(name) /\ Made(name)' = Made(name)
  BY <1>1, SameRound DEF Row, Made, Passed
<1>7. /\ Made(isa1) => Row(isa1).ends \in Nat
      /\ step > 5 => Row(isa1).ends \in Nat
      /\ \A i \in 1..n : /\ Made(<<"sub", 1, i>>) => Row(<<"sub", 1, i>>).ends \in Nat
                         /\ Made(<<"sub", 2, i>>) => Row(<<"sub", 2, i>>).ends \in Nat
                         /\ step > 9 => Row(<<"sub", 2, i>>).ends \in Nat
  BY <1>3, EndFacts, NamesOfKinds
<1>8. TimeInv'
  <2>1. /\ Made(isa1) /\ step <= 5 => Row(isa1).ends + delay' >= now' + Lasting
        /\ step > 5 => Row(isa1).ends <= now' + Short
        /\ step > 9 \/ (step = 9 /\ slept) => Row(isa1).ends <= now'
    <3>1. /\ Made(isa1) /\ step <= 5 => Row(isa1).ends + delay >= now + Lasting
          /\ step > 5 => Row(isa1).ends <= now + Short
          /\ step > 9 \/ (step = 9 /\ slept) => Row(isa1).ends <= now
      BY <1>3, Zenon DEF TimeInv
    <3> QED
      BY <1>4, <1>7, <3>1
  <2>2. ASSUME NEW i \in 1..n
        PROVE  /\ Made(<<"sub", 1, i>>) /\ step <= 8 =>
                     Row(<<"sub", 1, i>>).ends + delay' >= now' + Lasting
               /\ Made(<<"sub", 2, i>>) /\ step <= 12 /\ ~(step = 12 /\ slept) =>
                     /\ Row(<<"sub", 2, i>>).ends + delay' >= now' + Brief
                     /\ Row(<<"sub", 2, i>>).ends <= now' + Short
               /\ step > 12 \/ (step = 12 /\ slept) => Row(<<"sub", 2, i>>).ends <= now'
    <3>1. /\ Made(<<"sub", 1, i>>) /\ step <= 8 =>
                Row(<<"sub", 1, i>>).ends + delay >= now + Lasting
          /\ Made(<<"sub", 2, i>>) /\ step <= 12 /\ ~(step = 12 /\ slept) =>
                /\ Row(<<"sub", 2, i>>).ends + delay >= now + Brief
                /\ Row(<<"sub", 2, i>>).ends <= now + Short
          /\ step > 12 \/ (step = 12 /\ slept) => Row(<<"sub", 2, i>>).ends <= now
      BY <1>3, Zenon DEF TimeInv
    <3>2. /\ Made(<<"sub", 1, i>>) => Row(<<"sub", 1, i>>).ends \in Nat
          /\ Made(<<"sub", 2, i>>) => Row(<<"sub", 2, i>>).ends \in Nat
          /\ step > 9 => Row(<<"sub", 2, i>>).ends \in Nat
      BY <1>7
    <3> QED
      BY <1>4, <3>1, <3>2
  <2>3. /\ step \in {2, 16} /\ index > 1 => timeEnd + delay' >= now' + Lasting
        /\ step = 9 /\ index > 1 =>
              slept /\ timeEnd + delay' >= now' + Brief /\ timeEnd <= now' + Short
    <3>1. /\ step \in {2, 16} /\ index > 1 => timeEnd + delay >= now + Lasting
          /\ step = 9 /\ index > 1 =>
                slept /\ timeEnd + delay >= now + Brief /\ timeEnd <= now + Short
      BY <1>3, Zenon DEF TimeInv
    <3>2. /\ step \in {2, 16} /\ index > 1 => timeEnd + d >= (now + d) + Lasting
          /\ step = 9 /\ index > 1 =>
                timeEnd + d >= (now + d) + Brief /\ timeEnd <= (now + d) + Short
      <4>1. now \in Nat /\ Short \in Nat /\ Brief \in Nat /\ Lasting \in Nat /\ timeEnd \in Nat /\ d \in Nat
            /\ timeEnd + delay = timeEnd
        BY <1>1, <1>2, <1>3, NumberFacts
      <4> QED
        BY <3>1, <4>1
    <3> QED
      BY <1>2, <3>1, <3>2, Zenon
  <2> QED
    BY <1>1, <1>6, <2>1, <2>2, <2>3 DEF TimeInv
<1> QED
  BY <1>1, <1>4, <1>5, <1>8, TimePasses

\* An exception from a request ends the suite, with no result for the round
LEMMA RaisesKeeps ==
    ASSUME IInv, Raises
    PROVE  IInv'
<1>1. /\ mode' = "aborted" /\ why' = "raised"
      /\ UNCHANGED <<fault, store, now, round, step, index, slept, timeEnd, context, passes,
                     results, delay, bumpy, missed>>
  BY DEF Raises
<1>2. TypeInv'
  BY <1>1 DEF IInv, TypeInv
<1>3. VersionsInv'
  <2>1. StoreMove /\ step' \in Nat /\ step' >= step /\ now' \in Nat /\ now' >= now
    BY <1>1, NothingMoves, NumberFacts DEF IInv
  <2> QED
    BY <1>1, <2>1, VersionsKept DEF IInv
<1> QED
  BY <1>1, <1>2, <1>3 DEF IInv, PassMeansInteroperable, FailuresExplained

-----------------------------------------------------------------------------
(***************************************************************************)
(* cleanUp, and the next round                                             *)
(***************************************************************************)

\* A deletion of an entity of the context removes it, fails in transit, or is
\* refused for a version that testStep5 has made stale
LEMMA cleanUpEntityKeeps ==
    ASSUME IInv, mode = "cleanUp", cleanUpEntity, UNCHANGED <<fault, now, timeEnd, results>>
    PROVE  IInv'
<1> DEFINE entry == context[index]
           this == entry.name
           after == store'[Pool(primary)]
           StillLive(x) == x \in DOMAIN after /\ after[x].live
<1>1. TypeInv /\ VersionsInv /\ CleanInv /\ PassMeansInteroperable /\ FailuresExplained
  BY DEF IInv
<1>2. /\ index <= Len(context) /\ index \in DOMAIN context /\ index \in Nat
      /\ Len(results) = round /\ round' = round /\ step' = step /\ context' = context
      /\ slept' = slept /\ delay' = delay /\ now' = now /\ fault' = fault /\ results' = results
      /\ timeEnd' = timeEnd
  BY <1>1 DEF cleanUpEntity, TypeInv
<1>3. this \in Names /\ entry.version \in {NoVersion, 1}
  <2>1. context \in Seq([name : Names, version : {NoVersion, 1}])
    BY <1>1 DEF TypeInv
  <2>2. index \in DOMAIN context
    BY <1>2
  <2>3. \A Entries : context \in Seq(Entries) => context[index] \in Entries
    BY <2>2
  <2>4. entry \in [name : Names, version : {NoVersion, 1}]
    BY <2>1, <2>3
  <2> QED
    BY <2>4
<1> HIDE DEF entry, this
<1>4. now' \in Nat /\ step' \in Nat /\ step' >= step /\ now' >= now
  <2>1. now \in Nat /\ step \in Nat /\ step >= step /\ now >= now
    BY <1>1, NumberFacts
  <2>2. now' = now /\ step' = step
    BY <1>2
  <2> QED
    BY <2>1, <2>2, Zenon
<1>5. PassMeansInteroperable'
  BY <1>1 DEF PassMeansInteroperable
<1>6. CASE entry.version = NoVersion
  <2>1. /\ mode' = "aborted" /\ why' = "KeyError"
        /\ UNCHANGED <<glitches, bumpy, store, missed, index>>
    BY <1>6 DEF cleanUpEntity, entry
  <2>2. TypeInv'
    BY <1>1, <1>2, <2>1 DEF TypeInv
  <2>3. VersionsInv'
    BY <1>1, <1>2, <1>4, <2>1, NothingMoves, VersionsKept
  <2> QED
    BY <1>5, <2>1, <2>2, <2>3 DEF IInv, FailuresExplained
<1>7. CASE entry.version # NoVersion
  <2> DEFINE id == Id(this)
             accepted == Deletable(primary, id, entry.version)
  <2>1. PICK g \in Glitch :
           /\ Request(g, accepted, Deleted(primary, id))
           /\ missed' = IF g = "error" THEN missed \cup {id} ELSE missed \ {id}
           /\ index' = index + 1 /\ UNCHANGED <<mode, why>>
    BY <1>7, Zenon DEF cleanUpEntity, entry, this
  <2>2. primary \in DSSs /\ Pool(primary) \in Pools /\ accepted \in BOOLEAN
    BY <1>1, InstanceFacts DEF Deletable, Live
  <2>3. /\ bumpy' = (bumpy \/ g # "none")
        /\ store' = store \/ store' = Deleted(primary, id)
        /\ accepted /\ g # "error" => store' = Deleted(primary, id)
    BY <2>1 DEF Request
  <2>4. StoreMove
    <3>1. id[1] = round
      BY DistinctIds
    <3> HIDE DEF id
    <3> QED
      BY <1>1, <2>2, <2>3, <3>1, NothingMoves, DeletedMoves
  <2>5. TypeInv'
    <3>1. /\ DOMAIN store' = Pools
          /\ \A q \in Pools : \A x \in DOMAIN store'[q] :
                store'[q][x] \in Entity /\ x \in (0..round) \X Names
      BY <1>1, <2>4, IdsOfTheRound DEF StoreMove, TypeInv
    <3>2. bumpy' \in BOOLEAN /\ slept' \in BOOLEAN
      BY <1>1, <1>2, <2>3, Zenon DEF TypeInv
    <3>3. index' \in Nat /\ index' > 0
      BY <1>2, <2>1
    <3> QED
      BY <1>1, <1>2, <2>1, <3>1, <3>2, <3>3 DEF TypeInv
  <2>6. VersionsInv'
    BY <1>1, <1>2, <1>4, <2>4, VersionsKept
  <2>7. FailuresExplained'
    <3>1. LeftBehind' = LeftBehind
      BY <1>1, <1>2, <2>4, NumberFacts, LeftBehindStays
    <3> QED
      BY <1>1, <1>2, <2>1, <2>3, <3>1 DEF FailuresExplained
  <2>8. CleanInv'
    <3>1. primary' = primary /\ Pool(primary)' = Pool(primary) /\ \A x : Id(x)' = Id(x)
      BY <1>2, SameRound
    <3> HIDE DEF id, accepted
    <3>2. ASSUME NEW i
          PROVE  /\ StillLive(i) => /\ Live(primary, i)
                                    /\ after[i].ends = Held(primary)[i].ends
                 /\ i = id /\ accepted /\ g # "error" => ~StillLive(i)
      <4>1. CASE store' = store
        <5>1. accepted /\ g # "error" => store' = Deleted(primary, id)
          BY <2>3
        <5>2. ASSUME accepted, g # "error"
              PROVE  FALSE
          <6>1. id \in DOMAIN store[Pool(primary)] /\ store[Pool(primary)][id].live
            BY <5>2 DEF Deletable, Live, Held, accepted
          <6>2. store[Pool(primary)][id] \in Entity
            BY <1>1, <2>2, <6>1 DEF TypeInv
          <6>3. store[Pool(primary)][id] = [store[Pool(primary)][id] EXCEPT !.live = FALSE]
            BY <1>1, <2>2, <4>1, <5>1, <5>2, <6>1, DeletedFacts
          <6> QED
            BY <6>1, <6>2, <6>3 DEF Entity
        <5> QED
          BY <3>1, <4>1, <5>2 DEF Live, Held
      <4>2. CASE store' = Deleted(primary, id)
        <5>1. /\ DOMAIN store'[Pool(primary)] = DOMAIN store[Pool(primary)]
              /\ \A x \in DOMAIN store[Pool(primary)] :
                    /\ x # id => store'[Pool(primary)][x] = store[Pool(primary)][x]
                    /\ x = id => store'[Pool(primary)][x] =
                                   [store[Pool(primary)][x] EXCEPT !.live = FALSE]
              /\ \A x \in DOMAIN store[Pool(primary)] : store[Pool(primary)][x] \in Entity
          BY <1>1, <2>2, <4>2, DeletedFacts DEF TypeInv
        <5>2. \A x \in Entity : /\ ~[x EXCEPT !.live = FALSE].live
                                /\ [x EXCEPT !.live = FALSE].ends = x.ends
          BY DEF Entity
        <5>3. ASSUME i = id, StillLive(i)
              PROVE  FALSE
          <6>1. i \in DOMAIN store[Pool(primary)]
            BY <5>1, <5>3
          <6>2. after[i] = [store[Pool(primary)][i] EXCEPT !.live = FALSE]
                /\ store[Pool(primary)][i] \in Entity
            BY <5>1, <5>3, <6>1
          <6> QED
            BY <5>2, <5>3, <6>2
        <5>4. CASE i # id /\ StillLive(i)
          BY <5>1, <5>4 DEF Live, Held
        <5> QED
          BY <5>3, <5>4
      <4> QED
        BY <2>3, <4>1, <4>2
    <3>3. \/ ~StillLive(id)
          \/ this = isa1 /\ step >= 5 /\ Held(primary)[id].ends <= now + Short
          \/ id \in missed'
      <4>1. CASE g = "error"
        BY <2>1, <4>1
      <4>2. CASE g # "error" /\ accepted
        BY <3>2, <4>2
      <4>3. CASE ~accepted /\ Live(primary, id)
        <5>1. entry.version = 1 /\ Held(primary)[id].version # 1
          BY <1>3, <1>7, <4>3 DEF Deletable, accepted
        <5>2. id \in DOMAIN store[Pool(primary)]
          BY <4>3 DEF Live, Held
        <5> QED
          BY <1>1, <1>3, <2>2, <5>1, <5>2 DEF VersionsInv, Held, id
      <4>4. CASE ~Live(primary, id)
        BY <3>2, <4>4
      <4> QED
        BY <4>1, <4>2, <4>3, <4>4
    <3>4. ASSUME NEW k \in DOMAIN context, k < index + 1
          PROVE  \/ ~StillLive(Id(context[k].name))
                 \/ /\ context[k].name = isa1 /\ step >= 5
                    /\ after[Id(isa1)].ends <= now + Short
                 \/ Id(context[k].name) \in missed'
      <4>1. CASE context[k].name = this
        <5>1. id = Id(context[k].name)
          BY <4>1 DEF id
        <5>2. CASE ~StillLive(id) \/ id \in missed'
          BY <5>1, <5>2
        <5>3. CASE this = isa1 /\ step >= 5 /\ Held(primary)[id].ends <= now + Short /\ StillLive(id)
          BY <3>2, <4>1, <5>1, <5>3
        <5> QED
          BY <3>3, <5>2, <5>3
      <4>2. CASE context[k].name # this
        <5>1. k < index
          BY <1>2, <3>4, <4>2 DEF this, entry
        <5>2. \/ ~Live(primary, Id(context[k].name))
              \/ /\ context[k].name = isa1 /\ step >= 5
                 /\ Held(primary)[Id(isa1)].ends <= now + Short
              \/ Id(context[k].name) \in missed
          BY <1>1, <5>1 DEF CleanInv
        <5>3. Id(context[k].name) # id
          BY <4>2, DistinctIds DEF id
        <5> QED
          BY <2>1, <3>2, <5>2, <5>3
      <4> QED
        BY <4>1, <4>2
    <3> HIDE DEF after
    <3>5. /\ Held(primary)' = after /\ \A x : Live(primary, Id(x))' <=> StillLive(Id(x))
      BY <3>1 DEF Held, Live, after
    <3> QED
      BY <1>2, <2>1, <3>1, <3>4, <3>5 DEF CleanInv
  <2> QED
    BY <1>5, <2>1, <2>5, <2>6, <2>7, <2>8 DEF IInv
<1> QED
  BY <1>6, <1>7

\* A round begins with an empty context, and nothing of its own in the stores
Fresh ==
    /\ step = 1 /\ index = 1 /\ context = <<>>
    /\ \A q \in Pools, name \in Names : Id(name) \notin DOMAIN store[q]

\* In a fresh round nothing has been made, and nothing has been promised
LEMMA FreshRound == Fresh => TestInv /\ VersionsInv
<1> SUFFICES ASSUME Fresh
             PROVE  TestInv /\ VersionsInv
  OBVIOUS
<1>1. \A name \in Names : ~Made(name)
  <2>1. ASSUME NEW name \in Names
        PROVE  ~Made(name)
    <3>1. MadeAt(name) \in Nat /\ MadeAt(name) >= 1 /\ Slot(name) \in Nat /\ Slot(name) >= 1
      BY NameFacts, CountFacts DEF CreationSteps
    <3> QED
      BY <3>1 DEF Made, Passed, Fresh
  <2> QED
    BY <2>1
<1>2. ContextInv
  BY <1>1 DEF ContextInv, Entered, Fresh
<1>3. StoreInv
  BY <1>1 DEF StoreInv, Fresh
<1>4. TimeInv
  <2>1. isa1 \in Names /\ \A i \in 1..n : <<"sub", 1, i>> \in Names /\ <<"sub", 2, i>> \in Names
    BY NamesOfKinds
  <2>2. /\ step = 1 /\ index = 1 /\ ~Made(isa1)
        /\ \A i \in 1..n : ~Made(<<"sub", 1, i>>) /\ ~Made(<<"sub", 2, i>>)
    BY <1>1, <2>1 DEF Fresh
  <2>3. ~(step > 5) /\ ~(step > 9) /\ step # 9 /\ ~(step > 12) /\ step # 12 /\ step \notin {2, 16}
    BY <2>2
  <2> QED
    BY <2>2, <2>3, Zenon DEF TimeInv
<1>5. FaultInv
  BY DEF FaultInv, Passed, Fresh
<1>6. VersionsInv
  BY DEF VersionsInv, Fresh
<1> QED
  BY <1>2, <1>3, <1>4, <1>5, <1>6 DEF TestInv

\* The first round begins fresh
LEMMA InitIInv == Init => IInv
<1> SUFFICES ASSUME Init
             PROVE  IInv
  OBVIOUS
<1>1. Len(permutations) \in Nat \ {0} /\ n \in Nat /\ n >= 2 /\ MaxDelay \in Nat
  BY PermutationFacts, CountFacts, ConstantsAssumption
<1>2. /\ DOMAIN store = Pools
      /\ \A q \in Pools : \A id \in DOMAIN store[q] :
            store[q][id] \in Entity /\ id \in {0} \X Names
  <2>1. PICK k \in 0..MaxOld :
           store = [q \in DSSs \cup {Region} |-> IF q = Region THEN OldSubs(k) ELSE <<>>]
    BY DEF Init
  <2>2. ASSUME NEW id \in DOMAIN OldSubs(k)
        PROVE  OldSubs(k)[id] \in Entity /\ id \in {0} \X Names
    <3>1. PICK i \in 1..k : id = <<0, <<"sub", 1, i>>>>
      BY <2>2 DEF OldSubs
    <3>2. i \in 1..n
      BY <1>1, LimitAssumption DEF n
    <3>3. <<"sub", 1, i>> \in Names
      BY <3>2, NamesOfKinds
    <3>4. OldSubs(k)[id] = [version |-> 1, ends |-> Long, live |-> TRUE]
      BY <2>2 DEF OldSubs
    <3> QED
      BY <3>1, <3>3, <3>4, ConstantsAssumption DEF Entity
  <2>3. DOMAIN << >> = {}
    OBVIOUS
  <2>4. \A q \in Pools : store[q] = OldSubs(k) \/ store[q] = <<>>
    BY <2>1 DEF Pools
  <2>5. DOMAIN store = Pools
    BY <2>1 DEF Pools
  <2> HIDE DEF OldSubs
  <2> QED
    BY <2>2, <2>3, <2>4, <2>5
<1>3. TypeInv
  <2>1. fault \in [DSSs -> Faults] /\ DOMAIN store = Pools
        /\ \A q \in Pools : \A id \in DOMAIN store[q] :
              store[q][id] \in Entity /\ id \in (0..round) \X Names
    <3>1. 0 \in 0..round
      BY DEF Init
    <3> QED
      BY <1>2, <3>1 DEF Init
  <2>2. now = 0 /\ timeEnd = 0 /\ delay = 0 /\ index = 1 /\ round = 1 /\ step = 1 /\ mode = "test"
        /\ slept = FALSE /\ bumpy = FALSE /\ context = <<>> /\ results = <<>> /\ why = "none"
    BY DEF Init
  <2>3. {now, timeEnd, delay, index} \subseteq Nat /\ index > 0 /\ delay <= MaxDelay
        /\ round \in 1..Len(permutations) /\ step \in 1..17 /\ index <= n
    BY <1>1, <2>2
  <2>4. slept \in BOOLEAN /\ bumpy \in BOOLEAN
    BY <2>2, Zenon
  <2>5. /\ context \in Seq([name : Names, version : {NoVersion, 1}]) /\ results \in Seq(0..17)
        /\ Len(results) = round - 1
    BY <2>2
  <2> QED
    BY <2>1, <2>2, <2>3, <2>4, <2>5 DEF TypeInv
<1>4. Fresh
  <2>1. \A name : Id(name)[1] = 1
    BY DEF Id, Init
  <2>2. \A id \in {0} \X Names : id[1] = 0
    OBVIOUS
  <2>3. \A q \in Pools, name \in Names : Id(name) \notin DOMAIN store[q]
    BY <1>2, <2>1, <2>2
  <2> QED
    BY <2>3 DEF Init, Fresh
<1>5. PassMeansInteroperable /\ FailuresExplained
  BY DEF Init, PassMeansInteroperable, FailuresExplained
<1> QED
  BY <1>3, <1>4, <1>5, FreshRound DEF Init, IInv

\* The next round begins fresh, whatever the last one left behind
LEMMA RoundEndsKeeps ==
    ASSUME IInv, mode = "cleanUp", RoundEnds, UNCHANGED <<fault, now, timeEnd, results>>
    PROVE  IInv'
<1>1. TypeInv /\ VersionsInv /\ PassMeansInteroperable
  BY DEF IInv
<1>2. round \in 1..Len(permutations) /\ Len(permutations) \in Nat /\ Len(results) = round
  BY <1>1, PermutationFacts DEF TypeInv
<1>3. PassMeansInteroperable'
  BY <1>1 DEF PassMeansInteroperable
<1>4. store' = store /\ index' = 1 /\ slept' = FALSE
  BY <1>1 DEF TypeInv, RoundEnds
<1>5. CASE round = Len(permutations)
  <2>1. mode' = "done" /\ UNCHANGED <<round, step, context, delay, bumpy, missed>>
    BY <1>5 DEF RoundEnds
  <2>2. TypeInv'
    <3>1. slept' \in BOOLEAN /\ bumpy' \in BOOLEAN
      BY <1>1, <1>4, <2>1, Zenon DEF TypeInv
    <3>2. index' \in Nat /\ index' > 0
      BY <1>4
    <3> QED
      BY <1>1, <1>4, <2>1, <3>1, <3>2 DEF TypeInv
  <2>3. StoreMove /\ now' \in Nat /\ now' >= now /\ step' \in Nat /\ step' >= step
    BY <1>1, <1>4, <2>1, NothingMoves, NumberFacts
  <2>4. VersionsInv'
    BY <1>1, <2>1, <2>3, VersionsKept
  <2> QED
    BY <1>3, <1>4, <2>1, <2>2, <2>4 DEF IInv, FailuresExplained
<1>6. CASE round # Len(permutations)
  <2>1. /\ mode' = "test" /\ round' = round + 1 /\ step' = 1 /\ context' = <<>> /\ delay' = 0
        /\ bumpy' = FALSE
    BY <1>6 DEF RoundEnds
  <2>2. TypeInv'
    <3>1. round' \in 1..Len(permutations) /\ (0..round) \subseteq (0..round') /\ round' - 1 = round
      BY <1>2, <1>6, <2>1
    <3>2. \A q \in Pools : \A id \in DOMAIN store'[q] :
             store'[q][id] \in Entity /\ id \in (0..round') \X Names
      BY <1>1, <1>4, <3>1 DEF TypeInv
    <3>3. {now', timeEnd', delay', index'} \subseteq Nat /\ index' > 0 /\ delay' <= MaxDelay
          /\ index' <= n /\ index' = 1 /\ step' \in 1..17
      <4>1. /\ {now, timeEnd, 0, 1} \subseteq Nat /\ 1 > 0 /\ 0 <= MaxDelay
            /\ 1 <= n /\ 1 = 1 /\ 1 \in 1..17
        BY <1>1, CountFacts, ConstantsAssumption, NumberFacts
      <4> QED
        BY <1>4, <2>1, <4>1
    <3>4. slept' \in BOOLEAN /\ bumpy' \in BOOLEAN
      BY <1>4, <2>1, Zenon
    <3>5. /\ context' \in Seq([name : Names, version : {NoVersion, 1}])
          /\ results' \in Seq(0..17) /\ Len(results') = round' - 1
          /\ fault' \in [DSSs -> Faults] /\ DOMAIN store' = Pools
      BY <1>1, <1>2, <1>4, <2>1, <3>1 DEF TypeInv
    <3> QED
      BY <1>4, <2>1, <3>1, <3>2, <3>3, <3>4, <3>5 DEF TypeInv
  <2>3. Fresh'
    <3>1. ASSUME NEW q \in Pools, NEW name \in Names, <<round + 1, name>> \in DOMAIN store[q]
          PROVE  FALSE
      <4>1. <<round + 1, name>> \in (0..round) \X Names
        BY <1>1, <3>1 DEF TypeInv
      <4>2. round + 1 \in 0..round
        BY <4>1
      <4> QED
        BY <1>2, <4>2
    <3>2. \A q \in Pools, name \in Names : Id(name)' \notin DOMAIN store'[q]
      BY <1>4, <2>1, <3>1 DEF Id
    <3> QED
      BY <1>4, <2>1, <3>2 DEF Fresh
  <2>4. TestInv' /\ VersionsInv'
    <3>1. Fresh' => TestInv' /\ VersionsInv'
      BY FreshRound, PTL
    <3> QED
      BY <2>3, <3>1
  <2> QED
    BY <1>3, <1>4, <2>1, <2>2, <2>4 DEF IInv, FailuresExplained
<1> QED
  BY <1>5, <1>6

\* The passes of cleanUp over the context, and their end
LEMMA cleanUpKeeps ==
    ASSUME IInv, cleanUp
    PROVE  IInv'
<1>1. mode = "cleanUp" /\ UNCHANGED <<fault, now, timeEnd, results>>
  BY DEF cleanUp
<1>2. CASE cleanUpEntity
  BY <1>1, <1>2, cleanUpEntityKeeps
<1>3. CASE RoundEnds
  BY <1>1, <1>3, RoundEndsKeeps
<1>4. CASE /\ index' = 1
           /\ UNCHANGED <<mode, round, step, context, delay, bumpy, missed, slept, glitches, store,
                          why>>
  <2>1. TypeInv /\ VersionsInv /\ CleanInv /\ PassMeansInteroperable /\ FailuresExplained
    BY <1>1 DEF IInv
  <2>2. TypeInv'
    BY <1>1, <1>4, <2>1 DEF TypeInv
  <2>3. StoreMove /\ now' \in Nat /\ now' >= now /\ step' \in Nat /\ step' >= step
    BY <1>1, <1>4, <2>1, NothingMoves, NumberFacts
  <2>4. VersionsInv'
    BY <1>4, <2>1, <2>3, VersionsKept
  <2>5. CleanInv'
    <3>1. \A k \in DOMAIN context' : ~(k < index')
      BY <1>4, <2>1 DEF TypeInv
    <3> QED
      BY <1>1, <1>4, <2>1, <3>1 DEF CleanInv
  <2>6. PassMeansInteroperable' /\ FailuresExplained'
    BY <1>1, <1>4, <2>1 DEF PassMeansInteroperable, FailuresExplained, LeftBehind
  <2> QED
    BY <1>1, <1>4, <2>2, <2>4, <2>5, <2>6 DEF IInv
<1> QED
  BY <1>2, <1>3, <1>4 DEF cleanUp

\* The invariant is inductive
LEMMA NextIInv == IInv /\ [Next]_vars => IInv'
<1> SUFFICES ASSUME IInv, [Next]_vars
             PROVE  IInv'
  OBVIOUS
<1>1. CASE startTest
  BY <1>1, testStep1Keeps, testStep2Keeps, testStep3Keeps, testStep4Keeps, testStep5Keeps,
     testStep6Keeps, testStep7Keeps, testStep8Keeps, testStep9Keeps, testStep10Keeps,
     testStep11Keeps, testStep12Keeps, testStep13Keeps, testStep14Keeps, testStep15Keeps,
     testStep16Keeps, testStep17Keeps, SleepKeeps, cleanUpKeeps DEF startTest
<1>2. CASE Raises
  BY <1>2, RaisesKeeps
<1>3. CASE Delay
  BY <1>3, DelayKeeps
<1>4. CASE UNCHANGED vars
  <2>1. UNCHANGED <<fault, store, now, round, mode, step, index, slept, timeEnd, context, passes,
                    results, why, delay, glitches, bumpy, missed>>
    BY <1>4 DEF vars
  <2>2. /\ all_dss' = all_dss /\ primary' = primary /\ \A d : Pool(d)' = Pool(d)
        /\ \A name : /\ Id(name)' = Id(name) /\ Home(name)' = Home(name) /\ Row(name)' = Row(name)
                     /\ Made(name)' = Made(name) /\ Gone(name)' = Gone(name)
                     /\ Entered(name)' = Entered(name)
    BY <2>1, SameRound DEF Row, Made, Gone, Passed, Entered
  <2>3. TypeInv'
    BY <2>1 DEF IInv, TypeInv
  <2>4. VersionsInv'
    BY <2>1, <2>2 DEF IInv, VersionsInv
  <2>5. mode' = "test" => TestInv'
    <3>1. SUFFICES ASSUME TestInv
                   PROVE  TestInv'
      BY <2>1 DEF IInv
    <3>2. ContextInv' /\ StoreInv'
      BY <2>1, <2>2, <3>1 DEF TestInv, ContextInv, StoreInv
    <3>3. TimeInv'
      BY <2>1, <2>2, <3>1 DEF TestInv, TimeInv
    <3>4. FaultInv'
      BY <2>1, <2>2, <3>1 DEF TestInv, FaultInv, Passed
    <3> QED
      BY <3>2, <3>3, <3>4 DEF TestInv
  <2>6. mode' = "cleanUp" => CleanInv'
    <3>1. SUFFICES ASSUME CleanInv
                   PROVE  CleanInv'
      BY <2>1 DEF IInv
    <3>2. \A x : Live(primary, Id(x))' = Live(primary, Id(x))
      BY <2>1, <2>2 DEF Live, Held
    <3>3. Held(primary)' = Held(primary)
      BY <2>1, <2>2 DEF Held
    <3> QED
      BY <2>1, <2>2, <3>1, <3>2, <3>3 DEF CleanInv
  <2>7. PassMeansInteroperable' /\ FailuresExplained'
    BY <2>1 DEF IInv, PassMeansInteroperable, FailuresExplained, LeftBehind
  <2> QED
    BY <2>3, <2>4, <2>5, <2>6, <2>7 DEF IInv
<1> QED
  BY <1>1, <1>2, <1>3, <1>4 DEF Next

-----------------------------------------------------------------------------
(***************************************************************************)
(* The theorems                                                            *)
(***************************************************************************)

\* The inductive invariant holds in every reachable state of the suite.
THEOREM Invariance == Spec => []IInv
  BY InitIInv, NextIInv, PTL DEF Spec

\* A round of startTest that passes testStep1 .. testStep17 shows that every
\* instance shares the store of the region and returns neither deleted nor
\* expired ISAs and no expired subscriptions in a search, and that the primary
\* instance updates ISAs and names the subscriptions to notify: whatever the
\* number of instances, the faults, the failing requests and the time lost.
THEOREM PassAlwaysMeansInteroperable == Spec => []PassMeansInteroperable
<1>1. IInv => PassMeansInteroperable
  BY DEF IInv
<1> QED
  BY <1>1, Invariance, PTL

\* A round fails in a test step only if an instance is at fault, one of its
\* requests failed, it was held up for longer than the shortest time to live the
\* test steps use less a second, or the subscriptions it makes exceed the limit
\* of the DSS together with those left behind.
THEOREM FailuresAlwaysExplained == Spec => []FailuresExplained
<1>1. IInv => FailuresExplained
  BY DEF IInv
<1> QED
  BY <1>1, Invariance, PTL

\* When the last cleanUp of a round returns, the entities of its context are
\* deleted at the primary instance, apart from ISA_1 about to end and from
\* deletions that failed in transit.
THEOREM RoundAlwaysCleansUp == Spec => []RoundCleansUp
<1>1. IInv => RoundCleansUp
  <2>1. SUFFICES ASSUME IInv, mode = "cleanUp", index > Len(context)
                 PROVE  \A k \in DOMAIN context :
                           LET id == Id(context[k].name) IN
                           \/ ~Live(primary, id)
                           \/ /\ id = Id(isa1) /\ step >= 5
                              /\ Held(primary)[id].ends <= now + Short
                           \/ id \in missed
    BY DEF RoundCleansUp, isa1
  <2>2. \A k \in DOMAIN context : k < index
    BY <2>1 DEF IInv, TypeInv
  <2> QED
    BY <2>1, <2>2 DEF IInv, CleanInv
<1> QED
  BY <1>1, Invariance, PTL

=============================================================================
