------------------------------ MODULE SCDProofs ------------------------------
(***************************************************************************)
(* Proofs about SCD, for every choice of the constants.                    *)
(***************************************************************************)
EXTENDS SCD, FiniteSetTheorems, TLAPS

-----------------------------------------------------------------------------
(***************************************************************************)
(* Coverings and searches                                                  *)
(***************************************************************************)

\* A covering of level-13 cells contains itself
LEMMA ContainsItself ==
    ASSUME NEW cells \in SUBSET Cells
    PROVE  Contains(cells, cells)
BY DEF Contains, Region

\* Normalizing a covering changes the cells it is made of, not its region
LEMMA NormalizeKeepsRegion ==
    ASSUME NEW cells \in SUBSET (Cells \cup Parents)
    PROVE  /\ Normalize(cells) \subseteq Cells \cup Parents
           /\ Region(Normalize(cells)) = Region(cells)
<1> DEFINE whole == {p \in Parents : Children[p] \subseteq cells \/ p \in cells}
           inside == UNION {Children[p] : p \in whole}
<1>1. Normalize(cells) = (cells \ inside) \cup whole
  BY DEF Normalize
<1>2. \A p \in Parents : p \notin inside
  BY CellsAssumption
<1>3. \A p \in Parents : p \in Normalize(cells) <=> p \in whole
  BY <1>1, <1>2
<1>4. ASSUME NEW c \in Cells
      PROVE  c \in Region(Normalize(cells)) <=> c \in Region(cells)
  <2>1. c \in Normalize(cells) <=> c \in cells /\ c \notin inside
    BY <1>1, CellsAssumption
  <2>2. c \in inside <=> \E p \in whole : c \in Children[p]
    OBVIOUS
  <2> QED
    BY <1>3, <2>1, <2>2 DEF Region
<1>5. Region(Normalize(cells)) = Region(cells)
  BY <1>4 DEF Region
<1> QED
  BY <1>1, <1>5

\* The union of two coverings covers both
LEMMA UnionCovers ==
    ASSUME NEW cells1 \in SUBSET (Cells \cup Parents),
           NEW cells2 \in SUBSET Cells
    PROVE  /\ CellUnionFromUnion(cells1, cells2) \subseteq Cells \cup Parents
           /\ Region(cells1) \subseteq Region(CellUnionFromUnion(cells1, cells2))
           /\ Contains(CellUnionFromUnion(cells1, cells2), cells2)
<1>1. cells1 \cup cells2 \in SUBSET (Cells \cup Parents)
  OBVIOUS
<1>2. Region(CellUnionFromUnion(cells1, cells2)) = Region(cells1 \cup cells2)
  BY <1>1, NormalizeKeepsRegion DEF CellUnionFromUnion
<1>3. Region(cells1) \subseteq Region(cells1 \cup cells2)
  BY DEF Region
<1>4. cells2 \subseteq Region(cells1 \cup cells2)
  BY DEF Region
<1> QED
  BY <1>1, <1>2, <1>3, <1>4, NormalizeKeepsRegion DEF CellUnionFromUnion, Contains

\* A search returns rows that match
LEMMA LimitedIsSubset ==
    ASSUME NEW S, NEW T \in Limited(S)
    PROVE  T \subseteq S
BY DEF Limited

-----------------------------------------------------------------------------
(***************************************************************************)
(* The subscription that comes to support an operational intent            *)
(***************************************************************************)

\* What a request to put an operational intent is
Requested(m, ext, subID, forCons) ==
    /\ m \in Managers
    /\ ext \in Extents
    /\ subID \in SubIDs \cup {None}
    /\ forCons \in BOOLEAN

\* new replaces old without taking anything from what depends on it
Extends(new, old) ==
    /\ new.manager = old.manager
    /\ new.index = old.index
    /\ new.forOps = old.forOps /\ new.forCons = old.forCons
    /\ Region(old.cells) \subseteq Region(new.cells)
    /\ new.start <= old.start
    /\ old.end <= new.end

\* A new implicit subscription supports the volume it is made for
LEMMA NewImplicitSupports ==
    ASSUME TypeOK, NEW m \in Managers, NEW ext \in Extents,
           NEW forCons \in BOOLEAN, NEW sorted \in BOOLEAN
    PROVE  LET sub == NewImplicitSubscription(m, ext, forCons, sorted)
           IN  /\ sub \in Subscription
               /\ sub.manager = m
               /\ Contains(sub.cells, ext.cells)
               /\ sub.start <= ext.start /\ ext.end <= sub.end
<1>1. ext \in Volume4D /\ now \in Nat
  BY ExtentsAssumption DEF TypeOK
<1>2. Contains(ext.cells, ext.cells)
  BY <1>1, ContainsItself DEF Volume4D
<1> QED
  BY <1>1, <1>2 DEF NewImplicitSubscription, Subscription, Volume4D

\* An extended subscription supports the volume it is extended for, and takes
\* nothing from what it supported before
LEMMA ExtendedSupports ==
    ASSUME TypeOK, NEW sub \in Subscription, NEW ext \in Extents,
           NEW contains \in BOOLEAN,
           contains => Contains(sub.cells, ext.cells)
    PROVE  LET new == ExtendedSubscription(sub, ext, contains)
           IN  /\ new \in Subscription
               /\ Extends(new, sub)
               /\ Contains(new.cells, ext.cells)
               /\ new.start <= ext.start /\ ext.end <= new.end
<1> DEFINE new == ExtendedSubscription(sub, ext, contains)
           union == CellUnionFromUnion(sub.cells, ext.cells)
<1>1. ext \in Volume4D /\ now \in Nat
  BY ExtentsAssumption DEF TypeOK
<1>2. /\ sub.cells \in SUBSET (Cells \cup Parents)
      /\ ext.cells \in SUBSET Cells
  BY <1>1 DEF Subscription, Volume4D
<1>3. /\ union \in SUBSET (Cells \cup Parents)
      /\ Region(sub.cells) \subseteq Region(union)
      /\ Contains(union, ext.cells)
  BY <1>2, UnionCovers
<1>4. /\ sub.start \in Nat /\ sub.end \in Nat
      /\ ext.start \in Nat /\ ext.end \in Nat
  BY <1>1 DEF Subscription, Volume4D
<1>5. CASE sub.start <= ext.start /\ sub.end >= ext.end /\ contains
  <2>1. new = sub
    BY <1>5 DEF ExtendedSubscription
  <2>2. Contains(sub.cells, ext.cells)
    BY <1>5
  <2>3. Extends(sub, sub)
    BY <1>4 DEF Extends
  <2>4. sub.start <= ext.start /\ ext.end <= sub.end
    BY <1>4, <1>5
  <2> QED
    BY <2>1, <2>2, <2>3, <2>4
<1>6. CASE ~(sub.start <= ext.start /\ sub.end >= ext.end /\ contains)
  <2> DEFINE cells == IF contains THEN sub.cells ELSE union
             start == Lower(sub.start, ext.start)
             end == Upper(sub.end, ext.end)
             sorted == IF contains THEN sub.sorted ELSE TRUE
  <2>1. new = [manager |-> sub.manager, index |-> sub.index, start |-> start,
               end |-> end, cells |-> cells, sorted |-> sorted,
               forOps |-> sub.forOps, forCons |-> sub.forCons,
               implicit |-> sub.implicit, updatedAt |-> now]
    BY <1>6 DEF ExtendedSubscription
  <2>2. /\ start \in Nat /\ start <= sub.start /\ start <= ext.start
        /\ end \in Nat /\ sub.end <= end /\ ext.end <= end
    BY <1>4 DEF Lower, Upper
  <2>3. /\ cells \in SUBSET (Cells \cup Parents)
        /\ Region(sub.cells) \subseteq Region(cells)
        /\ Contains(cells, ext.cells)
    BY <1>2, <1>3
  <2>4. sorted \in BOOLEAN
    BY DEF Subscription
  <2> HIDE DEF cells, start, end, sorted
  <2>5. /\ new.manager = sub.manager /\ new.index = sub.index
        /\ new.forOps = sub.forOps /\ new.forCons = sub.forCons
        /\ new.start = start /\ new.end = end /\ new.cells = cells
    BY <2>1 DEF Subscription
  <2>6. new \in Subscription
    BY <1>1, <2>1, <2>2, <2>3, <2>4 DEF Subscription
  <2> QED
    BY <2>2, <2>3, <2>5, <2>6 DEF Extends
<1> QED
  BY <1>5, <1>6

\* Either way the subscription supports the operational intent that is put
LEMMA SupportSupports ==
    ASSUME TypeOK, NEW m, NEW ext, NEW subID, NEW forCons,
           Requested(m, ext, subID, forCons),
           NEW support \in SupportingSubscriptions(m, ext, subID, forCons)
    PROVE  /\ support.id \in SubIDs
           /\ support.sub \in Subscription
           /\ support.sub.manager = m
           /\ Contains(support.sub.cells, ext.cells)
           /\ support.sub.start <= ext.start /\ ext.end <= support.sub.end
           /\ subs[support.id] # None => Extends(support.sub, subs[support.id])
<1>1. CASE subID = None
  <2>1. PICK s \in {x \in SubIDs : subs[x] = None},
             sorted \in {b \in BOOLEAN : b \/ Cardinality(ext.cells) > 1} :
               support = [id |-> s, sub |-> NewImplicitSubscription(m, ext, forCons, sorted)]
    BY <1>1 DEF SupportingSubscriptions
  <2> QED
    BY <2>1, NewImplicitSupports DEF Requested
<1>2. CASE subID # None
  <2>1. PICK contains \in BOOLEAN :
             /\ support = [id |-> subID,
                           sub |-> ExtendedSubscription(subs[subID], ext, contains)]
             /\ subs[subID] # None
             /\ subs[subID].manager = m
             /\ contains \in ContainsOutcomes(subs[subID], ext.cells)
    BY <1>2 DEF SupportingSubscriptions
  <2>2. subID \in SubIDs /\ subs[subID] \in Subscription
    BY <1>2, <2>1 DEF Requested, TypeOK
  <2>3. contains => Contains(subs[subID].cells, ext.cells)
    BY <2>1 DEF ContainsOutcomes
  <2> QED
    BY <2>1, <2>2, <2>3, ExtendedSupports DEF Requested, Extends
<1> QED
  BY <1>1, <1>2

-----------------------------------------------------------------------------
(***************************************************************************)
(* Notifications                                                           *)
(***************************************************************************)

SubscriptionTable == [SubIDs -> Subscription \cup {None}]

\* Counting notifications keeps everything of a row but its index
Counted(new, old) ==
    /\ new = None <=> old = None
    /\ old # None =>
         /\ new.manager = old.manager
         /\ new.cells = old.cells
         /\ new.start = old.start
         /\ new.end = old.end
         /\ new.forOps = old.forOps /\ new.forCons = old.forCons
         /\ new.implicit = old.implicit
         /\ new.index \in {old.index, old.index + 1}

\* IncrementNotificationIndices changes nothing of a row but its index, by at
\* most one (subscriptions.go:341-384)
LEMMA IncrementCounts ==
    ASSUME NEW table \in SubscriptionTable,
           NEW notified \in SUBSET {s \in SubIDs : table[s] # None}
    PROVE  LET counted == IncrementNotificationIndices(table, notified)
           IN  /\ counted \in SubscriptionTable
               /\ \A s \in SubIDs : Counted(counted[s], table[s])
<1> DEFINE counted == IncrementNotificationIndices(table, notified)
<1>1. ASSUME NEW s \in SubIDs
      PROVE  /\ counted[s] \in Subscription \cup {None}
             /\ Counted(counted[s], table[s])
  <2>1. CASE s \in notified
    <3>1. table[s] \in Subscription
      BY <2>1 DEF SubscriptionTable
    <3>2. counted[s] = [table[s] EXCEPT !.index = table[s].index + 1]
      BY <2>1 DEF IncrementNotificationIndices
    <3>3. /\ counted[s] \in Subscription
          /\ counted[s].manager = table[s].manager
          /\ counted[s].cells = table[s].cells
          /\ counted[s].start = table[s].start
          /\ counted[s].end = table[s].end
          /\ counted[s].forOps = table[s].forOps /\ counted[s].forCons = table[s].forCons
          /\ counted[s].implicit = table[s].implicit
          /\ counted[s].index = table[s].index + 1
      BY <3>1, <3>2 DEF Subscription
    <3> QED
      BY <3>1, <3>3, NamesAssumption DEF Counted
  <2>2. CASE s \notin notified
    <3>1. counted[s] = table[s]
      BY <2>2 DEF IncrementNotificationIndices
    <3> QED
      BY <3>1 DEF Counted, SubscriptionTable
  <2> QED
    BY <2>1, <2>2
<1>2. counted = [s \in SubIDs |-> counted[s]]
  BY DEF IncrementNotificationIndices
<1> HIDE DEF counted
<1>3. counted \in SubscriptionTable
  BY <1>1, <1>2 DEF SubscriptionTable
<1> QED
  BY <1>1, <1>3 DEF counted

\* The picture of the subscribers keeps its type
LEMMA NotifyType ==
    ASSUME told \in [SubIDs -> [Entities -> Nat]],
           NEW table, NEW notified, NEW e \in Entities, NEW row,
           row = None \/ row.version \in Nat
    PROVE  NotifySubscribers(table, notified, e, row) \in [SubIDs -> [Entities -> Nat]]
<1>1. \A s : RelevantVersion(table[s], row) \in Nat
  BY DEF RelevantVersion
<1> QED
  BY <1>1 DEF NotifySubscribers

\* What the owner of an absent subscription was told: nothing
LEMMA NothingType == Nothing \in [Entities -> Nat]
BY DEF Nothing

-----------------------------------------------------------------------------
(***************************************************************************)
(* The inductive invariant: every step keeps the types and the support of  *)
(* the operational intents                                                 *)
(***************************************************************************)

IInv == TypeOK /\ DependentsCovered

\* What a step does not do to the rows that are there: no notification index
\* goes back, and only a deleted operational intent and, with it, its own
\* implicit subscription disappear
IndicesKept ==
    \A s \in SubIDs :
        subs[s] # None /\ subs'[s] # None => subs'[s].index >= subs[s].index

NothingCascades ==
    /\ \A o, q \in OpIDs :
          /\ ops[o] # None /\ ops'[o] = None
          /\ ops[q] # None /\ ops'[q] = None
          => o = q
    /\ \A s \in SubIDs :
          subs[s] # None /\ subs'[s] = None =>
              \A o \in GetDependentOperationalIntents(s) :
                  subs[s].implicit /\ ops'[o] = None

RowsKept == IndicesKept /\ NothingCascades

\* A subscription that covers as much and lasts as long supports as much
LEMMA SupportsMonotone ==
    ASSUME NEW op \in OperationalIntent,
           NEW old \in Subscription, NEW new \in Subscription,
           Supports(old, op),
           new.manager = old.manager,
           Region(old.cells) \subseteq Region(new.cells),
           new.start <= old.start,
           old.end <= new.end
    PROVE  Supports(new, op)
<1>1. /\ op.vol.start \in Nat /\ op.vol.end \in Nat
      /\ old.start \in Nat /\ old.end \in Nat
      /\ new.start \in Nat /\ new.end \in Nat
      /\ MaxStartGap \in Nat
  BY BoundsAssumption DEF OperationalIntent, Volume4D, Subscription
<1>2. new # None
  BY NamesAssumption
<1>3. Contains(new.cells, op.vol.cells)
  BY DEF Supports, Contains
<1>4. /\ old.start <= op.vol.start + MaxStartGap /\ op.vol.end <= old.end
      /\ old.manager = op.manager
  BY DEF Supports
<1>5. new.start <= op.vol.start + MaxStartGap /\ op.vol.end <= new.end
  BY <1>1, <1>4
<1> QED
  BY <1>2, <1>3, <1>4, <1>5 DEF Supports

\* Counting notifications takes no support away
LEMMA CountedSupports ==
    ASSUME NEW op \in OperationalIntent,
           NEW old \in Subscription \cup {None}, NEW new \in Subscription \cup {None},
           Counted(new, old), Supports(old, op)
    PROVE  Supports(new, op)
<1>1. /\ old # None
      /\ new # None
      /\ new.manager = old.manager /\ new.cells = old.cells
      /\ new.start = old.start /\ new.end = old.end
  BY DEF Counted, Supports
<1> QED
  BY <1>1 DEF Supports

\* A request that only counts notifications of subscriptions, like the ones
\* about constraints, and leaves operational intents alone
LEMMA CountingKeepsSupport ==
    ASSUME IInv, ops' = ops, subs' \in SubscriptionTable,
           \A s \in SubIDs : Counted(subs'[s], subs[s])
    PROVE  DependentsCovered'
<1> SUFFICES ASSUME NEW o \in OpIDs, ops[o] # None
             PROVE  Supports(subs'[ops[o].subscriptionID], ops[o])
  BY DEF DependentsCovered
<1>1. ops[o] \in OperationalIntent /\ ops[o].subscriptionID \in SubIDs
  BY DEF IInv, TypeOK, OperationalIntent
<1>2. Supports(subs[ops[o].subscriptionID], ops[o])
  BY DEF IInv, DependentsCovered
<1> QED
  BY <1>1, <1>2, CountedSupports DEF IInv, TypeOK, SubscriptionTable

\* It also keeps the rows
LEMMA CountingKeepsRows ==
    ASSUME TypeOK, \A o \in OpIDs : ops[o] # None => ops'[o] # None,
           \A s \in SubIDs : Counted(subs'[s], subs[s])
    PROVE  RowsKept
<1>1. ASSUME NEW s \in SubIDs, subs[s] # None, subs'[s] # None
      PROVE  subs'[s].index >= subs[s].index
  <2>1. subs[s].index \in Nat
    BY <1>1 DEF TypeOK, Subscription
  <2>2. subs'[s].index \in {subs[s].index, subs[s].index + 1}
    BY <1>1 DEF Counted
  <2> QED
    BY <2>1, <2>2
<1>2. \A s \in SubIDs : subs[s] # None => subs'[s] # None
  BY DEF Counted
<1> QED
  BY <1>1, <1>2 DEF RowsKept, IndicesKept, NothingCascades

\* A put of an operational intent stores or extends the subscription before the
\* row that names it, and takes nothing from the subscription's other dependents
\* (operational_intents_handler.go:248-565)
LEMMA PutOperationalIntentKeepsIInv ==
    ASSUME IInv,
           NEW m \in Managers, NEW id \in OpIDs, NEW state \in RequestStates,
           NEW ext \in Extents, NEW subID \in SubIDs \cup {None},
           NEW forCons \in BOOLEAN, NEW key, NEW ovn,
           PutOperationalIntentReference(m, id, ovn, state, ext, subID, forCons, key)
    PROVE  IInv' /\ RowsKept
<1>1. PICK support \in SupportingSubscriptions(m, ext, subID, forCons),
           found \in SearchOperationalIntents(ext),
           foundCons \in SearchConstraints(ext) :
         LET op == [manager |-> m, version |-> NextVersion(ops[id]),
                    state |-> state, vol |-> ext,
                    subscriptionID |-> support.id, updatedAt |-> now]
             stored == [subs EXCEPT ![support.id] = support.sub]
         IN  /\ \E hits \in SearchSubscriptions(stored, NotifyVolume(ops[id], ext)) :
                  LET notified == {s \in hits : stored[s].forOps}
                  IN  /\ subs' = IncrementNotificationIndices(stored, notified)
                      /\ told' = NotifySubscribers(stored, notified, id, op)
             /\ ops' = [ops EXCEPT ![id] = op]
             /\ aware' = [o \in OpIDs |->
                             IF o # id THEN aware[o] \ {id}
                             ELSE IF ~RequiresKey(state) THEN {}
                             ELSE {x \in found \ {id} : OVN(x, ops[x]) \in key}]
  BY DEF PutOperationalIntentReference
<1> DEFINE op == [manager |-> m, version |-> NextVersion(ops[id]),
                  state |-> state, vol |-> ext,
                  subscriptionID |-> support.id, updatedAt |-> now]
           stored == [subs EXCEPT ![support.id] = support.sub]
<1>2. PICK hits \in SearchSubscriptions(stored, NotifyVolume(ops[id], ext)) :
         LET notified == {s \in hits : stored[s].forOps}
         IN  /\ subs' = IncrementNotificationIndices(stored, notified)
             /\ told' = NotifySubscribers(stored, notified, id, op)
  BY <1>1
<1> DEFINE notified == {s \in hits : stored[s].forOps}
<1>3. TypeOK /\ DependentsCovered /\ Requested(m, ext, subID, forCons)
  BY DEF IInv, Requested
<1>4. /\ support.id \in SubIDs
      /\ support.sub \in Subscription
      /\ support.sub.manager = m
      /\ Contains(support.sub.cells, ext.cells)
      /\ support.sub.start <= ext.start /\ ext.end <= support.sub.end
      /\ subs[support.id] # None => Extends(support.sub, subs[support.id])
  BY <1>3, SupportSupports
<1>5. op \in OperationalIntent
  <2>1. ops[id] # None => ops[id].version \in Nat
    BY <1>3 DEF TypeOK, OperationalIntent
  <2>2. NextVersion(ops[id]) \in Nat
    BY <2>1 DEF NextVersion
  <2>3. ext \in Volume4D /\ state \in States /\ now \in Nat
    BY <1>3, ExtentsAssumption DEF TypeOK
  <2> QED
    BY <1>4, <2>2, <2>3 DEF OperationalIntent
<1>6. stored \in SubscriptionTable
  BY <1>3, <1>4 DEF TypeOK, SubscriptionTable
<1>7. notified \in SUBSET {s \in SubIDs : stored[s] # None}
  <2>1. hits \subseteq {s \in SubIDs : stored[s] # None
                                      /\ Overlaps(stored[s], NotifyVolume(ops[id], ext))}
    BY LimitedIsSubset DEF SearchSubscriptions
  <2> QED
    BY <2>1
<1>8. /\ subs' \in SubscriptionTable
      /\ \A s \in SubIDs : Counted(subs'[s], stored[s])
  BY <1>2, <1>6, <1>7, IncrementCounts
<1>9. ops' = [ops EXCEPT ![id] = op]
  BY <1>1
<1>10. TypeOK'
  <2>1. now' \in Nat /\ cons' \in [ConstraintIDs -> Constraint \cup {None}]
    BY <1>3 DEF TypeOK, PutOperationalIntentReference
  <2>2. ops' \in [OpIDs -> OperationalIntent \cup {None}]
    BY <1>3, <1>5, <1>9 DEF TypeOK
  <2>3. told' \in [SubIDs -> [Entities -> Nat]]
    <3>1. id \in Entities /\ op.version \in Nat
      BY <1>5 DEF Entities, OperationalIntent
    <3> HIDE DEF op, stored, notified
    <3>2. told' = NotifySubscribers(stored, notified, id, op)
      BY <1>2 DEF op, stored, notified
    <3> QED
      BY <1>3, <3>1, <3>2, NotifyType DEF TypeOK
  <2>4. aware' \in [OpIDs -> SUBSET OpIDs]
    <3>1. found \subseteq OpIDs
      BY LimitedIsSubset DEF SearchOperationalIntents
    <3> QED
      BY <1>1, <1>3, <3>1 DEF TypeOK
  <2> QED
    BY <1>8, <2>1, <2>2, <2>3, <2>4 DEF TypeOK, SubscriptionTable
<1>11. DependentsCovered'
  <2> SUFFICES ASSUME NEW o \in OpIDs, ops'[o] # None
               PROVE  Supports(subs'[ops'[o].subscriptionID], ops'[o])
    BY DEF DependentsCovered
  <2> DEFINE s == ops'[o].subscriptionID
  <2>1. ops'[o] \in OperationalIntent /\ s \in SubIDs
    BY <1>10 DEF TypeOK, OperationalIntent
  <2>2. Supports(stored[s], ops'[o])
    <3>1. CASE o = id
      <4>1. ops'[o] = op /\ s = support.id /\ stored[s] = support.sub
        BY <1>3, <1>4, <1>9, <3>1 DEF TypeOK
      <4>2. op.vol = ext /\ op.manager = m
        OBVIOUS
      <4>3. /\ ext.start \in Nat /\ support.sub.start \in Nat
            /\ MaxStartGap \in Nat
        BY <1>4, ExtentsAssumption, BoundsAssumption DEF Volume4D, Subscription
      <4>4. support.sub.start <= ext.start + MaxStartGap
        BY <1>4, <4>3
      <4> HIDE DEF op, stored, s
      <4> QED
        BY <1>4, <4>1, <4>2, <4>4, NamesAssumption DEF Supports
    <3>2. CASE o # id
      <4>1. ops'[o] = ops[o] /\ ops[o] # None
        BY <1>3, <1>9, <3>2 DEF TypeOK
      <4>2. Supports(subs[s], ops[o])
        BY <1>3, <4>1 DEF DependentsCovered
      <4>3. CASE s = support.id
        <5>1. stored[s] = support.sub /\ subs[s] # None
          BY <1>3, <4>2, <4>3, <2>1 DEF TypeOK, Supports
        <5>2. subs[s] \in Subscription
          BY <1>3, <2>1, <5>1 DEF TypeOK
        <5>3. Extends(support.sub, subs[s])
          BY <1>4, <4>3, <5>1
        <5> HIDE DEF s, stored
        <5> QED
          BY <1>4, <2>1, <4>1, <4>2, <5>1, <5>2, <5>3, SupportsMonotone DEF Extends
      <4>4. CASE s # support.id
        BY <1>3, <2>1, <4>1, <4>2, <4>4 DEF TypeOK
      <4> QED
        BY <4>3, <4>4
    <3> QED
      BY <3>1, <3>2
  <2>3. Counted(subs'[s], stored[s])
    BY <1>8, <2>1
  <2>4. stored[s] \in Subscription \cup {None} /\ subs'[s] \in Subscription \cup {None}
    BY <1>6, <1>8, <2>1 DEF SubscriptionTable
  <2> HIDE DEF s, stored
  <2>5. Supports(subs'[s], ops'[o])
    BY <2>1, <2>2, <2>3, <2>4, CountedSupports
  <2> QED
    BY <2>5 DEF s
<1>12. RowsKept
  <2>1. \A o \in OpIDs : ops[o] # None => ops'[o] # None
    BY <1>3, <1>5, <1>9, NamesAssumption DEF TypeOK
  <2>2. ASSUME NEW s \in SubIDs, subs[s] # None
        PROVE  subs'[s] # None /\ subs'[s].index >= subs[s].index
    <3>1. stored[s] \in Subscription /\ stored[s].index = subs[s].index
      <4>1. CASE s = support.id
        BY <1>3, <1>4, <2>2, <4>1 DEF TypeOK, Extends
      <4>2. CASE s # support.id
        BY <1>3, <2>2, <4>2 DEF TypeOK
      <4> QED
        BY <4>1, <4>2
    <3>2. Counted(subs'[s], stored[s])
      BY <1>8
    <3> HIDE DEF stored
    <3>3. subs[s].index \in Nat /\ stored[s] # None
      BY <3>1, NamesAssumption DEF Subscription
    <3> QED
      BY <3>1, <3>2, <3>3 DEF Counted
  <2> QED
    BY <2>1, <2>2 DEF RowsKept, IndicesKept, NothingCascades
<1> QED
  BY <1>10, <1>11, <1>12 DEF IInv

\* Deleting an operational intent takes its implicit subscription along only if
\* no other row names it (operational_intents_handler.go:22-137)
LEMMA DeleteOperationalIntentKeepsIInv ==
    ASSUME IInv, NEW m \in Managers, NEW id \in OpIDs,
           DeleteOperationalIntentReference(m, id)
    PROVE  IInv' /\ RowsKept
<1> DEFINE s == ops[id].subscriptionID
           gone == IF RemovesImplicitSubscription(s) THEN {s} ELSE {}
<1>1. PICK hits \in SearchSubscriptions(subs, ops[id].vol) :
         LET notified == {x \in hits : subs[x].forOps}
             counted == IncrementNotificationIndices(subs, notified)
             informed == NotifySubscribers(subs, notified, id, None)
         IN  /\ subs' = [x \in SubIDs |-> IF x \in gone THEN None ELSE counted[x]]
             /\ told' = [x \in SubIDs |-> IF x \in gone THEN Nothing ELSE informed[x]]
  BY DEF DeleteOperationalIntentReference
<1> DEFINE notified == {x \in hits : subs[x].forOps}
           counted == IncrementNotificationIndices(subs, notified)
           informed == NotifySubscribers(subs, notified, id, None)
<1>2. TypeOK /\ DependentsCovered
  BY DEF IInv
<1>3. /\ counted \in SubscriptionTable
      /\ \A x \in SubIDs : Counted(counted[x], subs[x])
  <2>1. hits \subseteq {x \in SubIDs : subs[x] # None /\ Overlaps(subs[x], ops[id].vol)}
    BY LimitedIsSubset DEF SearchSubscriptions
  <2>2. notified \in SUBSET {x \in SubIDs : subs[x] # None}
    BY <2>1
  <2>3. subs \in SubscriptionTable
    BY <1>2 DEF TypeOK, SubscriptionTable
  <2> QED
    BY <2>2, <2>3, IncrementCounts
<1>4. informed \in [SubIDs -> [Entities -> Nat]]
  BY <1>2, NotifyType DEF TypeOK, Entities
<1>5. /\ subs' = [x \in SubIDs |-> IF x \in gone THEN None ELSE counted[x]]
      /\ told' = [x \in SubIDs |-> IF x \in gone THEN Nothing ELSE informed[x]]
  BY <1>1
<1>6. /\ ops' = [o \in OpIDs |->
                    IF o = id THEN None
                    ELSE IF RemovesImplicitSubscription(s) THEN CascadeDelete(s)[o]
                    ELSE ops[o]]
      /\ aware' = [o \in OpIDs |-> IF o = id THEN {} ELSE aware[o] \ {id}]
      /\ now' = now /\ cons' = cons
  BY DEF DeleteOperationalIntentReference
<1> HIDE DEF s, counted, informed, notified
<1>7. \A o \in OpIDs : ops'[o] # None =>
         /\ ops'[o] = ops[o]
         /\ RemovesImplicitSubscription(s) => ops[o].subscriptionID # s
  BY <1>6 DEF CascadeDelete, GetDependentOperationalIntents
<1>8. TypeOK'
  <2>1. subs' \in [SubIDs -> Subscription \cup {None}]
    BY <1>3, <1>5 DEF SubscriptionTable
  <2>2. told' \in [SubIDs -> [Entities -> Nat]]
    BY <1>4, <1>5, NothingType
  <2>3. ops' \in [OpIDs -> OperationalIntent \cup {None}]
    <3>1. \A o \in OpIDs : ops'[o] \in OperationalIntent \cup {None}
      BY <1>2, <1>7 DEF TypeOK
    <3> QED
      BY <1>6, <3>1
  <2>4. aware' \in [OpIDs -> SUBSET OpIDs]
    BY <1>2, <1>6 DEF TypeOK
  <2> QED
    BY <1>2, <1>6, <2>1, <2>2, <2>3, <2>4 DEF TypeOK
<1>9. DependentsCovered'
  <2> SUFFICES ASSUME NEW o \in OpIDs, ops'[o] # None
               PROVE  Supports(subs'[ops'[o].subscriptionID], ops'[o])
    BY DEF DependentsCovered
  <2> DEFINE x == ops'[o].subscriptionID
  <2>1. /\ ops'[o] = ops[o] /\ ops[o] \in OperationalIntent
        /\ x = ops[o].subscriptionID /\ x \in SubIDs
    BY <1>2, <1>7 DEF TypeOK, OperationalIntent
  <2>2. x \notin gone
    BY <1>7, <2>1
  <2>3. subs'[x] = counted[x]
    BY <1>5, <2>1, <2>2
  <2>4. Supports(subs[x], ops[o])
    BY <1>2, <2>1 DEF DependentsCovered
  <2>5. /\ subs[x] \in Subscription \cup {None}
        /\ counted[x] \in Subscription \cup {None}
        /\ Counted(counted[x], subs[x])
    BY <1>2, <1>3, <2>1 DEF TypeOK, SubscriptionTable
  <2> HIDE DEF x
  <2>6. Supports(counted[x], ops[o])
    BY <2>1, <2>4, <2>5, CountedSupports
  <2> QED
    BY <2>1, <2>3, <2>6 DEF x
<1>10. RowsKept
  <2>1. ASSUME RemovesImplicitSubscription(s)
        PROVE  GetDependentOperationalIntents(s) = {id} /\ subs[s].implicit
    <3>1. ops[id] # None
      BY DEF DeleteOperationalIntentReference
    <3>2. id \in GetDependentOperationalIntents(s)
      BY <3>1 DEF GetDependentOperationalIntents, s
    <3>3. IsFiniteSet(GetDependentOperationalIntents(s))
      BY TableAssumption, FS_Subset DEF GetDependentOperationalIntents
    <3>4. Cardinality(GetDependentOperationalIntents(s)) = 1 /\ subs[s].implicit
      BY <2>1 DEF RemovesImplicitSubscription
    <3> QED
      BY <3>2, <3>3, <3>4, FS_Singleton
  <2>2. \A o \in OpIDs : ops[o] # None /\ ops'[o] = None => o = id
    BY <1>6, <2>1 DEF CascadeDelete
  <2>3. ASSUME NEW x \in SubIDs, subs[x] # None, subs'[x] = None
        PROVE  \A o \in GetDependentOperationalIntents(x) :
                   subs[x].implicit /\ ops'[o] = None
    <3>1. counted[x] # None
      BY <1>3, <2>3 DEF Counted
    <3>2. x \in gone
      BY <1>5, <2>3, <3>1
    <3>3. x = s /\ RemovesImplicitSubscription(s)
      BY <3>2
    <3> QED
      BY <1>6, <2>1, <3>3
  <2>4. ASSUME NEW x \in SubIDs, subs[x] # None, subs'[x] # None
        PROVE  subs'[x].index >= subs[x].index
    <3>1. subs'[x] = counted[x]
      BY <1>5, <2>4
    <3>2. subs[x].index \in Nat
      BY <1>2, <2>4 DEF TypeOK, Subscription
    <3> QED
      BY <1>3, <2>4, <3>1, <3>2 DEF Counted
  <2> QED
    BY <2>2, <2>3, <2>4 DEF RowsKept, IndicesKept, NothingCascades
<1> QED
  BY <1>8, <1>9, <1>10 DEF IInv

\* Putting a constraint only counts notifications (constraints_handler.go:162-321)
LEMMA PutConstraintKeepsIInv ==
    ASSUME IInv, NEW m \in Managers, NEW id \in ConstraintIDs, NEW ovn,
           NEW ext \in Extents,
           PutConstraintReference(m, id, ovn, ext)
    PROVE  IInv' /\ RowsKept
<1> DEFINE constraint == [manager |-> m, version |-> NextVersion(cons[id]),
                          vol |-> ext, updatedAt |-> now]
<1>1. PICK hits \in SearchSubscriptions(subs, NotifyVolume(cons[id], ext)) :
         LET notified == {s \in hits : subs[s].forCons}
         IN  /\ subs' = IncrementNotificationIndices(subs, notified)
             /\ told' = NotifySubscribers(subs, notified, id, constraint)
  BY DEF PutConstraintReference
<1> DEFINE notified == {s \in hits : subs[s].forCons}
<1>2. TypeOK /\ DependentsCovered
  BY DEF IInv
<1>3. constraint \in Constraint
  <2>1. cons[id] # None => cons[id].version \in Nat
    BY <1>2 DEF TypeOK, Constraint
  <2>2. NextVersion(cons[id]) \in Nat
    BY <2>1 DEF NextVersion
  <2> QED
    BY <1>2, <2>2, ExtentsAssumption DEF TypeOK, Constraint
<1>4. /\ cons' = [cons EXCEPT ![id] = constraint]
      /\ now' = now /\ ops' = ops /\ aware' = aware
  BY DEF PutConstraintReference
<1>5. /\ subs' \in SubscriptionTable
      /\ \A s \in SubIDs : Counted(subs'[s], subs[s])
  <2>1. hits \subseteq {s \in SubIDs : subs[s] # None
                                      /\ Overlaps(subs[s], NotifyVolume(cons[id], ext))}
    BY LimitedIsSubset DEF SearchSubscriptions
  <2>2. notified \in SUBSET {s \in SubIDs : subs[s] # None}
    BY <2>1
  <2>3. subs \in SubscriptionTable
    BY <1>2 DEF TypeOK, SubscriptionTable
  <2> QED
    BY <1>1, <2>2, <2>3, IncrementCounts
<1>6. told' \in [SubIDs -> [Entities -> Nat]]
  <2>1. id \in Entities /\ constraint.version \in Nat
    BY <1>3 DEF Entities, Constraint
  <2>2. told' = NotifySubscribers(subs, notified, id, constraint)
    BY <1>1
  <2> HIDE DEF constraint, notified
  <2> QED
    BY <1>2, <2>1, <2>2, NotifyType DEF TypeOK
<1>7. TypeOK'
  <2> HIDE DEF constraint
  <2> QED
    BY <1>2, <1>3, <1>4, <1>5, <1>6 DEF TypeOK, SubscriptionTable
<1> QED
  BY <1>2, <1>4, <1>5, <1>7, CountingKeepsSupport, CountingKeepsRows DEF IInv

\* So does deleting one (constraints_handler.go:19-102)
LEMMA DeleteConstraintKeepsIInv ==
    ASSUME IInv, NEW m \in Managers, NEW id \in ConstraintIDs,
           DeleteConstraintReference(m, id)
    PROVE  IInv' /\ RowsKept
<1>1. PICK hits \in SearchSubscriptions(subs, cons[id].vol) :
         LET notified == {s \in hits : subs[s].forCons}
         IN  /\ subs' = IncrementNotificationIndices(subs, notified)
             /\ told' = NotifySubscribers(subs, notified, id, None)
  BY DEF DeleteConstraintReference
<1> DEFINE notified == {s \in hits : subs[s].forCons}
<1>2. TypeOK /\ DependentsCovered
  BY DEF IInv
<1>3. /\ cons' = [cons EXCEPT ![id] = None]
      /\ now' = now /\ ops' = ops /\ aware' = aware
  BY DEF DeleteConstraintReference
<1>4. /\ subs' \in SubscriptionTable
      /\ \A s \in SubIDs : Counted(subs'[s], subs[s])
  <2>1. hits \subseteq {s \in SubIDs : subs[s] # None /\ Overlaps(subs[s], cons[id].vol)}
    BY LimitedIsSubset DEF SearchSubscriptions
  <2>2. notified \in SUBSET {s \in SubIDs : subs[s] # None}
    BY <2>1
  <2>3. subs \in SubscriptionTable
    BY <1>2 DEF TypeOK, SubscriptionTable
  <2> QED
    BY <1>1, <2>2, <2>3, IncrementCounts
<1>5. told' \in [SubIDs -> [Entities -> Nat]]
  BY <1>1, <1>2, NotifyType DEF TypeOK, Entities
<1>6. TypeOK'
  BY <1>2, <1>3, <1>4, <1>5 DEF TypeOK, SubscriptionTable
<1> QED
  BY <1>2, <1>3, <1>4, <1>6, CountingKeepsSupport, CountingKeepsRows DEF IInv

\* The row that PutSubscription stores
LEMMA RequestedSubscriptionType ==
    ASSUME TypeOK, NEW m \in Managers, NEW s \in SubIDs, NEW req \in SubExtents,
           NEW forOps \in BOOLEAN, NEW forCons \in BOOLEAN
    PROVE  RequestedSubscription(m, subs[s], req, forOps, forCons) \in Subscription
<1>1. /\ req.cells \in SUBSET Cells
      /\ req.start \in Nat \cup {None}
      /\ req.end \in Nat \cup {None}
  BY ExtentsAssumption
<1>2. now \in Nat /\ MaxSubscriptionDuration \in Nat
  BY BoundsAssumption DEF TypeOK
<1>3. subs[s] # None => /\ subs[s].index \in Nat
                        /\ subs[s].start \in Nat
                        /\ subs[s].end \in Nat
  BY DEF TypeOK, Subscription
<1>4. AdjustedStart(subs[s], req) \in Nat
  BY <1>1, <1>2, <1>3 DEF AdjustedStart
<1>5. AdjustedEnd(subs[s], req) \in Nat
  BY <1>1, <1>2, <1>3, <1>4 DEF AdjustedEnd
<1> QED
  BY <1>1, <1>2, <1>3, <1>4, <1>5 DEF RequestedSubscription, Subscription

\* A rewritten subscription still supports all its dependents, which
\* ValidateDependentOps went through (subscriptions_handler.go:129-148)
LEMMA PutSubscriptionKeepsIInv ==
    ASSUME IInv, NEW m \in Managers, NEW s \in SubIDs, NEW version,
           NEW req \in SubExtents, NEW forOps \in BOOLEAN, NEW forCons \in BOOLEAN,
           PutSubscription(m, s, version, req, forOps, forCons)
    PROVE  IInv' /\ RowsKept
<1> DEFINE sub == RequestedSubscription(m, subs[s], req, forOps, forCons)
<1>1. PICK foundOps \in FindRelevantOperations(sub),
           foundCons \in FindRelevantConstraints(req) :
         told' = [told EXCEPT ![s] = PutSubscriptionResponse(sub, foundOps, foundCons)]
  BY DEF PutSubscription
<1>2. TypeOK /\ DependentsCovered
  BY DEF IInv
<1>3. /\ VersionMatches(m, s, subs[s], version)
      /\ subs[s] # None =>
             \A o \in GetDependentOperationalIntents(s) :
                 ValidateDependentOp(sub, req, ops[o])
      /\ subs' = [subs EXCEPT ![s] = sub]
      /\ now' = now /\ ops' = ops /\ cons' = cons /\ aware' = aware
  BY DEF PutSubscription
<1>4. sub \in Subscription
  BY <1>2, RequestedSubscriptionType
<1>5. sub.manager = m
  BY DEF RequestedSubscription
<1> HIDE DEF sub
<1>6. TypeOK'
  <2>1. foundOps \subseteq {o \in OpIDs : ops[o] # None}
    BY LimitedIsSubset DEF FindRelevantOperations
  <2>2. foundCons \subseteq {c \in ConstraintIDs : cons[c] # None}
    BY LimitedIsSubset DEF FindRelevantConstraints
  <2>3. \A e \in foundOps : RelevantVersion(sub, ops[e]) \in Nat
    BY <1>2, <2>1 DEF TypeOK, RelevantVersion, OperationalIntent
  <2>4. \A e \in foundCons : RelevantVersion(sub, cons[e]) \in Nat
    BY <1>2, <2>2 DEF TypeOK, RelevantVersion, Constraint
  <2>5. PutSubscriptionResponse(sub, foundOps, foundCons) \in [Entities -> Nat]
    BY <2>3, <2>4 DEF PutSubscriptionResponse
  <2>6. told' \in [SubIDs -> [Entities -> Nat]]
    BY <1>1, <1>2, <2>5 DEF TypeOK
  <2>7. subs' \in [SubIDs -> Subscription \cup {None}]
    BY <1>2, <1>3, <1>4 DEF TypeOK
  <2> QED
    BY <1>2, <1>3, <2>6, <2>7 DEF TypeOK
<1>7. DependentsCovered'
  <2> SUFFICES ASSUME NEW o \in OpIDs, ops[o] # None
               PROVE  Supports(subs'[ops[o].subscriptionID], ops[o])
    BY <1>3 DEF DependentsCovered
  <2>1. /\ Supports(subs[ops[o].subscriptionID], ops[o])
        /\ ops[o] \in OperationalIntent
        /\ ops[o].subscriptionID \in SubIDs
    BY <1>2 DEF DependentsCovered, TypeOK, OperationalIntent
  <2>2. CASE ops[o].subscriptionID # s
    BY <1>2, <1>3, <2>1, <2>2 DEF TypeOK
  <2>3. CASE ops[o].subscriptionID = s
    <3>1. subs'[s] = sub /\ subs[s] # None
      BY <1>2, <1>3, <2>1, <2>3 DEF TypeOK, Supports
    <3>2. ValidateDependentOp(sub, req, ops[o])
      BY <1>3, <2>3, <3>1 DEF GetDependentOperationalIntents
    <3>3. sub.manager = ops[o].manager
      BY <1>3, <1>5, <2>1, <2>3, <3>1 DEF VersionMatches, Supports
    <3>4. /\ sub.start \in Nat /\ ops[o].vol.start \in Nat
          /\ MaxStartGap \in Nat
      BY <1>4, <2>1, BoundsAssumption DEF Subscription, OperationalIntent, Volume4D
    <3>5. sub.start <= ops[o].vol.start + MaxStartGap
      BY <3>2, <3>4 DEF ValidateDependentOp
    <3> QED
      BY <1>4, <2>3, <3>1, <3>2, <3>3, <3>5, NamesAssumption
      DEF Supports, ValidateDependentOp
  <2> QED
    BY <2>2, <2>3
<1>8. RowsKept
  <2>1. subs[s] # None => sub.index = subs[s].index
    BY DEF RequestedSubscription, sub
  <2>2. \A x \in SubIDs : subs[x] # None => subs'[x] # None /\ subs'[x].index = subs[x].index
    BY <1>2, <1>3, <1>4, <2>1, NamesAssumption DEF TypeOK
  <2>3. \A x \in SubIDs : subs[x] # None => subs[x].index \in Nat
    BY <1>2 DEF TypeOK, Subscription
  <2> QED
    BY <1>3, <2>2, <2>3 DEF RowsKept, IndicesKept, NothingCascades
<1> QED
  BY <1>6, <1>7, <1>8 DEF IInv

\* A subscription with dependents is not deleted (subscriptions_handler.go:346-411)
LEMMA DeleteSubscriptionKeepsIInv ==
    ASSUME IInv, NEW m \in Managers, NEW s \in SubIDs, DeleteSubscription(m, s)
    PROVE  IInv' /\ RowsKept
<1>1. TypeOK /\ DependentsCovered
  BY DEF IInv
<1>2. /\ GetDependentOperationalIntents(s) = {}
      /\ subs' = [subs EXCEPT ![s] = None]
      /\ told' = [told EXCEPT ![s] = Nothing]
      /\ ops' = CascadeDelete(s)
      /\ now' = now /\ cons' = cons /\ aware' = aware
  BY DEF DeleteSubscription
<1>3. ops' = ops
  BY <1>1, <1>2 DEF CascadeDelete, TypeOK
<1>4. TypeOK'
  BY <1>1, <1>2, <1>3, NothingType DEF TypeOK
<1>5. DependentsCovered'
  <2> SUFFICES ASSUME NEW o \in OpIDs, ops[o] # None
               PROVE  Supports(subs'[ops[o].subscriptionID], ops[o])
    BY <1>3 DEF DependentsCovered
  <2>1. ops[o].subscriptionID \in SubIDs \ {s}
    BY <1>1, <1>2 DEF GetDependentOperationalIntents, TypeOK, OperationalIntent
  <2> QED
    BY <1>1, <1>2, <2>1 DEF DependentsCovered, TypeOK
<1>6. RowsKept
  <2>1. \A x \in SubIDs : x # s => subs'[x] = subs[x]
    BY <1>1, <1>2 DEF TypeOK
  <2>2. \A x \in SubIDs : subs[x] # None => subs[x].index \in Nat
    BY <1>1 DEF TypeOK, Subscription
  <2>3. subs'[s] = None
    BY <1>1, <1>2 DEF TypeOK
  <2> QED
    BY <1>2, <1>3, <2>1, <2>2, <2>3 DEF RowsKept, IndicesKept, NothingCascades
<1> QED
  BY <1>4, <1>5, <1>6 DEF IInv

\* The empty tables satisfy the inductive invariant
LEMMA InitIInv == Init => IInv
<1> SUFFICES ASSUME Init PROVE IInv
  OBVIOUS
<1>1. TypeOK
  BY NothingType DEF Init, TypeOK
<1>2. DependentsCovered
  BY DEF Init, DependentsCovered
<1> QED
  BY <1>1, <1>2 DEF IInv

\* Every handler of pkg/scd keeps the inductive invariant and the rows that
\* others rely on
LEMMA NextIInv == IInv /\ [Next]_vars => IInv' /\ RowsKept
<1> SUFFICES ASSUME IInv, [Next]_vars
             PROVE  IInv' /\ RowsKept
  OBVIOUS
<1>1. \A trigger \in Triggers : trigger[1] \in BOOLEAN /\ trigger[2] \in BOOLEAN
  BY ExtentsAssumption
<1>2. CASE PutAnyOperationalIntent
  BY <1>1, <1>2, PutOperationalIntentKeepsIInv DEF PutAnyOperationalIntent
<1>3. CASE DeleteAnyOperationalIntent
  BY <1>3, DeleteOperationalIntentKeepsIInv DEF DeleteAnyOperationalIntent
<1>4. CASE PutAnyConstraint
  BY <1>4, PutConstraintKeepsIInv DEF PutAnyConstraint
<1>5. CASE DeleteAnyConstraint
  BY <1>5, DeleteConstraintKeepsIInv DEF DeleteAnyConstraint
<1>6. CASE PutAnySubscription
  BY <1>1, <1>6, PutSubscriptionKeepsIInv DEF PutAnySubscription
<1>7. CASE DeleteAnySubscription
  BY <1>7, DeleteSubscriptionKeepsIInv DEF DeleteAnySubscription
<1>8. UNCHANGED <<ops, subs>> => RowsKept
  <2>1. \A s \in SubIDs : subs[s] # None => subs[s].index \in Nat
    BY DEF IInv, TypeOK, Subscription
  <2> QED
    BY <2>1 DEF RowsKept, IndicesKept, NothingCascades
<1>9. CASE Tick
  BY <1>8, <1>9 DEF Tick, IInv, TypeOK, DependentsCovered
<1>10. CASE UNCHANGED vars
  BY <1>8, <1>10 DEF vars, IInv, TypeOK, DependentsCovered
<1> QED
  BY <1>2, <1>3, <1>4, <1>5, <1>6, <1>7, <1>9, <1>10 DEF Next

-----------------------------------------------------------------------------
(***************************************************************************)
(* The types of the tables, and of what clients have been told, are kept   *)
(* by every handler (pkg/scd).                                             *)
(***************************************************************************)
THEOREM TypeCorrect == Spec => []TypeOK
BY InitIInv, NextIInv, PTL DEF Spec, IInv

(***************************************************************************)
(* Whatever requests come in whatever order, every stored operational      *)
(* intent keeps a subscription of its own manager that covers its area     *)
(* and lasts until its end (operational_intents_handler.go:380-424,        *)
(* scd/models/subscriptions.go:124-166).                                   *)
(***************************************************************************)
THEOREM DependentsAlwaysCovered == Spec => []DependentsCovered
BY InitIInv, NextIInv, PTL DEF Spec, IInv

(***************************************************************************)
(* As long as a subscription exists its notification index never goes      *)
(* back (subscriptions_handler.go:129, subscriptions.go:341-384).          *)
(***************************************************************************)
THEOREM IndexNeverDecreases == Spec => NotificationIndexNeverDecreases
BY InitIInv, NextIInv, PTL
DEF Spec, RowsKept, IndicesKept, NotificationIndexNeverDecreases

(***************************************************************************)
(* The foreign key's ON DELETE CASCADE never removes an operational intent *)
(* (operational_intents_handler.go:61-73, subscriptions_handler.go:374-388)*)
(***************************************************************************)
THEOREM NothingEverCascades == Spec => NoCascadingDelete
BY InitIInv, NextIInv, PTL
DEF Spec, RowsKept, NothingCascades, NoCascadingDelete

-----------------------------------------------------------------------------
(***************************************************************************)
(* Deconfliction, as long as no search is cut off by its LIMIT.  With the  *)
(* types it is inductive: a put proves all that overlaps what it writes to *)
(* be known, and takes from the others' awareness only what it writes.     *)
(***************************************************************************)

NothingCutOff == Cardinality(OpIDs) <= MaxResultLimit

\* A search then returns every row that matches (the LIMIT of
\* operational_intents.go:252-312 is pkg/models/models.go:37-38)
LEMMA SearchIsComplete ==
    ASSUME NEW T, IsFiniteSet(T), Cardinality(T) <= MaxResultLimit, NEW S \in SUBSET T
    PROVE  Limited(S) = {S}
<1>1. Cardinality(S) <= Cardinality(T) /\ IsFiniteSet(S)
  BY FS_Subset
<1>2. Cardinality(S) \in Nat /\ Cardinality(T) \in Nat
  BY <1>1, FS_CardinalityType
<1>3. Cardinality(S) <= MaxResultLimit
  BY <1>1, <1>2, LimitAssumption
<1> QED
  BY <1>3 DEF Limited

\* The conditions of the search (operational_intents.go:252-312) are symmetric:
\* of two rows either finds the other
LEMMA Overlaps4DSymmetric ==
    ASSUME NEW v \in Volume4D, NEW w \in Volume4D, Overlaps4D(v, w)
    PROVE  Overlaps4D(w, v)
<1>1. /\ v.start \in Nat /\ v.end \in Nat /\ v.altLo \in Int /\ v.altHi \in Int
      /\ w.start \in Nat /\ w.end \in Nat /\ w.altLo \in Int /\ w.altHi \in Int
  BY DEF Volume4D
<1>2. CellsOverlap(w, v)
  BY DEF Overlaps4D, CellsOverlap
<1>3. TimesOverlap(w, v) /\ AltitudesOverlap(w, v)
  BY <1>1 DEF Overlaps4D, TimesOverlap, AltitudesOverlap
<1> QED
  BY <1>2, <1>3 DEF Overlaps4D

\* The key check covers all that overlaps the volume being put, and only what is
\* put stops being known to others (operational_intents_handler.go:426-474)
LEMMA PutOperationalIntentDeconflicts ==
    ASSUME NothingCutOff, TypeOK, TypeOK', Deconflicted,
           NEW m \in Managers, NEW id \in OpIDs, NEW state \in RequestStates,
           NEW ext \in Extents, NEW subID \in SubIDs \cup {None},
           NEW forCons \in BOOLEAN, NEW key, NEW ovn,
           PutOperationalIntentReference(m, id, ovn, state, ext, subID, forCons, key)
    PROVE  Deconflicted'
<1> DEFINE overlapping == {o \in OpIDs : ops[o] # None /\ Overlaps4D(ops[o].vol, ext)}
<1>1. PICK support \in SupportingSubscriptions(m, ext, subID, forCons),
           found \in SearchOperationalIntents(ext) :
         LET op == [manager |-> m, version |-> NextVersion(ops[id]),
                    state |-> state, vol |-> ext,
                    subscriptionID |-> support.id, updatedAt |-> now]
         IN  /\ RequiresKey(state) => MissingOperationalIntents(found, key) = {}
             /\ ops' = [ops EXCEPT ![id] = op]
             /\ aware' = [o \in OpIDs |->
                             IF o # id THEN aware[o] \ {id}
                             ELSE IF ~RequiresKey(state) THEN {}
                             ELSE {x \in found \ {id} : OVN(x, ops[x]) \in key}]
  BY DEF PutOperationalIntentReference
<1>2. found = overlapping
  <2>1. Limited(overlapping) = {overlapping}
    BY SearchIsComplete, TableAssumption DEF NothingCutOff
  <2> QED
    BY <2>1 DEF SearchOperationalIntents
<1>3. /\ ops'[id].state = state
      /\ ops'[id].vol = ext
      /\ \A o \in OpIDs \ {id} : ops'[o] = ops[o]
      /\ \A o \in OpIDs \ {id} : aware'[o] = aware[o] \ {id}
  BY <1>1 DEF TypeOK
<1>4. ASSUME RequiresKey(state)
      PROVE  overlapping \ {id} \subseteq aware'[id]
  BY <1>1, <1>2, <1>4 DEF MissingOperationalIntents
<1> SUFFICES ASSUME NEW x \in OpIDs, NEW y \in OpIDs, x # y,
                    ops'[x] # None, RequiresKey(ops'[x].state),
                    ops'[y] # None, RequiresKey(ops'[y].state),
                    Overlaps4D(ops'[x].vol, ops'[y].vol)
             PROVE  y \in aware'[x] \/ x \in aware'[y]
  BY DEF Deconflicted
<1>5. ops'[x].vol \in Volume4D /\ ops'[y].vol \in Volume4D
  BY DEF TypeOK, OperationalIntent
<1>6. CASE x = id
  <2>1. Overlaps4D(ops[y].vol, ext) /\ ops[y] # None
    BY <1>3, <1>5, <1>6, Overlaps4DSymmetric
  <2> QED
    BY <1>3, <1>4, <1>6, <2>1
<1>7. CASE y = id
  <2>1. Overlaps4D(ops[x].vol, ext) /\ ops[x] # None
    BY <1>3, <1>7
  <2> QED
    BY <1>3, <1>4, <1>7, <2>1
<1>8. CASE x # id /\ y # id
  <2>1. y \in aware[x] \/ x \in aware[y]
    BY <1>3, <1>8 DEF Deconflicted
  <2> QED
    BY <1>3, <1>8, <2>1
<1> QED
  BY <1>6, <1>7, <1>8

\* What is deleted is forgotten, nothing else (operational_intents_handler.go:22-137)
LEMMA DeleteOperationalIntentDeconflicts ==
    ASSUME TypeOK, Deconflicted, NEW m \in Managers, NEW id \in OpIDs,
           DeleteOperationalIntentReference(m, id)
    PROVE  Deconflicted'
<1>1. \A o \in OpIDs : ops'[o] # None => o # id /\ ops'[o] = ops[o]
  BY DEF DeleteOperationalIntentReference, CascadeDelete
<1>2. \A o \in OpIDs \ {id} : aware'[o] = aware[o] \ {id}
  BY DEF DeleteOperationalIntentReference
<1> QED
  BY <1>1, <1>2 DEF Deconflicted

\* Every handler of pkg/scd keeps Deconflicted
LEMMA NextDeconflicted ==
    ASSUME NothingCutOff, TypeOK, TypeOK', Deconflicted, [Next]_vars
    PROVE  Deconflicted'
<1>1. CASE PutAnyOperationalIntent
  <2>1. \A trigger \in Triggers : trigger[2] \in BOOLEAN
    BY ExtentsAssumption
  <2> QED
    BY <1>1, <2>1, PutOperationalIntentDeconflicts DEF PutAnyOperationalIntent
<1>2. CASE DeleteAnyOperationalIntent
  BY <1>2, DeleteOperationalIntentDeconflicts DEF DeleteAnyOperationalIntent
<1>3. CASE DeleteAnySubscription
  <2>1. \A o \in OpIDs : ops'[o] # None => ops'[o] = ops[o]
    BY <1>3 DEF DeleteAnySubscription, DeleteSubscription, CascadeDelete
  <2>2. aware' = aware
    BY <1>3 DEF DeleteAnySubscription, DeleteSubscription
  <2> QED
    BY <2>1, <2>2 DEF Deconflicted
<1>4. CASE UNCHANGED <<ops, aware>>
  BY <1>4 DEF Deconflicted
<1>5. CASE PutAnyConstraint
  BY <1>4, <1>5 DEF PutAnyConstraint, PutConstraintReference
<1>6. CASE DeleteAnyConstraint
  BY <1>4, <1>6 DEF DeleteAnyConstraint, DeleteConstraintReference
<1>7. CASE PutAnySubscription
  BY <1>4, <1>7 DEF PutAnySubscription, PutSubscription
<1>8. CASE Tick
  BY <1>4, <1>8 DEF Tick
<1>9. CASE UNCHANGED vars
  BY <1>4, <1>9 DEF vars
<1> QED
  BY <1>1, <1>2, <1>3, <1>5, <1>6, <1>7, <1>8, <1>9 DEF Next

(***************************************************************************)
(* Of two planned or active operational intents that overlap, one was      *)
(* written with a key that proved the other's present version known, if no *)
(* more of them exist than a search returns                                *)
(* (operational_intents_handler.go:426-474, pkg/models/models.go:37-38).   *)
(***************************************************************************)
THEOREM AlwaysDeconflicted ==
    ASSUME NothingCutOff
    PROVE  Spec => []Deconflicted
<1>1. Init => Deconflicted
  BY DEF Init, Deconflicted
<1>2. TypeOK /\ TypeOK' /\ Deconflicted /\ [Next]_vars => Deconflicted'
  BY NextDeconflicted
<1> QED
  BY <1>1, <1>2, TypeCorrect, PTL DEF Spec

-----------------------------------------------------------------------------
(***************************************************************************)
(* Notifications, as long as no search is cut off by its LIMIT.  With the  *)
(* types, what subscribers know is inductive: a write notifies all that    *)
(* the entity was, or comes to be, relevant to.                            *)
(***************************************************************************)

NoTableCutOff ==
    /\ Cardinality(OpIDs) <= MaxResultLimit
    /\ Cardinality(ConstraintIDs) <= MaxResultLimit
    /\ Cardinality(SubIDs) <= MaxResultLimit

\* What a subscription asks for
SameInterest(new, old) ==
    /\ new.cells = old.cells /\ new.start = old.start /\ new.end = old.end
    /\ new.forOps = old.forOps /\ new.forCons = old.forCons /\ new.implicit = old.implicit

Wants(sub, e) == IF e \in OpIDs THEN sub.forOps ELSE sub.forCons

RowOf(o, c, e) == IF e \in OpIDs THEN o[e] ELSE c[e]

\* The subscriptions that are told of a write of e that affects volume v
ToNotify(table, v, e) ==
    {s \in SubIDs : table[s] # None /\ Overlaps(table[s], v) /\ Wants(table[s], e)}

\* The affected volume overlaps all that the old and the new volume overlap
\* (pkg/models/geo.go UnionVolumes4D)
LEMMA NotifyVolumeCovers ==
    ASSUME NEW old, old # None => old.vol \in Volume4D, NEW ext \in Volume4D,
           NEW sub \in Subscription,
           Overlaps(sub, ext) \/ (old # None /\ Overlaps(sub, old.vol))
    PROVE  Overlaps(sub, NotifyVolume(old, ext))
<1>1. CASE old = None
  BY <1>1 DEF NotifyVolume
<1>2. CASE old # None
  <2> DEFINE v == old.vol
             w == UnionVolumes4D(ext, v)
  <2>1. /\ sub.start \in Nat /\ sub.end \in Nat /\ ext.start \in Nat /\ ext.end \in Nat
        /\ v.start \in Nat /\ v.end \in Nat
    BY <1>2 DEF Subscription, Volume4D
  <2>2. w.cells = ext.cells \cup v.cells /\ w.start = Lower(ext.start, v.start)
        /\ w.end = Upper(ext.end, v.end)
    BY DEF UnionVolumes4D
  <2>3. NotifyVolume(old, ext) = w
    BY <1>2 DEF NotifyVolume
  <2>4. CellsOverlap(sub, ext) \/ CellsOverlap(sub, v) => CellsOverlap(sub, w)
    BY <2>2 DEF CellsOverlap
  <2> HIDE DEF w, v
  <2>5. TimesOverlap(sub, ext) \/ TimesOverlap(sub, v) => TimesOverlap(sub, w)
    BY <2>1, <2>2 DEF TimesOverlap, Lower, Upper
  <2>6. Overlaps(sub, ext) \/ Overlaps(sub, v)
    BY <1>2 DEF v
  <2> QED
    BY <2>3, <2>4, <2>5, <2>6 DEF Overlaps
<1> QED
  BY <1>1, <1>2

\* Overlapping in time and altitude is symmetric
LEMMA OverlapsSymmetric ==
    ASSUME NEW sub \in Subscription, NEW v \in Volume4D
    PROVE  Overlaps(sub, v) <=> Overlaps(v, sub)
<1>1. sub.start \in Nat /\ sub.end \in Nat /\ v.start \in Nat /\ v.end \in Nat
  BY DEF Subscription, Volume4D
<1>2. CellsOverlap(sub, v) <=> CellsOverlap(v, sub)
  BY DEF CellsOverlap
<1>3. TimesOverlap(sub, v) <=> TimesOverlap(v, sub)
  BY <1>1 DEF TimesOverlap
<1> QED
  BY <1>2, <1>3 DEF Overlaps

\* Operational intents and constraints are entities with rows of their own
LEMMA RowFacts ==
    /\ \A o \in OpIDs : o \in Entities /\ RowOf(ops, cons, o) = ops[o]
    /\ \A c \in ConstraintIDs : c \in Entities /\ c \notin OpIDs /\ RowOf(ops, cons, c) = cons[c]
    /\ \A sub, e : DuePicture(sub, e) = IF Wants(sub, e) THEN RelevantVersion(sub, RowOf(ops, cons, e)) ELSE 0
  BY NamesAssumption DEF RowOf, Entities, DuePicture, Wants

\* A write of e, from the row old to row, that tells all subscriptions that
\* overlap v leaves no explicit subscription with an old picture
LEMMA WriteInforms ==
    ASSUME SubscribersInformed, told \in [SubIDs -> [Entities -> Nat]],
           NEW e \in Entities, NEW row, NEW table, NEW v, NEW notified,
           notified = ToNotify(table, v, e), RowOf(ops', cons', e) = row,
           \A d \in Entities : d # e => RowOf(ops', cons', d) = RowOf(ops, cons, d),
           \A s \in SubIDs : subs'[s] # None /\ ~subs'[s].implicit =>
               /\ subs[s] # None /\ table[s] # None
               /\ SameInterest(subs'[s], table[s]) /\ SameInterest(table[s], subs[s])
               /\ told'[s] = NotifySubscribers(table, notified, e, row)[s]
               /\ row # None /\ Overlaps(table[s], row.vol) => Overlaps(table[s], v)
               /\ RowOf(ops, cons, e) # None /\ Overlaps(table[s], RowOf(ops, cons, e).vol)
                      => Overlaps(table[s], v)
    PROVE  SubscribersInformed'
<1> SUFFICES ASSUME NEW s \in SubIDs, subs'[s] # None, ~subs'[s].implicit,
                    NEW d \in Entities
             PROVE  told'[s][d] = DuePicture(subs[s], d)'
  BY DEF SubscribersInformed
<1>1. /\ subs[s] # None /\ table[s] # None /\ ~subs[s].implicit
      /\ SameInterest(subs'[s], table[s]) /\ SameInterest(table[s], subs[s])
      /\ told'[s] = NotifySubscribers(table, notified, e, row)[s]
  BY DEF SameInterest
<1>2. \A r : /\ RelevantVersion(subs'[s], r) = RelevantVersion(table[s], r)
             /\ RelevantVersion(subs[s], r) = RelevantVersion(table[s], r)
  BY <1>1 DEF RelevantVersion, SameInterest, Overlaps, CellsOverlap, TimesOverlap
<1>3. \A x : Wants(subs'[s], x) = Wants(table[s], x) /\ Wants(subs[s], x) = Wants(table[s], x)
  BY <1>1 DEF SameInterest, Wants
<1>4. told[s][d] = IF Wants(table[s], d) THEN RelevantVersion(table[s], RowOf(ops, cons, d)) ELSE 0
  BY <1>1, <1>2, <1>3, RowFacts DEF SubscribersInformed
<1>5. DuePicture(subs[s], d)' = IF Wants(table[s], d) THEN RelevantVersion(table[s], RowOf(ops', cons', d)) ELSE 0
  <2>1. DuePicture(subs[s], d)'
            = IF Wants(subs'[s], d) THEN RelevantVersion(subs'[s], RowOf(ops', cons', d)) ELSE 0
    BY DEF DuePicture, Wants, RowOf
  <2> QED
    BY <1>2, <1>3, <2>1
<1>6. told'[s] = IF s \in notified THEN [told[s] EXCEPT ![e] = RelevantVersion(table[s], row)]
                 ELSE told[s]
  BY <1>1 DEF NotifySubscribers
<1>7. told[s] \in [Entities -> Nat]
  OBVIOUS
<1>8. CASE d # e
  <2>1. told'[s][d] = told[s][d] /\ RowOf(ops', cons', d) = RowOf(ops, cons, d)
    BY <1>6, <1>7, <1>8
  <2> QED
    BY <1>4, <1>5, <2>1
<1>9. CASE d = e /\ s \in notified
  <2>1. Wants(table[s], e) /\ told'[s][e] = RelevantVersion(table[s], row)
    BY <1>6, <1>7, <1>9 DEF ToNotify
  <2> QED
    BY <1>5, <1>9, <2>1
<1>10. CASE d = e /\ s \notin notified
  <2>1. told'[s][e] = told[s][e]
    BY <1>6, <1>10
  <2>2. CASE ~Wants(table[s], e)
    BY <1>4, <1>5, <1>10, <2>1, <2>2
  <2>3. CASE Wants(table[s], e)
    <3>1. ~Overlaps(table[s], v)
      BY <1>1, <1>10, <2>3 DEF ToNotify
    <3>2. RelevantVersion(table[s], row) = 0 /\ RelevantVersion(table[s], RowOf(ops, cons, e)) = 0
      BY <3>1, <1>1 DEF RelevantVersion
    <3> QED
      BY <1>4, <1>5, <1>10, <2>1, <3>2
  <2> QED
    BY <2>2, <2>3
<1> QED
  BY <1>8, <1>9, <1>10

\* A put of an operational intent changes no explicit subscription
LEMMA SupportKeepsExplicit ==
    ASSUME TypeOK, NEW m, NEW ext, NEW subID, NEW forCons,
           Requested(m, ext, subID, forCons),
           NEW support \in SupportingSubscriptions(m, ext, subID, forCons),
           ~support.sub.implicit
    PROVE  subs[support.id] # None /\ support.sub = subs[support.id]
<1>1. subID # None
  BY DEF SupportingSubscriptions, NewImplicitSubscription
<1>2. PICK contains \in BOOLEAN :
         /\ support = [id |-> subID,
                       sub |-> ExtendedSubscription(subs[subID], ext, contains)]
         /\ subs[subID] # None
         /\ \/ subs[subID].implicit
            \/ subs[subID].start <= ext.start /\ subs[subID].end >= ext.end /\ contains
  BY <1>1 DEF SupportingSubscriptions
<1>3. ~subs[subID].implicit
  BY <1>2 DEF ExtendedSubscription
<1> QED
  BY <1>2, <1>3 DEF ExtendedSubscription

\* The subscriptions that a complete search finds and that want to know
LEMMA FoundAreNotified ==
    ASSUME NoTableCutOff, NEW table, NEW v, NEW hits \in SearchSubscriptions(table, v)
    PROVE  /\ \A o \in OpIDs : {s \in hits : table[s].forOps} = ToNotify(table, v, o)
           /\ \A c \in ConstraintIDs : {s \in hits : table[s].forCons} = ToNotify(table, v, c)
<1> DEFINE overlapping == {s \in SubIDs : table[s] # None /\ Overlaps(table[s], v)}
<1>1. Limited(overlapping) = {overlapping}
  BY SearchIsComplete, TableAssumption DEF NoTableCutOff
<1>2. hits = overlapping
  BY <1>1 DEF SearchSubscriptions
<1>3. ConstraintIDs \cap OpIDs = {}
  BY NamesAssumption
<1> QED
  BY <1>2, <1>3 DEF ToNotify, Wants

\* What a row that is counted once more asks for is what it asked for
LEMMA CountedAsksTheSame ==
    ASSUME NEW new, NEW old, Counted(new, old), new # None
    PROVE  old # None /\ SameInterest(new, old)
  BY DEF Counted, SameInterest

\* Rows have volumes (pkg/scd/models)
LEMMA RowType ==
    ASSUME TypeOK, NEW e \in Entities, RowOf(ops, cons, e) # None
    PROVE  RowOf(ops, cons, e).vol \in Volume4D /\ RowOf(ops, cons, e).version \in Nat
<1>1. CASE e \in OpIDs
  BY <1>1 DEF TypeOK, RowOf, OperationalIntent
<1>2. CASE e \in ConstraintIDs /\ e \notin OpIDs
  BY <1>2 DEF TypeOK, RowOf, Constraint
<1> QED
  BY <1>1, <1>2 DEF Entities

\* A put of an operational intent tells all subscriptions that the old or the new
\* volume is relevant to (operational_intents_handler.go:498-542)
LEMMA PutOperationalIntentInforms ==
    ASSUME NoTableCutOff, TypeOK, SubscribersInformed,
           NEW m \in Managers, NEW id \in OpIDs, NEW state \in RequestStates,
           NEW ext \in Extents, NEW subID \in SubIDs \cup {None},
           NEW forCons \in BOOLEAN, NEW key, NEW ovn,
           PutOperationalIntentReference(m, id, ovn, state, ext, subID, forCons, key)
    PROVE  SubscribersInformed'
<1>1. PICK support \in SupportingSubscriptions(m, ext, subID, forCons) :
         LET op == [manager |-> m, version |-> NextVersion(ops[id]),
                    state |-> state, vol |-> ext,
                    subscriptionID |-> support.id, updatedAt |-> now]
             stored == [subs EXCEPT ![support.id] = support.sub]
         IN  /\ \E hits \in SearchSubscriptions(stored, NotifyVolume(ops[id], ext)) :
                  LET notified == {s \in hits : stored[s].forOps}
                  IN  /\ subs' = IncrementNotificationIndices(stored, notified)
                      /\ told' = NotifySubscribers(stored, notified, id, op)
             /\ ops' = [ops EXCEPT ![id] = op]
  BY DEF PutOperationalIntentReference
<1> DEFINE op == [manager |-> m, version |-> NextVersion(ops[id]),
                  state |-> state, vol |-> ext,
                  subscriptionID |-> support.id, updatedAt |-> now]
           stored == [subs EXCEPT ![support.id] = support.sub]
           v == NotifyVolume(ops[id], ext)
<1>2. PICK hits \in SearchSubscriptions(stored, v) :
         /\ subs' = IncrementNotificationIndices(stored, {s \in hits : stored[s].forOps})
         /\ told' = NotifySubscribers(stored, {s \in hits : stored[s].forOps}, id, op)
  BY <1>1
<1>3. Requested(m, ext, subID, forCons) /\ ext \in Volume4D
  BY ExtentsAssumption DEF Requested
<1>4. support.id \in SubIDs /\ support.sub \in Subscription
  BY <1>3, SupportSupports
<1>5. stored \in SubscriptionTable
  BY <1>4 DEF TypeOK, SubscriptionTable
<1>6. \A s \in SubIDs : stored[s] # None /\ ~stored[s].implicit =>
          subs[s] # None /\ stored[s] = subs[s]
  BY <1>3, <1>4, SupportKeepsExplicit DEF TypeOK
<1>7. op.vol = ext /\ ops' = [ops EXCEPT ![id] = op] /\ cons' = cons
  BY <1>1 DEF PutOperationalIntentReference
<1>8. RowOf(ops', cons', id) = op /\ RowOf(ops, cons, id) = ops[id] /\ id \in Entities
  BY <1>7, RowFacts DEF RowOf, TypeOK
<1>9. \A d \in Entities : d # id => RowOf(ops', cons', d) = RowOf(ops, cons, d)
  BY <1>7 DEF RowOf, TypeOK
<1> HIDE DEF op, stored, v
<1>10. {s \in hits : stored[s].forOps} = ToNotify(stored, v, id)
  BY FoundAreNotified
<1>11. \A s \in SubIDs : Counted(subs'[s], stored[s])
  <2>1. ToNotify(stored, v, id) \in SUBSET {s \in SubIDs : stored[s] # None}
    BY DEF ToNotify
  <2> QED
    BY <1>2, <1>5, <1>10, <2>1, IncrementCounts
<1>12. ASSUME NEW s \in SubIDs, subs'[s] # None, ~subs'[s].implicit
       PROVE  /\ subs[s] # None /\ stored[s] # None
              /\ SameInterest(subs'[s], stored[s]) /\ SameInterest(stored[s], subs[s])
              /\ told'[s] = NotifySubscribers(stored, ToNotify(stored, v, id), id, op)[s]
              /\ op # None /\ Overlaps(stored[s], op.vol) => Overlaps(stored[s], v)
              /\ RowOf(ops, cons, id) # None /\ Overlaps(stored[s], RowOf(ops, cons, id).vol) => Overlaps(stored[s], v)
  <2>1. stored[s] # None /\ SameInterest(subs'[s], stored[s]) /\ ~stored[s].implicit
    BY <1>11, <1>12, CountedAsksTheSame DEF SameInterest
  <2>2. subs[s] # None /\ stored[s] = subs[s] /\ stored[s] \in Subscription
    BY <1>5, <1>6, <2>1 DEF SubscriptionTable
  <2>3. ops[id] # None => ops[id].vol \in Volume4D
    BY DEF TypeOK, OperationalIntent
  <2>4. Overlaps(stored[s], ext) \/ (ops[id] # None /\ Overlaps(stored[s], ops[id].vol))
            => Overlaps(stored[s], v)
    BY <1>3, <2>2, <2>3, NotifyVolumeCovers DEF v
  <2> QED
    BY <1>2, <1>7, <1>8, <1>10, <2>1, <2>2, <2>4 DEF SameInterest
<1> DEFINE notified == ToNotify(stored, v, id)
<1>13. notified = ToNotify(stored, v, id)
  OBVIOUS
<1> HIDE DEF notified
<1> QED
  BY <1>8, <1>9, <1>12, <1>13, WriteInforms DEF TypeOK

\* A step that counts and tells the subscriptions that overlap v, and writes e
LEMMA CountAndTellInforms ==
    ASSUME TypeOK, SubscribersInformed, NEW e \in Entities, NEW row, NEW v, NEW notified,
           notified = ToNotify(subs, v, e), RowOf(ops', cons', e) = row,
           \A d \in Entities : d # e => RowOf(ops', cons', d) = RowOf(ops, cons, d),
           \A s \in SubIDs : subs'[s] # None =>
               /\ subs'[s] = IncrementNotificationIndices(subs, notified)[s]
               /\ told'[s] = NotifySubscribers(subs, notified, e, row)[s],
           \A s \in SubIDs : subs[s] # None =>
               /\ row # None /\ Overlaps(subs[s], row.vol) => Overlaps(subs[s], v)
               /\ RowOf(ops, cons, e) # None /\ Overlaps(subs[s], RowOf(ops, cons, e).vol)
                      => Overlaps(subs[s], v)
    PROVE  SubscribersInformed'
<1>1. subs \in SubscriptionTable /\ notified \in SUBSET {s \in SubIDs : subs[s] # None}
  BY DEF TypeOK, SubscriptionTable, ToNotify
<1>2. \A s \in SubIDs : Counted(IncrementNotificationIndices(subs, notified)[s], subs[s])
  BY <1>1, IncrementCounts
<1>3. \A s \in SubIDs : subs'[s] # None =>
         /\ subs[s] # None /\ SameInterest(subs'[s], subs[s]) /\ SameInterest(subs[s], subs[s])
  BY <1>2, CountedAsksTheSame DEF SameInterest
<1> QED
  BY <1>3, WriteInforms DEF TypeOK

\* A deletion tells every subscriber it should
LEMMA DeleteOperationalIntentInforms ==
    ASSUME NoTableCutOff, TypeOK, RowsKept, SubscribersInformed,
           NEW m \in Managers, NEW id \in OpIDs, DeleteOperationalIntentReference(m, id)
    PROVE  SubscribersInformed'
<1> DEFINE v == ops[id].vol
           gone == IF RemovesImplicitSubscription(ops[id].subscriptionID)
                   THEN {ops[id].subscriptionID} ELSE {}
<1>1. ops[id] # None /\ cons' = cons
  BY DEF DeleteOperationalIntentReference
<1>2. PICK hits \in SearchSubscriptions(subs, v) :
         LET notified == {x \in hits : subs[x].forOps}
         IN  /\ subs' = [x \in SubIDs |-> IF x \in gone THEN None
                                          ELSE IncrementNotificationIndices(subs, notified)[x]]
             /\ told' = [x \in SubIDs |-> IF x \in gone THEN Nothing
                                          ELSE NotifySubscribers(subs, notified, id, None)[x]]
  BY DEF DeleteOperationalIntentReference
<1> DEFINE notified == {x \in hits : subs[x].forOps}
<1>3. ops'[id] = None /\ \A o \in OpIDs : o # id => ops'[o] \in {None, ops[o]}
  BY DEF DeleteOperationalIntentReference, CascadeDelete
<1>4. \A o \in OpIDs : o # id => ops'[o] = ops[o]
  BY <1>1, <1>3 DEF RowsKept, NothingCascades
<1>5. /\ RowOf(ops', cons', id) = None /\ RowOf(ops, cons, id) = ops[id] /\ id \in Entities
      /\ \A d \in Entities : d # id => RowOf(ops', cons', d) = RowOf(ops, cons, d)
  BY <1>1, <1>3, <1>4 DEF RowOf, Entities
<1> HIDE DEF v, gone
<1>6. notified = ToNotify(subs, v, id)
  BY FoundAreNotified
<1>7. \A s \in SubIDs : subs'[s] # None =>
          /\ subs'[s] = IncrementNotificationIndices(subs, notified)[s]
          /\ told'[s] = NotifySubscribers(subs, notified, id, None)[s]
  BY <1>2
<1> HIDE DEF notified
<1> QED
  BY <1>5, <1>6, <1>7, CountAndTellInforms DEF v

\* So does a written constraint
LEMMA PutConstraintInforms ==
    ASSUME NoTableCutOff, TypeOK, SubscribersInformed,
           NEW m \in Managers, NEW id \in ConstraintIDs, NEW ext \in Extents, NEW ovn,
           PutConstraintReference(m, id, ovn, ext)
    PROVE  SubscribersInformed'
<1> DEFINE row == [manager |-> m, version |-> NextVersion(cons[id]), vol |-> ext, updatedAt |-> now]
           v == NotifyVolume(cons[id], ext)
<1>1. PICK hits \in SearchSubscriptions(subs, v) :
         LET notified == {s \in hits : subs[s].forCons}
         IN  /\ subs' = IncrementNotificationIndices(subs, notified)
             /\ told' = NotifySubscribers(subs, notified, id, row)
  BY DEF PutConstraintReference
<1> DEFINE notified == {s \in hits : subs[s].forCons}
<1>2. row.vol = ext /\ cons' = [cons EXCEPT ![id] = row] /\ ops' = ops
  BY DEF PutConstraintReference
<1>3. ext \in Volume4D /\ (cons[id] # None => cons[id].vol \in Volume4D)
  BY ExtentsAssumption DEF TypeOK, Constraint
<1> HIDE DEF row
<1>4. /\ RowOf(ops', cons', id) = row /\ RowOf(ops, cons, id) = cons[id] /\ id \in Entities
      /\ \A d \in Entities : d # id => RowOf(ops', cons', d) = RowOf(ops, cons, d)
  BY <1>2, NamesAssumption DEF RowOf, Entities, TypeOK
<1>5. ASSUME NEW s \in SubIDs, subs[s] # None
      PROVE  Overlaps(subs[s], ext) \/ (cons[id] # None /\ Overlaps(subs[s], cons[id].vol))
                 => Overlaps(subs[s], v)
  <2>1. subs[s] \in Subscription
    BY <1>5 DEF TypeOK
  <2> QED
    BY <1>3, <2>1, NotifyVolumeCovers
<1> HIDE DEF v
<1>6. notified = ToNotify(subs, v, id)
  BY FoundAreNotified
<1> HIDE DEF notified
<1>7. \A s \in SubIDs : subs'[s] # None =>
          /\ subs'[s] = IncrementNotificationIndices(subs, notified)[s]
          /\ told'[s] = NotifySubscribers(subs, notified, id, row)[s]
  BY <1>1 DEF notified
<1>8. \A s \in SubIDs : subs[s] # None =>
          /\ row # None /\ Overlaps(subs[s], row.vol) => Overlaps(subs[s], v)
          /\ RowOf(ops, cons, id) # None /\ Overlaps(subs[s], RowOf(ops, cons, id).vol)
                 => Overlaps(subs[s], v)
  BY <1>2, <1>4, <1>5
<1> QED
  BY <1>4, <1>6, <1>7, <1>8, CountAndTellInforms

\* So does a deleted constraint
LEMMA DeleteConstraintInforms ==
    ASSUME NoTableCutOff, TypeOK, SubscribersInformed,
           NEW m \in Managers, NEW id \in ConstraintIDs, DeleteConstraintReference(m, id)
    PROVE  SubscribersInformed'
<1> DEFINE v == cons[id].vol
<1>1. PICK hits \in SearchSubscriptions(subs, v) :
         LET notified == {s \in hits : subs[s].forCons}
         IN  /\ subs' = IncrementNotificationIndices(subs, notified)
             /\ told' = NotifySubscribers(subs, notified, id, None)
  BY DEF DeleteConstraintReference
<1> DEFINE notified == {s \in hits : subs[s].forCons}
<1>2. cons' = [cons EXCEPT ![id] = None] /\ ops' = ops
  BY DEF DeleteConstraintReference
<1>3. /\ RowOf(ops', cons', id) = None /\ RowOf(ops, cons, id) = cons[id] /\ id \in Entities
      /\ \A d \in Entities : d # id => RowOf(ops', cons', d) = RowOf(ops, cons, d)
  BY <1>2, NamesAssumption DEF RowOf, Entities, TypeOK
<1> HIDE DEF v
<1>4. notified = ToNotify(subs, v, id)
  BY FoundAreNotified
<1> HIDE DEF notified
<1>5. \A s \in SubIDs : subs'[s] # None =>
          /\ subs'[s] = IncrementNotificationIndices(subs, notified)[s]
          /\ told'[s] = NotifySubscribers(subs, notified, id, None)[s]
  BY <1>1 DEF notified
<1> QED
  BY <1>3, <1>4, <1>5, CountAndTellInforms DEF v

\* The answer to a put of a subscription is the whole picture: the searches
\* find at least what overlaps the times that the request came to mean
\* (subscriptions_handler.go:165-246)
LEMMA PutSubscriptionInforms ==
    ASSUME NoTableCutOff, TypeOK, SubscribersInformed,
           NEW m \in Managers, NEW s \in SubIDs, NEW version, NEW req \in SubExtents,
           NEW forOps \in BOOLEAN, NEW forCons \in BOOLEAN,
           PutSubscription(m, s, version, req, forOps, forCons)
    PROVE  SubscribersInformed'
<1> DEFINE sub == RequestedSubscription(m, subs[s], req, forOps, forCons)
<1>1. PICK foundOps \in FindRelevantOperations(sub),
           foundCons \in FindRelevantConstraints(req) :
         told' = [told EXCEPT ![s] = PutSubscriptionResponse(sub, foundOps, foundCons)]
  BY DEF PutSubscription
<1>2. subs' = [subs EXCEPT ![s] = sub] /\ ops' = ops /\ cons' = cons
      /\ AdjustTimeRange(subs[s], req)
  BY DEF PutSubscription
<1>3. sub \in Subscription
  BY <1>2, RequestedSubscriptionType
<1>4. foundOps = {o \in OpIDs : ops[o] # None /\ Overlaps(ops[o].vol, sub)}
  <2> DEFINE S == {o \in OpIDs : ops[o] # None /\ Overlaps(ops[o].vol, sub)}
  <2>1. Limited(S) = {S}
    BY SearchIsComplete, TableAssumption DEF NoTableCutOff
  <2> QED
    BY <2>1 DEF FindRelevantOperations
<1>5. foundCons = {c \in ConstraintIDs :
                     /\ cons[c] # None
                     /\ CellsOverlap(cons[c].vol, req)
                     /\ req.end # None => cons[c].vol.start <= req.end
                     /\ req.start # None => cons[c].vol.end >= req.start}
  <2> DEFINE S == {c \in ConstraintIDs :
                     /\ cons[c] # None
                     /\ CellsOverlap(cons[c].vol, req)
                     /\ req.end # None => cons[c].vol.start <= req.end
                     /\ req.start # None => cons[c].vol.end >= req.start}
  <2>1. Limited(S) = {S}
    BY SearchIsComplete, TableAssumption DEF NoTableCutOff
  <2> QED
    BY <2>1 DEF FindRelevantConstraints
<1>6. /\ sub.cells = req.cells /\ (req.start # None => sub.start = req.start)
      /\ (req.end # None => sub.end = req.end)
  BY DEF RequestedSubscription, AdjustedStart, AdjustedEnd
<1> HIDE DEF sub
<1>7. ASSUME NEW e \in OpIDs
      PROVE  PutSubscriptionResponse(sub, foundOps, foundCons)[e] = DuePicture(sub, e)
  <2>1. e \in Entities /\ e \notin foundCons
    BY <1>5, NamesAssumption DEF Entities
  <2>2. ops[e] # None => ops[e].vol \in Volume4D
    BY DEF TypeOK, OperationalIntent
  <2>3. e \notin foundOps => RelevantVersion(sub, ops[e]) = 0
    BY <1>3, <1>4, <2>2, OverlapsSymmetric DEF RelevantVersion
  <2> QED
    BY <2>1, <2>3 DEF PutSubscriptionResponse, DuePicture
<1>8. ASSUME NEW e \in ConstraintIDs
      PROVE  PutSubscriptionResponse(sub, foundOps, foundCons)[e] = DuePicture(sub, e)
  <2>1. e \in Entities /\ e \notin foundOps /\ e \notin OpIDs
    BY <1>4, NamesAssumption DEF Entities
  <2>2. cons[e] # None => cons[e].vol \in Volume4D
    BY DEF TypeOK, Constraint
  <2>3. e \notin foundCons => RelevantVersion(sub, cons[e]) = 0
    <3> SUFFICES ASSUME cons[e] # None, Overlaps(sub, cons[e].vol) PROVE e \in foundCons
      BY DEF RelevantVersion
    <3>1. Overlaps(cons[e].vol, sub)
      BY <1>3, <2>2, OverlapsSymmetric
    <3> QED
      BY <1>5, <1>6, <3>1 DEF Overlaps, CellsOverlap, TimesOverlap
  <2> QED
    BY <2>1, <2>3 DEF PutSubscriptionResponse, DuePicture
<1> SUFFICES ASSUME NEW x \in SubIDs, subs'[x] # None, ~subs'[x].implicit, NEW e \in Entities
             PROVE  told'[x][e] = DuePicture(subs'[x], e)
  BY <1>2 DEF SubscribersInformed, DuePicture
<1>9. CASE x = s
  BY <1>1, <1>2, <1>7, <1>8, <1>9 DEF TypeOK, Entities
<1>10. CASE x # s
  BY <1>1, <1>2, <1>10 DEF TypeOK, SubscribersInformed
<1> QED
  BY <1>9, <1>10

\* A subscription without dependents goes alone, and is owed nothing
LEMMA DeleteSubscriptionInforms ==
    ASSUME TypeOK, SubscribersInformed, NEW m \in Managers, NEW s \in SubIDs,
           DeleteSubscription(m, s)
    PROVE  SubscribersInformed'
<1>1. /\ subs' = [subs EXCEPT ![s] = None] /\ told' = [told EXCEPT ![s] = Nothing]
      /\ GetDependentOperationalIntents(s) = {} /\ ops' = CascadeDelete(s) /\ cons' = cons
  BY DEF DeleteSubscription
<1>2. ops' = ops
  BY <1>1 DEF CascadeDelete, TypeOK
<1>3. \A x \in SubIDs : subs'[x] # None => x # s /\ subs'[x] = subs[x] /\ told'[x] = told[x]
  BY <1>1 DEF TypeOK
<1> QED
  BY <1>1, <1>2, <1>3 DEF SubscribersInformed, DuePicture

\* Every handler of pkg/scd keeps its subscribers informed
LEMMA NextInforms ==
    ASSUME NoTableCutOff, TypeOK, RowsKept, SubscribersInformed, [Next]_vars
    PROVE  SubscribersInformed'
<1>1. \A trigger \in Triggers : trigger[1] \in BOOLEAN /\ trigger[2] \in BOOLEAN
  BY ExtentsAssumption
<1>2. CASE PutAnyOperationalIntent
  BY <1>1, <1>2, PutOperationalIntentInforms DEF PutAnyOperationalIntent
<1>3. CASE DeleteAnyOperationalIntent
  BY <1>3, DeleteOperationalIntentInforms DEF DeleteAnyOperationalIntent
<1>4. CASE PutAnyConstraint
  BY <1>4, PutConstraintInforms DEF PutAnyConstraint
<1>5. CASE DeleteAnyConstraint
  BY <1>5, DeleteConstraintInforms DEF DeleteAnyConstraint
<1>6. CASE PutAnySubscription
  BY <1>1, <1>6, PutSubscriptionInforms DEF PutAnySubscription
<1>7. CASE DeleteAnySubscription
  BY <1>7, DeleteSubscriptionInforms DEF DeleteAnySubscription
<1>8. CASE UNCHANGED <<ops, cons, subs, told>>
  BY <1>8 DEF SubscribersInformed, DuePicture
<1> QED
  BY <1>2, <1>3, <1>4, <1>5, <1>6, <1>7, <1>8 DEF Next, Tick, vars

(***************************************************************************)
(* The owner of an explicit subscription who applied the answer to its     *)
(* last put and every notification since has exactly the DSS's picture of  *)
(* the subscribed volume, if no table holds more rows than a search        *)
(* returns (subscriptions_handler.go:165-246,                              *)
(* operational_intents_handler.go:498-542, constraints_handler.go:241-298).*)
(***************************************************************************)
THEOREM SubscribersAlwaysInformed ==
    ASSUME NoTableCutOff
    PROVE  Spec => []SubscribersInformed
<1>1. Init => SubscribersInformed
  BY DEF Init, SubscribersInformed
<1>2. TypeOK /\ RowsKept /\ SubscribersInformed /\ [Next]_vars => SubscribersInformed'
  BY NextInforms
<1>3. IInv => TypeOK
  BY DEF IInv
<1> QED
  BY <1>1, <1>2, <1>3, InitIInv, NextIInv, PTL DEF Spec

-----------------------------------------------------------------------------
(***************************************************************************)
(* Notifications of all that overlaps, implicit subscriptions included,    *)
(* for subscriptions that are not stored in coarser cells                  *)
(***************************************************************************)

\* What EveryOverlapNotified says of one step
OverlapsCounted ==
    \A s \in SubIDs :
        subs[s] # None /\ subs'[s] # None /\ subs'[s].cells \subseteq Cells =>
            /\ \A o \in OpIDs :
                  /\ ops'[o] # ops[o]
                  /\ subs[s].forOps
                  /\ Affects(subs[s], ops[o], ops'[o])
                  => subs'[s].index = subs[s].index + 1
            /\ \A c \in ConstraintIDs :
                  /\ cons'[c] # cons[c]
                  /\ subs[s].forCons
                  /\ Affects(subs[s], cons[c], cons'[c])
                  => subs'[s].index = subs[s].index + 1

\* A subscription of level-13 cells is found by the cells of its area
LEMMA AreaIsFound ==
    ASSUME NEW sub \in Subscription, sub.cells \subseteq Cells,
           NEW v \in Volume4D, AreaOverlaps(sub, v)
    PROVE  Overlaps(sub, v)
  BY CellsAssumption DEF AreaOverlaps, Region, Overlaps, CellsOverlap

\* So it is after it was extended
LEMMA ExtendedIsFound ==
    ASSUME NEW new \in Subscription, new.cells \subseteq Cells, NEW old \in Subscription,
           Extends(new, old), NEW v \in Volume4D, AreaOverlaps(old, v)
    PROVE  Overlaps(new, v)
<1>1. /\ old.start \in Nat /\ old.end \in Nat /\ new.start \in Nat /\ new.end \in Nat
      /\ v.start \in Nat /\ v.end \in Nat
  BY DEF Subscription, Volume4D
<1>2. TimesOverlap(new, v)
  BY <1>1 DEF Extends, AreaOverlaps, TimesOverlap
<1>3. AreaOverlaps(new, v)
  BY <1>2 DEF Extends, AreaOverlaps
<1> QED
  BY <1>3, AreaIsFound

\* A write of one entity counts for all that want and overlap it
LEMMA WriteCounts ==
    ASSUME TypeOK, TypeOK', NEW e \in Entities, NEW table \in SubscriptionTable,
           NEW v, NEW notified, notified = ToNotify(table, v, e),
           \A d \in Entities : d # e => RowOf(ops', cons', d) = RowOf(ops, cons, d),
           \A s \in SubIDs : subs[s] # None /\ subs'[s] # None =>
               /\ subs'[s] = IncrementNotificationIndices(table, notified)[s]
               /\ table[s] # None /\ Extends(table[s], subs[s]),
           \A s \in SubIDs : table[s] # None =>
               /\ RowOf(ops', cons', e) # None /\ Overlaps(table[s], RowOf(ops', cons', e).vol)
                      => Overlaps(table[s], v)
               /\ RowOf(ops, cons, e) # None /\ Overlaps(table[s], RowOf(ops, cons, e).vol)
                      => Overlaps(table[s], v)
    PROVE  OverlapsCounted
<1>1. ASSUME NEW s \in SubIDs, subs[s] # None, subs'[s] # None, subs'[s].cells \subseteq Cells,
             Wants(subs[s], e),
             Affects(subs[s], RowOf(ops, cons, e), RowOf(ops', cons', e))
      PROVE  subs'[s].index = subs[s].index + 1
  <2>1. /\ subs'[s] = IncrementNotificationIndices(table, notified)[s]
        /\ table[s] # None /\ Extends(table[s], subs[s])
    BY <1>1
  <2>2. table[s] \in Subscription /\ subs[s] \in Subscription
    BY <1>1, <2>1 DEF TypeOK, SubscriptionTable
  <2>3. RowOf(ops, cons, e) # None => RowOf(ops, cons, e).vol \in Volume4D
    BY RowType
  <2>4. RowOf(ops', cons', e) # None => RowOf(ops', cons', e).vol \in Volume4D
    BY DEF TypeOK, RowOf, Entities, OperationalIntent, Constraint
  <2> table[s].cells \subseteq Cells
    BY <1>1, <2>1, <2>2 DEF IncrementNotificationIndices, Subscription
  <2>5. Overlaps(table[s], v)
    BY <1>1, <2>1, <2>2, <2>3, <2>4, ExtendedIsFound DEF Affects
  <2>6. Wants(table[s], e)
    BY <1>1, <2>1 DEF Wants, Extends
  <2>7. s \in notified
    BY <2>1, <2>5, <2>6 DEF ToNotify
  <2>8. subs'[s] = [table[s] EXCEPT !.index = table[s].index + 1]
    BY <2>1, <2>7 DEF IncrementNotificationIndices
  <2>9. subs'[s].index = table[s].index + 1
    BY <2>2, <2>8 DEF Subscription
  <2> QED
    BY <2>1, <2>9 DEF Extends
<1>2. \A o \in OpIDs : /\ o \in Entities /\ RowOf(ops, cons, o) = ops[o]
                       /\ RowOf(ops', cons', o) = ops'[o]
                       /\ \A s \in SubIDs : Wants(subs[s], o) = subs[s].forOps
  BY DEF RowOf, Entities, Wants
<1>3. \A c \in ConstraintIDs : /\ c \in Entities /\ RowOf(ops, cons, c) = cons[c]
                               /\ RowOf(ops', cons', c) = cons'[c]
                               /\ \A s \in SubIDs : Wants(subs[s], c) = subs[s].forCons
  BY NamesAssumption DEF RowOf, Entities, Wants
<1>4. ASSUME NEW s \in SubIDs, subs[s] # None, subs'[s] # None, subs'[s].cells \subseteq Cells,
             NEW o \in OpIDs,
             ops'[o] # ops[o], subs[s].forOps, Affects(subs[s], ops[o], ops'[o])
      PROVE  subs'[s].index = subs[s].index + 1
  <2>1. o = e
    BY <1>2, <1>4
  <2> QED
    BY <1>1, <1>2, <1>4, <2>1
<1>5. ASSUME NEW s \in SubIDs, subs[s] # None, subs'[s] # None, subs'[s].cells \subseteq Cells,
             NEW c \in ConstraintIDs,
             cons'[c] # cons[c], subs[s].forCons, Affects(subs[s], cons[c], cons'[c])
      PROVE  subs'[s].index = subs[s].index + 1
  <2>1. c = e
    BY <1>3, <1>5
  <2> QED
    BY <1>1, <1>3, <1>5, <2>1
<1> QED
  BY <1>4, <1>5 DEF OverlapsCounted

\* Every table extends itself
LEMMA ExtendsItself ==
    ASSUME NEW sub \in Subscription
    PROVE  Extends(sub, sub)
<1>1. sub.start \in Nat /\ sub.end \in Nat
  BY DEF Subscription
<1> QED
  BY <1>1 DEF Extends

\* A written operational intent increments every subscription it overlaps
LEMMA PutOperationalIntentCounts ==
    ASSUME NoTableCutOff, TypeOK, TypeOK',
           NEW m \in Managers, NEW id \in OpIDs, NEW state \in RequestStates,
           NEW ext \in Extents, NEW subID \in SubIDs \cup {None},
           NEW forCons \in BOOLEAN, NEW key, NEW ovn,
           PutOperationalIntentReference(m, id, ovn, state, ext, subID, forCons, key)
    PROVE  OverlapsCounted
<1>1. PICK support \in SupportingSubscriptions(m, ext, subID, forCons) :
         LET op == [manager |-> m, version |-> NextVersion(ops[id]),
                    state |-> state, vol |-> ext,
                    subscriptionID |-> support.id, updatedAt |-> now]
             stored == [subs EXCEPT ![support.id] = support.sub]
         IN  /\ \E hits \in SearchSubscriptions(stored, NotifyVolume(ops[id], ext)) :
                  LET notified == {s \in hits : stored[s].forOps}
                  IN  subs' = IncrementNotificationIndices(stored, notified)
             /\ ops' = [ops EXCEPT ![id] = op]
  BY DEF PutOperationalIntentReference
<1> DEFINE op == [manager |-> m, version |-> NextVersion(ops[id]),
                  state |-> state, vol |-> ext,
                  subscriptionID |-> support.id, updatedAt |-> now]
           stored == [subs EXCEPT ![support.id] = support.sub]
           v == NotifyVolume(ops[id], ext)
<1>2. PICK hits \in SearchSubscriptions(stored, v) :
         subs' = IncrementNotificationIndices(stored, {s \in hits : stored[s].forOps})
  BY <1>1
<1> DEFINE notified == {s \in hits : stored[s].forOps}
<1>3. Requested(m, ext, subID, forCons) /\ ext \in Volume4D
  BY ExtentsAssumption DEF Requested
<1>4. /\ support.id \in SubIDs /\ support.sub \in Subscription
      /\ subs[support.id] # None => Extends(support.sub, subs[support.id])
  BY <1>3, SupportSupports
<1>5. stored \in SubscriptionTable
  BY <1>4 DEF TypeOK, SubscriptionTable
<1>6. ASSUME NEW s \in SubIDs, subs[s] # None
      PROVE  stored[s] # None /\ Extends(stored[s], subs[s])
  <2>1. subs[s] \in Subscription
    BY <1>6 DEF TypeOK
  <2>2. CASE s = support.id
    BY <1>4, <1>6, <2>2, NamesAssumption DEF TypeOK
  <2>3. CASE s # support.id
    BY <1>6, <2>1, <2>3, ExtendsItself DEF TypeOK
  <2> QED
    BY <2>2, <2>3
<1>7. op.vol = ext /\ ops' = [ops EXCEPT ![id] = op] /\ cons' = cons
  BY <1>1 DEF PutOperationalIntentReference
<1>8. /\ RowOf(ops', cons', id) = op /\ RowOf(ops, cons, id) = ops[id] /\ id \in Entities
      /\ \A d \in Entities : d # id => RowOf(ops', cons', d) = RowOf(ops, cons, d)
  BY <1>7, RowFacts DEF RowOf, TypeOK
<1> HIDE DEF op, stored, v
<1>9. notified = ToNotify(stored, v, id)
  BY FoundAreNotified
<1>10. ASSUME NEW s \in SubIDs, stored[s] # None
       PROVE  /\ op # None /\ Overlaps(stored[s], op.vol) => Overlaps(stored[s], v)
              /\ ops[id] # None /\ Overlaps(stored[s], ops[id].vol) => Overlaps(stored[s], v)
  <2>1. stored[s] \in Subscription
    BY <1>5, <1>10 DEF SubscriptionTable
  <2>2. ops[id] # None => ops[id].vol \in Volume4D
    BY DEF TypeOK, OperationalIntent
  <2> QED
    BY <1>3, <1>7, <2>1, <2>2, NotifyVolumeCovers DEF v
<1>11. \A s \in SubIDs : subs[s] # None /\ subs'[s] # None =>
          /\ subs'[s] = IncrementNotificationIndices(stored, notified)[s]
          /\ stored[s] # None /\ Extends(stored[s], subs[s])
  BY <1>2, <1>6
<1> HIDE DEF notified
<1> QED
  BY <1>5, <1>8, <1>9, <1>10, <1>11, WriteCounts

\* The same for a write that changes nothing of a subscription but its index
LEMMA CountAndTellCounts ==
    ASSUME TypeOK, TypeOK', NEW e \in Entities,
           NEW v, NEW notified, notified = ToNotify(subs, v, e),
           \A d \in Entities : d # e => RowOf(ops', cons', d) = RowOf(ops, cons, d),
           \A s \in SubIDs : subs[s] # None /\ subs'[s] # None =>
               subs'[s] = IncrementNotificationIndices(subs, notified)[s],
           \A s \in SubIDs : subs[s] # None =>
               /\ RowOf(ops', cons', e) # None /\ Overlaps(subs[s], RowOf(ops', cons', e).vol)
                      => Overlaps(subs[s], v)
               /\ RowOf(ops, cons, e) # None /\ Overlaps(subs[s], RowOf(ops, cons, e).vol)
                      => Overlaps(subs[s], v)
    PROVE  OverlapsCounted
<1>1. subs \in SubscriptionTable
  BY DEF TypeOK, SubscriptionTable
<1>2. \A s \in SubIDs : subs[s] # None => Extends(subs[s], subs[s])
  BY ExtendsItself DEF TypeOK
<1> QED
  BY <1>1, <1>2, WriteCounts

\* So does a deleted one
LEMMA DeleteOperationalIntentCounts ==
    ASSUME NoTableCutOff, TypeOK, TypeOK', RowsKept,
           NEW m \in Managers, NEW id \in OpIDs, DeleteOperationalIntentReference(m, id)
    PROVE  OverlapsCounted
<1> DEFINE v == ops[id].vol
           gone == IF RemovesImplicitSubscription(ops[id].subscriptionID)
                   THEN {ops[id].subscriptionID} ELSE {}
<1>1. ops[id] # None /\ cons' = cons
  BY DEF DeleteOperationalIntentReference
<1>2. PICK hits \in SearchSubscriptions(subs, v) :
         LET notified == {x \in hits : subs[x].forOps}
         IN  subs' = [x \in SubIDs |-> IF x \in gone THEN None
                                       ELSE IncrementNotificationIndices(subs, notified)[x]]
  BY DEF DeleteOperationalIntentReference
<1> DEFINE notified == {x \in hits : subs[x].forOps}
<1>3. ops'[id] = None /\ \A o \in OpIDs : o # id => ops'[o] \in {None, ops[o]}
  BY DEF DeleteOperationalIntentReference, CascadeDelete
<1>4. \A o \in OpIDs : o # id => ops'[o] = ops[o]
  BY <1>1, <1>3 DEF RowsKept, NothingCascades
<1>5. /\ RowOf(ops', cons', id) = None /\ RowOf(ops, cons, id) = ops[id] /\ id \in Entities
      /\ \A d \in Entities : d # id => RowOf(ops', cons', d) = RowOf(ops, cons, d)
  BY <1>1, <1>3, <1>4 DEF RowOf, Entities
<1> HIDE DEF v, gone
<1>6. notified = ToNotify(subs, v, id)
  BY FoundAreNotified
<1>7. \A s \in SubIDs : subs'[s] # None =>
          subs'[s] = IncrementNotificationIndices(subs, notified)[s]
  BY <1>2
<1> HIDE DEF notified
<1> QED
  BY <1>5, <1>6, <1>7, CountAndTellCounts DEF v

\* So does a written constraint
LEMMA PutConstraintCounts ==
    ASSUME NoTableCutOff, TypeOK, TypeOK',
           NEW m \in Managers, NEW id \in ConstraintIDs, NEW ext \in Extents, NEW ovn,
           PutConstraintReference(m, id, ovn, ext)
    PROVE  OverlapsCounted
<1> DEFINE row == [manager |-> m, version |-> NextVersion(cons[id]), vol |-> ext, updatedAt |-> now]
           v == NotifyVolume(cons[id], ext)
<1>1. PICK hits \in SearchSubscriptions(subs, v) :
         LET notified == {s \in hits : subs[s].forCons}
         IN  subs' = IncrementNotificationIndices(subs, notified)
  BY DEF PutConstraintReference
<1> DEFINE notified == {s \in hits : subs[s].forCons}
<1>2. row.vol = ext /\ cons' = [cons EXCEPT ![id] = row] /\ ops' = ops
  BY DEF PutConstraintReference
<1>3. ext \in Volume4D /\ (cons[id] # None => cons[id].vol \in Volume4D)
  BY ExtentsAssumption DEF TypeOK, Constraint
<1> HIDE DEF row
<1>4. /\ RowOf(ops', cons', id) = row /\ RowOf(ops, cons, id) = cons[id] /\ id \in Entities
      /\ \A d \in Entities : d # id => RowOf(ops', cons', d) = RowOf(ops, cons, d)
  BY <1>2, NamesAssumption DEF RowOf, Entities, TypeOK
<1>5. ASSUME NEW s \in SubIDs, subs[s] # None
      PROVE  Overlaps(subs[s], ext) \/ (cons[id] # None /\ Overlaps(subs[s], cons[id].vol))
                 => Overlaps(subs[s], v)
  <2>1. subs[s] \in Subscription
    BY <1>5 DEF TypeOK
  <2> QED
    BY <1>3, <2>1, NotifyVolumeCovers
<1> HIDE DEF v
<1>6. notified = ToNotify(subs, v, id)
  BY FoundAreNotified
<1> HIDE DEF notified
<1>7. \A s \in SubIDs : subs[s] # None /\ subs'[s] # None =>
          subs'[s] = IncrementNotificationIndices(subs, notified)[s]
  BY <1>1 DEF notified
<1>8. \A s \in SubIDs : subs[s] # None =>
          /\ RowOf(ops', cons', id) # None /\ Overlaps(subs[s], RowOf(ops', cons', id).vol)
                 => Overlaps(subs[s], v)
          /\ RowOf(ops, cons, id) # None /\ Overlaps(subs[s], RowOf(ops, cons, id).vol)
                 => Overlaps(subs[s], v)
  BY <1>2, <1>4, <1>5
<1> QED
  BY <1>4, <1>6, <1>7, <1>8, CountAndTellCounts

\* So does a deleted constraint
LEMMA DeleteConstraintCounts ==
    ASSUME NoTableCutOff, TypeOK, TypeOK',
           NEW m \in Managers, NEW id \in ConstraintIDs, DeleteConstraintReference(m, id)
    PROVE  OverlapsCounted
<1> DEFINE v == cons[id].vol
<1>1. PICK hits \in SearchSubscriptions(subs, v) :
         LET notified == {s \in hits : subs[s].forCons}
         IN  subs' = IncrementNotificationIndices(subs, notified)
  BY DEF DeleteConstraintReference
<1> DEFINE notified == {s \in hits : subs[s].forCons}
<1>2. cons' = [cons EXCEPT ![id] = None] /\ ops' = ops
  BY DEF DeleteConstraintReference
<1>3. /\ RowOf(ops', cons', id) = None /\ RowOf(ops, cons, id) = cons[id] /\ id \in Entities
      /\ \A d \in Entities : d # id => RowOf(ops', cons', d) = RowOf(ops, cons, d)
  BY <1>2, NamesAssumption DEF RowOf, Entities, TypeOK
<1> HIDE DEF v
<1>4. notified = ToNotify(subs, v, id)
  BY FoundAreNotified
<1> HIDE DEF notified
<1>5. \A s \in SubIDs : subs[s] # None /\ subs'[s] # None =>
          subs'[s] = IncrementNotificationIndices(subs, notified)[s]
  BY <1>1 DEF notified
<1> QED
  BY <1>3, <1>4, <1>5, CountAndTellCounts DEF v

\* No step leaves an overlapping subscription uncounted
LEMMA NextCounts ==
    ASSUME NoTableCutOff, TypeOK, TypeOK', RowsKept, [Next]_vars
    PROVE  OverlapsCounted
<1>1. \A trigger \in Triggers : trigger[1] \in BOOLEAN /\ trigger[2] \in BOOLEAN
  BY ExtentsAssumption
<1>2. CASE PutAnyOperationalIntent
  BY <1>1, <1>2, PutOperationalIntentCounts DEF PutAnyOperationalIntent
<1>3. CASE DeleteAnyOperationalIntent
  BY <1>3, DeleteOperationalIntentCounts DEF DeleteAnyOperationalIntent
<1>4. CASE PutAnyConstraint
  BY <1>4, PutConstraintCounts DEF PutAnyConstraint
<1>5. CASE DeleteAnyConstraint
  BY <1>5, DeleteConstraintCounts DEF DeleteAnyConstraint
<1>6. CASE UNCHANGED <<ops, cons>>
  BY <1>6 DEF OverlapsCounted
<1>7. CASE PutAnySubscription
  BY <1>6, <1>7 DEF PutAnySubscription, PutSubscription
<1>8. CASE DeleteAnySubscription
  <2>1. PICK s \in SubIDs : GetDependentOperationalIntents(s) = {} /\ ops' = CascadeDelete(s)
                            /\ cons' = cons
    BY <1>8 DEF DeleteAnySubscription, DeleteSubscription
  <2>2. ops' = ops
    BY <2>1 DEF CascadeDelete, TypeOK
  <2> QED
    BY <1>6, <2>1, <2>2
<1> QED
  BY <1>2, <1>3, <1>4, <1>5, <1>6, <1>7, <1>8 DEF Next, Tick, vars

(***************************************************************************)
(* Every create, change and delete of an entity counts a notification for  *)
(* every subscription, explicit or implicit, that wants such entities and  *)
(* overlaps it before or after, unless it is stored in coarser cells, if   *)
(* no table holds more rows than a search returns                          *)
(* (operational_intents_handler.go:498-542, constraints_handler.go:241-298,*)
(* store/cockroach/subscriptions.go:341-384).                              *)
(***************************************************************************)
THEOREM EveryOverlapAlwaysNotified ==
    ASSUME NoTableCutOff
    PROVE  Spec => EveryOverlapNotified
<1>1. TypeOK /\ TypeOK' /\ RowsKept /\ [Next]_vars => OverlapsCounted
  BY NextCounts
<1>2. IInv => TypeOK
  BY DEF IInv
<1>3. IInv' => TypeOK'
  BY DEF IInv
<1> QED
  BY <1>1, <1>2, <1>3, InitIInv, NextIInv, PTL DEF Spec, EveryOverlapNotified, OverlapsCounted

=============================================================================
