------------------------------- MODULE RIDProofs -------------------------------
(***************************************************************************)
(* Proofs about RID, for every choice of the constants.                    *)
(***************************************************************************)
EXTENDS RID, FiniteSetTheorems, TLAPS

-----------------------------------------------------------------------------
(***************************************************************************)
(* The inductive invariant                                                 *)
(***************************************************************************)

\* No row has a version that a later write will give to another
VersionsIssued ==
    /\ \A i \in ISAIDs : isas[i] # None => isas[i].version <= writes
    /\ \A s \in SubIDs : subs[s] # None => subs[s].version <= writes

\* A row that a garbage collector has on its list and that was not written
\* since has been expired from then on
ISAListsExpired ==
    \A w \in Writers : gc[w].step = "isas" =>
        \A r \in gc[w].list :
            /\ r.id \in ISAIDs /\ r.version <= writes
            /\ StillListed(isas[r.id], r) => Expired(isas[r.id])

SubscriptionListsExpired ==
    \A w \in Writers : gc[w].step = "subs" =>
        \A r \in gc[w].list :
            /\ r.id \in SubIDs /\ r.version <= writes
            /\ StillListed(subs[r.id], r) => Expired(subs[r.id])

Lists == VersionsIssued /\ ISAListsExpired /\ SubscriptionListsExpired

IInv == TypeOK /\ Lists

-----------------------------------------------------------------------------
(***************************************************************************)
(* The operators the requests are made of                                  *)
(***************************************************************************)

SubscriptionTable == [SubIDs -> Subscription \cup {None}]

\* The rows differ at most in the notification index
SameButIndex(new, old) ==
    /\ new = None <=> old = None
    /\ old # None => /\ new.owner = old.owner /\ new.cells = old.cells
                     /\ new.start = old.start /\ new.end = old.end /\ new.version = old.version

\* The row written for an ISA
LEMMA NewISAType ==
    ASSUME TypeOK, NEW o \in Owners, NEW w \in Writers, NEW req \in ISAExtents,
           NEW old \in ISA \cup {None}, old # None \/ req.end # None,
           InOrder(ISATimes(old, req))
    PROVE  LET isa == NewISA(o, w, req.cells, ISATimes(old, req))
           IN  /\ isa \in ISA /\ isa # None /\ isa.start < isa.end
               /\ isa.version = writes + 1 /\ isa.cells = req.cells
<1> DEFINE times == ISATimes(old, req)
           isa == NewISA(o, w, req.cells, times)
<1>1. /\ req.cells \in SUBSET Cells
      /\ req.start \in Int \cup {None} /\ req.end \in Int \cup {None}
  BY ExtentsAssumption DEF Request
<1>2. old # None => old.start \in Int /\ old.end \in Int
  BY DEF ISA
<1>3. now \in Int /\ writes \in Nat
  BY DEF TypeOK
<1>4. AdjustedStart(old, req) \in Int
  BY <1>1, <1>2, <1>3 DEF AdjustedStart
<1>5. AdjustedEnd(old, req, None) \in Int
  BY <1>1, <1>2 DEF AdjustedEnd
<1>6. times.start \in Int /\ times.end \in Int
  BY <1>4, <1>5 DEF ISATimes
<1> HIDE DEF times
<1>7. /\ isa \in ISA
      /\ isa.version = writes + 1 /\ isa.cells = req.cells
  BY <1>1, <1>3, <1>6 DEF NewISA, ISA
<1>8. isa # None
  BY <1>7, NamesAssumption
<1>9. isa.start < isa.end
  BY DEF times, NewISA, InOrder
<1> QED
  BY <1>7, <1>8, <1>9 DEF times

\* The row written for a subscription
LEMMA NewSubscriptionType ==
    ASSUME TypeOK, NEW o \in Owners, NEW w \in Writers, NEW req \in SubExtents,
           NEW old \in Subscription \cup {None}, InOrder(SubscriptionTimes(old, req)),
           SubscriptionTimes(old, req).end - SubscriptionTimes(old, req).start
               <= MaxSubscriptionDuration
    PROVE  LET sub == NewSubscription(o, w, req.cells, SubscriptionTimes(old, req))
           IN  /\ sub \in Subscription /\ sub # None
               /\ sub.end - sub.start \in 1..MaxSubscriptionDuration
               /\ sub.version = writes + 1 /\ sub.cells = req.cells /\ sub.owner = o
<1> DEFINE times == SubscriptionTimes(old, req)
           sub == NewSubscription(o, w, req.cells, times)
<1>1. /\ req.cells \in SUBSET Cells
      /\ req.start \in Int \cup {None} /\ req.end \in Int \cup {None}
  BY ExtentsAssumption DEF Request
<1>2. old # None => old.start \in Int /\ old.end \in Int
  BY DEF Subscription
<1>3. now \in Int /\ writes \in Nat
  BY DEF TypeOK
<1>4. AdjustedStart(old, req) \in Int
  BY <1>1, <1>2, <1>3 DEF AdjustedStart
<1>5. AdjustedEnd(old, req, AdjustedStart(old, req) + MaxSubscriptionDuration) \in Int
  BY <1>1, <1>2, <1>4, BoundsAssumption DEF AdjustedEnd
<1>6. times.start \in Int /\ times.end \in Int
  BY <1>4, <1>5 DEF SubscriptionTimes
<1> HIDE DEF times
<1>7. /\ sub \in Subscription
      /\ sub.version = writes + 1 /\ sub.cells = req.cells /\ sub.owner = o
  BY <1>1, <1>3, <1>6 DEF NewSubscription, Subscription
<1>8. sub # None
  BY <1>7, NamesAssumption
<1>9. sub.end - sub.start \in 1..MaxSubscriptionDuration
  <2>1. times.start < times.end /\ times.end - times.start <= MaxSubscriptionDuration
    BY DEF times, InOrder
  <2>2. sub.start = times.start /\ sub.end = times.end
    BY DEF NewSubscription
  <2> QED
    BY <1>6, <2>1, <2>2, BoundsAssumption
<1> QED
  BY <1>7, <1>8, <1>9 DEF times

\* Counting notifications keeps everything but the indices
LEMMA CountingKeepsRows ==
    ASSUME TypeOK, NEW cells
    PROVE  LET counted == UpdateNotificationIdxsInCells(cells)
           IN  /\ counted \in SubscriptionTable
               /\ \A s \in SubIDs : SameButIndex(counted[s], subs[s])
<1> DEFINE counted == UpdateNotificationIdxsInCells(cells)
<1>1. ASSUME NEW s \in SubIDs
      PROVE  counted[s] \in Subscription \cup {None} /\ SameButIndex(counted[s], subs[s])
  <2>1. subs[s] \in Subscription \cup {None}
    BY DEF TypeOK
  <2>2. CASE s \in SubscriptionsInCells(cells)
    <3>1. subs[s] \in Subscription
      BY <2>1, <2>2 DEF SubscriptionsInCells, Live
    <3>2. counted[s] = [subs[s] EXCEPT !.index = subs[s].index + 1]
      BY <2>2 DEF UpdateNotificationIdxsInCells
    <3>3. counted[s] \in Subscription
      BY <3>1, <3>2 DEF Subscription
    <3>4. counted[s] # None /\ subs[s] # None
      BY <3>1, <3>3, NamesAssumption
    <3> QED
      BY <3>1, <3>2, <3>3, <3>4 DEF SameButIndex, Subscription
  <2>3. CASE s \notin SubscriptionsInCells(cells)
    <3>1. counted[s] = subs[s]
      BY <2>3 DEF UpdateNotificationIdxsInCells
    <3> QED
      BY <2>1, <3>1 DEF SameButIndex
  <2> QED
    BY <2>2, <2>3
<1>2. counted = [s \in SubIDs |-> counted[s]]
  BY DEF UpdateNotificationIdxsInCells
<1> HIDE DEF counted
<1>3. counted \in SubscriptionTable
  BY <1>1, <1>2 DEF SubscriptionTable
<1> QED
  BY <1>1, <1>3 DEF counted

\* Incremented notification indices keep the types
LEMMA NotifyingKeepsType ==
    ASSUME TypeOK, NEW cells, NEW i \in ISAIDs, NEW row \in ISA \cup {None}
    PROVE  NotifySubscribers(cells, i, row) \in [SubIDs -> [ISAIDs -> ISA \cup {None}]]
<1>1. \A s \in SubIDs : Picture(s, row) \in ISA \cup {None}
  BY DEF Picture
<1>2. told \in [SubIDs -> [ISAIDs -> ISA \cup {None}]]
  BY DEF TypeOK
<1>3. ASSUME NEW s \in SubIDs
      PROVE  [told[s] EXCEPT ![i] = Picture(s, row)] \in [ISAIDs -> ISA \cup {None}]
  BY <1>1, <1>2
<1> QED
  BY <1>2, <1>3 DEF NotifySubscribers

-----------------------------------------------------------------------------
(***************************************************************************)
(* What any write leaves of the garbage collectors' lists                  *)
(***************************************************************************)

\* A row after a step: gone, with the version and end it had, or just written
Succeeds(new, old) ==
    \/ new = None
    \/ old # None /\ new.version = old.version /\ new.end = old.end
    \/ writes' = writes + 1 /\ new.version = writes + 1

\* A row the garbage collector has listed stays or is written anew
LEMMA WritesKeepLists ==
    ASSUME IInv, TypeOK',
           now' \in {now, now + 1}, writes' \in {writes, writes + 1}, gc' = gc,
           \A i \in ISAIDs : Succeeds(isas'[i], isas[i]),
           \A s \in SubIDs : Succeeds(subs'[s], subs[s])
    PROVE  Lists'
<1>1. writes \in Nat /\ writes <= writes' /\ writes' \in Nat
  BY DEF IInv, TypeOK
<1>2. now \in Nat /\ now <= now' /\ now' \in Nat
  BY DEF IInv, TypeOK
<1>3. ASSUME NEW i \in ISAIDs
      PROVE  /\ isas[i] # None => isas[i].version \in Nat /\ isas[i].end \in Int
             /\ isas'[i] # None => isas'[i].version \in Nat /\ isas'[i].end \in Int
  <2>1. isas[i] \in ISA \cup {None} /\ isas'[i] \in ISA \cup {None}
    BY DEF IInv, TypeOK
  <2> QED
    BY <2>1 DEF ISA
<1>4. ASSUME NEW s \in SubIDs
      PROVE  /\ subs[s] # None => subs[s].version \in Nat /\ subs[s].end \in Int
             /\ subs'[s] # None => subs'[s].version \in Nat /\ subs'[s].end \in Int
  <2>1. subs[s] \in Subscription \cup {None} /\ subs'[s] \in Subscription \cup {None}
    BY DEF IInv, TypeOK
  <2> QED
    BY <2>1 DEF Subscription
<1>5. VersionsIssued'
  BY <1>1, <1>3, <1>4 DEF IInv, Lists, VersionsIssued, Succeeds
<1>6. ISAListsExpired'
  <2> SUFFICES ASSUME NEW w \in Writers, gc[w].step = "isas", NEW r \in gc[w].list
               PROVE  /\ r.id \in ISAIDs /\ r.version <= writes'
                      /\ StillListed(isas'[r.id], r) => Expired(isas[r.id])'
    BY DEF ISAListsExpired, StillListed
  <2>1. /\ r.id \in ISAIDs /\ r.version <= writes
        /\ StillListed(isas[r.id], r) => Expired(isas[r.id])
    BY DEF IInv, Lists, ISAListsExpired
  <2>2. gc[w] \in [step : {"idle", "isas", "isasDone", "subs"},
                    list : SUBSET (Listed(ISAIDs) \cup Listed(SubIDs))]
    BY DEF IInv, TypeOK
  <2>3. r.version \in Nat
    BY <2>2 DEF Listed
  <2>4. ASSUME StillListed(isas'[r.id], r)
        PROVE  Expired(isas[r.id])'
    <3>1. isas'[r.id] # None /\ isas'[r.id].version = r.version
      BY <2>4 DEF StillListed
    <3>2. isas[r.id] # None /\ isas'[r.id].version = isas[r.id].version
                             /\ isas'[r.id].end = isas[r.id].end
      BY <1>1, <2>1, <2>3, <3>1 DEF Succeeds
    <3>3. isas[r.id].end + ExpiredDuration <= now
      BY <2>1, <3>1, <3>2 DEF StillListed, Expired
    <3>4. isas'[r.id].end + ExpiredDuration <= now'
      BY <1>2, <1>3, <2>1, <3>2, <3>3, BoundsAssumption
    <3> QED
      BY <3>1, <3>4 DEF Expired
  <2> QED
    BY <1>1, <2>1, <2>3, <2>4
<1>7. SubscriptionListsExpired'
  <2> SUFFICES ASSUME NEW w \in Writers, gc[w].step = "subs", NEW r \in gc[w].list
               PROVE  /\ r.id \in SubIDs /\ r.version <= writes'
                      /\ StillListed(subs'[r.id], r) => Expired(subs[r.id])'
    BY DEF SubscriptionListsExpired, StillListed
  <2>1. /\ r.id \in SubIDs /\ r.version <= writes
        /\ StillListed(subs[r.id], r) => Expired(subs[r.id])
    BY DEF IInv, Lists, SubscriptionListsExpired
  <2>2. gc[w] \in [step : {"idle", "isas", "isasDone", "subs"},
                    list : SUBSET (Listed(ISAIDs) \cup Listed(SubIDs))]
    BY DEF IInv, TypeOK
  <2>3. r.version \in Nat
    BY <2>2 DEF Listed
  <2>4. ASSUME StillListed(subs'[r.id], r)
        PROVE  Expired(subs[r.id])'
    <3>1. subs'[r.id] # None /\ subs'[r.id].version = r.version
      BY <2>4 DEF StillListed
    <3>2. subs[r.id] # None /\ subs'[r.id].version = subs[r.id].version
                             /\ subs'[r.id].end = subs[r.id].end
      BY <1>1, <2>1, <2>3, <3>1 DEF Succeeds
    <3>3. subs[r.id].end + ExpiredDuration <= now
      BY <2>1, <3>1, <3>2 DEF StillListed, Expired
    <3>4. subs'[r.id].end + ExpiredDuration <= now'
      BY <1>2, <1>4, <2>1, <3>2, <3>3, BoundsAssumption
    <3> QED
      BY <3>1, <3>4 DEF Expired
  <2> QED
    BY <1>1, <2>1, <2>3, <2>4
<1> QED
  BY <1>5, <1>6, <1>7 DEF Lists

-----------------------------------------------------------------------------
(***************************************************************************)
(* Requests keep the invariant                                             *)
(***************************************************************************)

\* What changes an ISA counts notifications and owes them
LEMMA ISAWriteKeepsIInv ==
    ASSUME IInv, NEW i \in ISAIDs, NEW row \in ISA \cup {None}, NEW cells,
           isas' = [isas EXCEPT ![i] = row],
           subs' = UpdateNotificationIdxsInCells(cells),
           told' = NotifySubscribers(cells, i, row),
           \/ row = None /\ writes' = writes
           \/ row.version = writes + 1 /\ writes' = writes + 1,
           row # None => row.start < row.end,
           UNCHANGED <<now, answering, gc, failures>>
    PROVE  IInv'
<1>1. TypeOK
  BY DEF IInv
<1>2. /\ subs' \in SubscriptionTable
      /\ \A s \in SubIDs : SameButIndex(subs'[s], subs[s])
  BY <1>1, CountingKeepsRows
<1>3. TypeOK'
  <2>1. writes' \in Nat /\ isas' \in [ISAIDs -> ISA \cup {None}]
    BY <1>1 DEF TypeOK
  <2>2. told' \in [SubIDs -> [ISAIDs -> ISA \cup {None}]]
    BY <1>1, NotifyingKeepsType
  <2>3. TimesOK'
    <3>1. TimesOK /\ isas \in [ISAIDs -> ISA \cup {None}]
      BY <1>1 DEF TypeOK
    <3>2. ASSUME NEW j \in ISAIDs, isas'[j] # None PROVE isas'[j].start < isas'[j].end
      BY <3>1, <3>2 DEF TimesOK
    <3>3. ASSUME NEW s \in SubIDs, subs'[s] # None
          PROVE  subs'[s].end - subs'[s].start \in 1..MaxSubscriptionDuration
      BY <1>2, <3>1, <3>3 DEF TimesOK, SameButIndex
    <3> QED
      BY <3>2, <3>3 DEF TimesOK
  <2> QED
    BY <1>1, <1>2, <2>1, <2>2, <2>3 DEF TypeOK, SubscriptionTable
<1>4. \A j \in ISAIDs : Succeeds(isas'[j], isas[j])
  BY <1>1 DEF Succeeds, TypeOK
<1>5. \A s \in SubIDs : Succeeds(subs'[s], subs[s])
  BY <1>2 DEF Succeeds, SameButIndex
<1> QED
  BY <1>3, <1>4, <1>5, WritesKeepLists DEF IInv

\* PutISA and its answer
LEMMA ISARequestKeepsIInv == IInv /\ ISARequest => IInv'
<1> SUFFICES ASSUME IInv,
                    NEW o \in Owners, NEW w \in Writers, NEW i \in ISAIDs, NEW req \in ISAExtents,
                    \/ InsertISA(o, w, i, req)
                    \/ \E version \in 1..writes : UpdateISA(o, w, i, version, req)
             PROVE  IInv'
  BY DEF ISARequest
<1>1. TypeOK /\ isas[i] \in ISA \cup {None}
  BY DEF IInv, TypeOK
<1>2. CASE InsertISA(o, w, i, req)
  <2> DEFINE isa == NewISA(o, w, req.cells, ISATimes(None, req))
  <2>1. /\ req.end # None /\ InOrder(ISATimes(None, req))
        /\ isas' = [isas EXCEPT ![i] = isa]
        /\ subs' = UpdateNotificationIdxsInCells(req.cells)
        /\ told' = NotifySubscribers(req.cells, i, isa)
        /\ writes' = writes + 1
        /\ UNCHANGED <<now, answering, gc, failures>>
    BY <1>2 DEF InsertISA
  <2>2. isa \in ISA /\ isa.version = writes + 1 /\ isa.start < isa.end
    BY <1>1, <2>1, NewISAType
  <2> HIDE DEF isa
  <2> QED
    BY <2>1, <2>2, ISAWriteKeepsIInv
<1>3. ASSUME NEW version \in 1..writes, UpdateISA(o, w, i, version, req)
      PROVE  IInv'
  <2> DEFINE isa == NewISA(o, w, req.cells, ISATimes(isas[i], req))
             cells == AffectedCells(isas[i], req)
  <2>1. /\ isas[i] # None /\ InOrder(ISATimes(isas[i], req))
        /\ isas' = [isas EXCEPT ![i] = isa]
        /\ subs' = UpdateNotificationIdxsInCells(cells)
        /\ told' = NotifySubscribers(cells, i, isa)
        /\ writes' = writes + 1
        /\ UNCHANGED <<now, answering, gc, failures>>
    BY <1>3 DEF UpdateISA
  <2>2. isa \in ISA /\ isa.version = writes + 1 /\ isa.start < isa.end
    BY <1>1, <2>1, NewISAType
  <2> HIDE DEF isa, cells
  <2> QED
    BY <2>1, <2>2, ISAWriteKeepsIInv
<1> QED
  BY <1>2, <1>3

\* DeleteISA and its answer
LEMMA ISADeletionKeepsIInv == IInv /\ ISADeletion => IInv'
<1> SUFFICES ASSUME IInv, NEW o \in Owners, NEW i \in ISAIDs, NEW version \in 1..writes,
                    DeleteISA(o, i, version)
             PROVE  IInv'
  BY DEF ISADeletion
<1>1. /\ isas' = [isas EXCEPT ![i] = None]
      /\ subs' = UpdateNotificationIdxsInCells(isas[i].cells)
      /\ told' = NotifySubscribers(isas[i].cells, i, None)
      /\ writes' = writes
      /\ UNCHANGED <<now, answering, gc, failures>>
  BY DEF DeleteISA
<1> QED
  BY <1>1, ISAWriteKeepsIInv

\* What a subscription request stores
LEMMA PutSubscriptionStores ==
    ASSUME IInv, NEW o \in Owners, NEW w \in Writers, NEW s \in SubIDs, NEW req \in SubExtents,
           PutSubscription(o, w, s, req)
    PROVE  \E sub \in Subscription :
              /\ sub # None /\ sub.version = writes + 1 /\ sub.cells = req.cells /\ sub.owner = o
              /\ sub.end - sub.start \in 1..MaxSubscriptionDuration
              /\ subs' = [subs EXCEPT ![s] = sub]
              /\ BelowSubscriptionLimit(req.cells, o)
              /\ answering' = answering \cup {[id |-> s, version |-> writes + 1, cells |-> req.cells]}
              /\ writes' = writes + 1
              /\ UNCHANGED <<now, isas, told, gc, failures>>
<1> DEFINE sub == NewSubscription(o, w, req.cells, SubscriptionTimes(subs[s], req))
<1>1. TypeOK /\ subs[s] \in Subscription \cup {None}
  BY DEF IInv, TypeOK
<1>4. /\ InOrder(SubscriptionTimes(subs[s], req))
      /\ SubscriptionTimes(subs[s], req).end - SubscriptionTimes(subs[s], req).start
            <= MaxSubscriptionDuration
  BY DEF PutSubscription
<1>2. /\ sub \in Subscription /\ sub # None
      /\ sub.version = writes + 1 /\ sub.cells = req.cells /\ sub.owner = o
      /\ sub.end - sub.start \in 1..MaxSubscriptionDuration
  BY <1>1, <1>4, NewSubscriptionType
<1>3. /\ subs' = [subs EXCEPT ![s] = sub]
      /\ BelowSubscriptionLimit(req.cells, o)
      /\ answering' = answering \cup {[id |-> s, version |-> writes + 1, cells |-> req.cells]}
      /\ writes' = writes + 1
      /\ UNCHANGED <<now, isas, told, gc, failures>>
  BY DEF PutSubscription
<1> HIDE DEF sub
<1> QED
  BY <1>2, <1>3

\* PutSubscription
LEMMA PutSubscriptionKeepsIInv ==
    ASSUME IInv, NEW o \in Owners, NEW w \in Writers, NEW s \in SubIDs, NEW req \in SubExtents,
           PutSubscription(o, w, s, req)
    PROVE  IInv'
<1>1. PICK sub \in Subscription :
              /\ sub # None /\ sub.version = writes + 1
              /\ sub.end - sub.start \in 1..MaxSubscriptionDuration
              /\ subs' = [subs EXCEPT ![s] = sub]
              /\ answering' = answering \cup {[id |-> s, version |-> writes + 1, cells |-> req.cells]}
              /\ writes' = writes + 1
              /\ UNCHANGED <<now, isas, told, gc, failures>>
  BY PutSubscriptionStores
<1>2. TypeOK
  BY DEF IInv
<1>3. TypeOK'
  <2>1. subs' \in [SubIDs -> Subscription \cup {None}] /\ writes' \in Nat
    BY <1>1, <1>2 DEF TypeOK
  <2>2. answering' \subseteq Answer
    <3>1. req.cells \in SUBSET Cells
      BY ExtentsAssumption DEF Request
    <3> QED
      BY <1>1, <1>2, <2>1, <3>1 DEF TypeOK, Answer
  <2>3. TimesOK'
    BY <1>1, <1>2 DEF TypeOK, TimesOK
  <2> QED
    BY <1>1, <1>2, <2>1, <2>2, <2>3 DEF TypeOK
<1>4. \A j \in ISAIDs : Succeeds(isas'[j], isas[j])
  BY <1>1 DEF Succeeds
<1>5. \A x \in SubIDs : Succeeds(subs'[x], subs[x])
  BY <1>1, <1>2 DEF Succeeds, TypeOK
<1> QED
  BY <1>1, <1>3, <1>4, <1>5, WritesKeepLists DEF IInv

\* A subscription request is answered with the ISAs of its cells
LEMMA AnswerKeepsIInv ==
    ASSUME IInv, NEW r \in answering, AnswerSubscription(r)
    PROVE  IInv'
<1>1. TypeOK /\ UNCHANGED <<now, writes, isas, subs, gc, failures>>
  BY DEF IInv, AnswerSubscription
<1>2. TypeOK'
  <2>1. told' \in [SubIDs -> [ISAIDs -> ISA \cup {None}]]
    <3>1. PICK found \in SearchISAs(r.cells) :
            told' = IF LastRequest(r)
                    THEN [told EXCEPT ![r.id] = [i \in ISAIDs |-> IF i \in found THEN isas[i] ELSE None]]
                    ELSE told
      BY DEF AnswerSubscription
    <3>2. [i \in ISAIDs |-> IF i \in found THEN isas[i] ELSE None] \in [ISAIDs -> ISA \cup {None}]
      BY <1>1 DEF TypeOK
    <3>3. told \in [SubIDs -> [ISAIDs -> ISA \cup {None}]]
      BY <1>1 DEF TypeOK
    <3> QED
      BY <3>1, <3>2, <3>3
  <2>2. TimesOK'
    BY <1>1 DEF TypeOK, TimesOK
  <2> QED
    BY <1>1, <2>1, <2>2 DEF AnswerSubscription, TypeOK
<1>3. /\ \A j \in ISAIDs : Succeeds(isas'[j], isas[j])
      /\ \A x \in SubIDs : Succeeds(subs'[x], subs[x])
      /\ now' = now /\ writes' = writes /\ gc' = gc
  BY DEF AnswerSubscription, Succeeds
<1> QED
  BY <1>2, <1>3, WritesKeepLists DEF IInv

\* Removing a row
LEMMA RemoveSubscriptionKeepsType ==
    ASSUME TypeOK, NEW s \in SubIDs, RemoveSubscription(s)
    PROVE  /\ subs' \in [SubIDs -> Subscription \cup {None}]
           /\ subs' = [subs EXCEPT ![s] = None]
           /\ \A x \in SubIDs : subs'[x] # None =>
                 subs'[x].end - subs'[x].start \in 1..MaxSubscriptionDuration
           /\ told' \in [SubIDs -> [ISAIDs -> ISA \cup {None}]]
BY DEF TypeOK, TimesOK, RemoveSubscription, Nothing

\* DeleteSubscription
LEMMA SubscriptionDeletionKeepsIInv == IInv /\ SubscriptionDeletion => IInv'
<1> SUFFICES ASSUME IInv, NEW o \in Owners, NEW s \in SubIDs, NEW version \in 1..writes,
                    DeleteSubscription(o, s, version)
             PROVE  IInv'
  BY DEF SubscriptionDeletion
<1>1. TypeOK
  BY DEF IInv
<1>2. RemoveSubscription(s) /\ UNCHANGED <<now, writes, isas, answering, gc, failures>>
  BY DEF DeleteSubscription
<1>3. TypeOK'
  BY <1>1, <1>2, RemoveSubscriptionKeepsType DEF TypeOK, TimesOK
<1>4. /\ \A j \in ISAIDs : Succeeds(isas'[j], isas[j])
      /\ \A x \in SubIDs : Succeeds(subs'[x], subs[x])
  BY <1>1, <1>2, RemoveSubscriptionKeepsType DEF Succeeds, TypeOK
<1> QED
  BY <1>2, <1>3, <1>4, WritesKeepLists DEF IInv

-----------------------------------------------------------------------------
(***************************************************************************)
(* The garbage collector keeps the invariant and deletes only what expired *)
(***************************************************************************)

GCState == [step : {"idle", "isas", "isasDone", "subs"},
            list : SUBSET (Listed(ISAIDs) \cup Listed(SubIDs))]

\* The rows that the step changes were expired
ChangesExpiredOnly ==
    /\ \A i \in ISAIDs : isas'[i] # isas[i] => Expired(isas[i])
    /\ \A s \in SubIDs : subs'[s] # subs[s] => Expired(subs[s])

\* Collector w goes on with a list whose rows are expired unless they were written since, and rows
\* are only removed
LEMMA CollectorKeepsLists ==
    ASSUME IInv, TypeOK', NEW w \in Writers, NEW g \in GCState,
           UNCHANGED <<now, writes>>, gc' = [gc EXCEPT ![w] = g],
           \A i \in ISAIDs : isas'[i] \in {isas[i], None},
           \A s \in SubIDs : subs'[s] \in {subs[s], None},
           g.step = "isas" => \A r \in g.list :
                /\ r.id \in ISAIDs /\ r.version <= writes
                /\ StillListed(isas[r.id], r) => Expired(isas[r.id]),
           g.step = "subs" => \A r \in g.list :
                /\ r.id \in SubIDs /\ r.version <= writes
                /\ StillListed(subs[r.id], r) => Expired(subs[r.id])
    PROVE  Lists'
<1>1. \A x \in Writers : gc'[x] = IF x = w THEN g ELSE gc[x]
  BY DEF IInv, TypeOK
<1>2. VersionsIssued'
  BY DEF IInv, Lists, VersionsIssued
<1>3. \A i \in ISAIDs : isas'[i] # None => isas'[i] = isas[i]
  OBVIOUS
<1>4. \A s \in SubIDs : subs'[s] # None => subs'[s] = subs[s]
  OBVIOUS
<1>5. ISAListsExpired'
  BY <1>1, <1>3 DEF IInv, Lists, ISAListsExpired, StillListed, Expired
<1>6. SubscriptionListsExpired'
  BY <1>1, <1>4 DEF IInv, Lists, SubscriptionListsExpired, StillListed, Expired
<1> QED
  BY <1>2, <1>5, <1>6 DEF Lists

\* The collector lists the expired ISAs
LEMMA GCListISAsKeepsIInv ==
    ASSUME IInv, NEW w \in Writers, GCListISAs(w)
    PROVE  IInv' /\ ChangesExpiredOnly
<1>1. PICK found \in ListExpiredISAs(w) :
         gc' = [gc EXCEPT ![w] =
                  [step |-> "isas",
                   list |-> {[id |-> i, version |-> isas[i].version] : i \in found}]]
  BY DEF GCListISAs
<1> DEFINE list == {[id |-> i, version |-> isas[i].version] : i \in found}
           g == [step |-> "isas", list |-> list]
<1>2. UNCHANGED <<now, writes, isas, subs, answering, told, failures>>
  BY DEF GCListISAs
<1>3. TypeOK /\ VersionsIssued
  BY DEF IInv, Lists
<1>4. \A i \in found : i \in ISAIDs /\ Expired(isas[i])
  BY DEF ListExpiredISAs, Limited
<1>5. ASSUME NEW r \in list
      PROVE  /\ r \in Listed(ISAIDs)
             /\ r.id \in ISAIDs /\ r.version <= writes
             /\ Expired(isas[r.id])
  <2>1. PICK i \in found : r = [id |-> i, version |-> isas[i].version]
    OBVIOUS
  <2>2. i \in ISAIDs /\ Expired(isas[i]) /\ isas[i] # None
    BY <1>4 DEF Expired
  <2>3. isas[i].version \in Nat /\ isas[i].version <= writes
    BY <1>3, <2>2 DEF TypeOK, VersionsIssued, ISA
  <2> QED
    BY <2>1, <2>2, <2>3 DEF Listed
<1>6. g \in GCState
  BY <1>5 DEF GCState
<1>7. TypeOK'
  BY <1>1, <1>2, <1>3, <1>6 DEF TypeOK, TimesOK, GCState
<1>8. Lists'
  <2> HIDE DEF list
  <2> QED
    BY <1>1, <1>2, <1>5, <1>6, <1>7, CollectorKeepsLists DEF list
<1> QED
  BY <1>2, <1>7, <1>8 DEF IInv, ChangesExpiredOnly

\* The collector deletes a listed ISA if it has not changed
LEMMA GCDeleteISAKeepsIInv ==
    ASSUME IInv, NEW w \in Writers, GCDeleteISA(w)
    PROVE  IInv' /\ ChangesExpiredOnly
<1>1. PICK r \in gc[w].list :
         LET deleted == StillListed(isas[r.id], r)
         IN  /\ isas' = IF deleted THEN [isas EXCEPT ![r.id] = None] ELSE isas
             /\ gc' = [gc EXCEPT
                         ![w] = [step |-> IF deleted THEN "isasDone" ELSE "isas",
                                 list |-> @.list \ {r}]]
  BY DEF GCDeleteISA
<1> DEFINE deleted == StillListed(isas[r.id], r)
           g == [step |-> IF deleted THEN "isasDone" ELSE "isas", list |-> gc[w].list \ {r}]
<1>2. UNCHANGED <<now, writes, subs, answering, told, failures>> /\ gc[w].step = "isas"
  BY DEF GCDeleteISA
<1>3. TypeOK /\ ISAListsExpired
  BY DEF IInv, Lists
<1>4. gc[w] \in GCState
  BY <1>3 DEF TypeOK, GCState
<1>5. g \in GCState
  BY <1>4 DEF GCState
<1>6. gc' = [gc EXCEPT ![w] = g]
  BY <1>1
<1>7. \A q \in gc[w].list :
          /\ q.id \in ISAIDs /\ q.version <= writes
          /\ StillListed(isas[q.id], q) => Expired(isas[q.id])
  BY <1>2, <1>3 DEF ISAListsExpired
<1>8. \A i \in ISAIDs : isas'[i] \in {isas[i], None}
  BY <1>1, <1>3 DEF TypeOK
<1>9. TypeOK'
  <2>1. isas' \in [ISAIDs -> ISA \cup {None}]
    BY <1>1, <1>3 DEF TypeOK
  <2> QED
    BY <1>2, <1>3, <1>5, <1>6, <1>8, <2>1 DEF TypeOK, TimesOK, GCState
<1>10. Lists'
  BY <1>2, <1>5, <1>6, <1>7, <1>8, <1>9, CollectorKeepsLists
<1>11. \A i \in ISAIDs : isas'[i] # isas[i] => Expired(isas[i])
  BY <1>1, <1>3, <1>7 DEF TypeOK
<1> QED
  BY <1>2, <1>9, <1>10, <1>11 DEF IInv, ChangesExpiredOnly

\* The collector lists the expired subscriptions
LEMMA GCListSubscriptionsKeepsIInv ==
    ASSUME IInv, NEW w \in Writers, GCListSubscriptions(w)
    PROVE  IInv' /\ ChangesExpiredOnly
<1> DEFINE list == {[id |-> s, version |-> subs[s].version] : s \in ListExpiredSubscriptions(w)}
           g == [step |-> "subs", list |-> list]
<1>1. /\ gc' = [gc EXCEPT ![w] = g]
      /\ UNCHANGED <<now, writes, isas, subs, answering, told, failures>>
  BY DEF GCListSubscriptions
<1>2. TypeOK /\ VersionsIssued
  BY DEF IInv, Lists
<1>3. ASSUME NEW r \in list
      PROVE  /\ r \in Listed(SubIDs)
             /\ r.id \in SubIDs /\ r.version <= writes
             /\ Expired(subs[r.id])
  <2>1. PICK s \in ListExpiredSubscriptions(w) : r = [id |-> s, version |-> subs[s].version]
    OBVIOUS
  <2>2. s \in SubIDs /\ Expired(subs[s]) /\ subs[s] # None
    BY DEF ListExpiredSubscriptions, Expired
  <2>3. subs[s].version \in Nat /\ subs[s].version <= writes
    BY <1>2, <2>2 DEF TypeOK, VersionsIssued, Subscription
  <2> QED
    BY <2>1, <2>2, <2>3 DEF Listed
<1>4. g \in GCState
  BY <1>3 DEF GCState
<1>5. TypeOK'
  BY <1>1, <1>2, <1>4 DEF TypeOK, TimesOK, GCState
<1>6. Lists'
  <2> HIDE DEF list
  <2> QED
    BY <1>1, <1>3, <1>4, <1>5, CollectorKeepsLists DEF list
<1> QED
  BY <1>1, <1>5, <1>6 DEF IInv, ChangesExpiredOnly

\* The collector deletes a listed subscription if it has not changed
LEMMA GCDeleteSubscriptionKeepsIInv ==
    ASSUME IInv, NEW w \in Writers, GCDeleteSubscription(w)
    PROVE  IInv' /\ ChangesExpiredOnly
<1>1. PICK r \in gc[w].list :
         IF StillListed(subs[r.id], r)
         THEN /\ RemoveSubscription(r.id)
              /\ gc' = [gc EXCEPT ![w] = Idle]
         ELSE /\ gc' = [gc EXCEPT ![w].list = @ \ {r}]
              /\ UNCHANGED <<subs, told>>
  BY DEF GCDeleteSubscription
<1>2. UNCHANGED <<now, writes, isas, answering, failures>> /\ gc[w].step = "subs"
  BY DEF GCDeleteSubscription
<1>3. TypeOK /\ SubscriptionListsExpired
  BY DEF IInv, Lists
<1>4. gc[w] \in GCState
  BY <1>3 DEF TypeOK, GCState
<1>5. \A q \in gc[w].list :
          /\ q.id \in SubIDs /\ q.version <= writes
          /\ StillListed(subs[q.id], q) => Expired(subs[q.id])
  BY <1>2, <1>3 DEF SubscriptionListsExpired
<1>6. CASE StillListed(subs[r.id], r)
  <2>1. RemoveSubscription(r.id) /\ gc' = [gc EXCEPT ![w] = Idle]
    BY <1>1, <1>6
  <2>2. Idle \in GCState /\ Idle.step = "idle"
    BY DEF Idle, GCState
  <2>3. /\ subs' \in [SubIDs -> Subscription \cup {None}]
        /\ subs' = [subs EXCEPT ![r.id] = None]
        /\ \A x \in SubIDs : subs'[x] # None =>
              subs'[x].end - subs'[x].start \in 1..MaxSubscriptionDuration
        /\ told' \in [SubIDs -> [ISAIDs -> ISA \cup {None}]]
    BY <1>3, <1>5, <2>1, RemoveSubscriptionKeepsType
  <2>4. TypeOK'
    BY <1>2, <1>3, <2>1, <2>2, <2>3 DEF TypeOK, TimesOK, GCState
  <2>5. \A s \in SubIDs : subs'[s] \in {subs[s], None}
    BY <1>3, <2>3 DEF TypeOK
  <2>6. Lists'
    BY <1>2, <2>1, <2>2, <2>4, <2>5, CollectorKeepsLists
  <2>7. \A s \in SubIDs : subs'[s] # subs[s] => Expired(subs[s])
    BY <1>3, <1>5, <1>6, <2>3 DEF TypeOK
  <2> QED
    BY <1>2, <2>4, <2>6, <2>7 DEF IInv, ChangesExpiredOnly
<1>7. CASE ~StillListed(subs[r.id], r)
  <2> DEFINE g == [step |-> "subs", list |-> gc[w].list \ {r}]
  <2>1. /\ gc' = [gc EXCEPT ![w] = g]
        /\ UNCHANGED <<subs, told>>
    BY <1>1, <1>2, <1>4, <1>7 DEF GCState
  <2>2. g \in GCState
    BY <1>4 DEF GCState
  <2>3. TypeOK'
    BY <1>2, <1>3, <2>1, <2>2 DEF TypeOK, TimesOK, GCState
  <2>4. Lists'
    BY <1>2, <1>5, <2>1, <2>2, <2>3, CollectorKeepsLists
  <2> QED
    BY <1>2, <2>1, <2>3, <2>4 DEF IInv, ChangesExpiredOnly
<1> QED
  BY <1>6, <1>7

\* A run that ends, or is cut short
LEMMA GCEndKeepsIInv ==
    ASSUME IInv, NEW w \in Writers, GCFinish(w) \/ GCFail(w)
    PROVE  IInv' /\ ChangesExpiredOnly
<1>1. /\ gc' = [gc EXCEPT ![w] = Idle]
      /\ UNCHANGED <<now, writes, isas, subs, answering, told>>
      /\ failures' \in {failures, failures + 1}
  BY DEF GCFinish, GCFail
<1>2. Idle \in GCState /\ Idle.step = "idle"
  BY DEF Idle, GCState
<1>3. TypeOK'
  BY <1>1, <1>2 DEF IInv, TypeOK, TimesOK, GCState
<1>4. Lists'
  BY <1>1, <1>2, <1>3, CollectorKeepsLists
<1> QED
  BY <1>1, <1>3, <1>4 DEF IInv, ChangesExpiredOnly

-----------------------------------------------------------------------------
\* Empty tables and lists
LEMMA InitIInv == Init => IInv
<1> SUFFICES ASSUME Init PROVE IInv
  OBVIOUS
<1>1. TypeOK
  BY DEF Init, TypeOK, TimesOK, Nothing, Idle
<1>2. Lists
  BY DEF Init, Lists, VersionsIssued, ISAListsExpired, SubscriptionListsExpired, Idle
<1> QED
  BY <1>1, <1>2 DEF IInv

\* What is expired stays expired
LEMMA TickKeepsIInv == IInv /\ Tick => IInv'
<1> SUFFICES ASSUME IInv, Tick PROVE IInv'
  OBVIOUS
<1>1. TypeOK'
  BY DEF IInv, TypeOK, TimesOK, Tick
<1>2. /\ \A j \in ISAIDs : Succeeds(isas'[j], isas[j])
      /\ \A x \in SubIDs : Succeeds(subs'[x], subs[x])
      /\ now' = now + 1 /\ writes' = writes /\ gc' = gc
  BY DEF Tick, Succeeds
<1> QED
  BY <1>1, <1>2, WritesKeepLists DEF IInv

\* The invariant is inductive
LEMMA NextIInv == IInv /\ [Next]_vars => IInv' /\ (gc' # gc => ChangesExpiredOnly)
<1> SUFFICES ASSUME IInv, [Next]_vars
             PROVE  IInv' /\ (gc' # gc => ChangesExpiredOnly)
  OBVIOUS
<1>1. CASE ISARequest
  <2>1. gc' = gc
    BY <1>1 DEF ISARequest, InsertISA, UpdateISA
  <2> QED
    BY <1>1, <2>1, ISARequestKeepsIInv
<1>2. CASE ISADeletion
  <2>1. gc' = gc
    BY <1>2 DEF ISADeletion, DeleteISA
  <2> QED
    BY <1>2, <2>1, ISADeletionKeepsIInv
<1>3. CASE SubscriptionRequest
  <2>1. PICK o \in Owners, w \in Writers, s \in SubIDs, req \in SubExtents :
            PutSubscription(o, w, s, req)
    BY <1>3 DEF SubscriptionRequest, InsertSubscription, UpdateSubscription
  <2>2. gc' = gc
    BY <2>1 DEF PutSubscription
  <2> QED
    BY <2>1, <2>2, PutSubscriptionKeepsIInv
<1>4. CASE SubscriptionDeletion
  <2>1. gc' = gc
    BY <1>4 DEF SubscriptionDeletion, DeleteSubscription
  <2> QED
    BY <1>4, <2>1, SubscriptionDeletionKeepsIInv
<1>5. ASSUME NEW r \in answering, AnswerSubscription(r)
      PROVE  IInv' /\ gc' = gc
  BY <1>5, AnswerKeepsIInv DEF AnswerSubscription
<1>6. ASSUME NEW w \in Writers, GCStep(w) \/ GCFail(w)
      PROVE  IInv' /\ ChangesExpiredOnly
  BY <1>6, GCListISAsKeepsIInv, GCDeleteISAKeepsIInv, GCListSubscriptionsKeepsIInv,
     GCDeleteSubscriptionKeepsIInv, GCEndKeepsIInv DEF GCStep
<1>7. CASE Tick
  BY <1>7, TickKeepsIInv DEF Tick
<1>8. CASE UNCHANGED vars
  BY <1>8 DEF vars, IInv, TypeOK, TimesOK, Lists, VersionsIssued, ISAListsExpired,
              SubscriptionListsExpired, StillListed, Expired
<1> QED
  BY <1>1, <1>2, <1>3, <1>4, <1>5, <1>6, <1>7, <1>8 DEF Next

(***************************************************************************)
(* The tables, the answers owed and the garbage collectors' lists of       *)
(* pkg/rid always have their types, every row ends after it starts, and no *)
(* subscription is longer than a day, whichever of the times an update     *)
(* carries over (models/subscriptions.go:71-109, and the tables' CHECKs).  *)
(***************************************************************************)
THEOREM TypeCorrect == Spec => []TypeOK
BY InitIInv, NextIInv, PTL DEF Spec, IInv

(***************************************************************************)
(* However requests interleave with the garbage collectors, these delete   *)
(* only expired rows: the updated_at condition is enough to protect rows   *)
(* that are renewed, or deleted and created again, after they were listed  *)
(* (identification_service_area.go:209-217, subscriptions.go:255-262).     *)
(***************************************************************************)
THEOREM CollectsOnlyExpired == Spec => OnlyExpiredCollected
BY InitIInv, NextIInv, PTL DEF Spec, OnlyExpiredCollected, ChangesExpiredOnly

-----------------------------------------------------------------------------
(***************************************************************************)
(* The limit of subscriptions                                              *)
(***************************************************************************)

\* The live subscriptions of an owner in a cell
LiveInCell(o, c) ==
    {s \in SubIDs : Live(subs[s]) /\ subs[s].owner = o /\ c \in subs[s].cells}

\* The subscriptions that count for the limit are finitely many
LEMMA LiveInCellFinite ==
    ASSUME NEW o, NEW c
    PROVE  /\ IsFiniteSet(LiveInCell(o, c)) /\ Cardinality(LiveInCell(o, c)) \in Nat
           /\ IsFiniteSet(LiveInCell(o, c)') /\ Cardinality(LiveInCell(o, c)') \in Nat
<1>1. LiveInCell(o, c) \subseteq SubIDs /\ LiveInCell(o, c)' \subseteq SubIDs
  BY DEF LiveInCell
<1> QED
  BY <1>1, TableAssumption, FS_Subset, FS_CardinalityType

\* Rows that are removed, counted or left to time never exceed the limit
LEMMA LimitKept ==
    ASSUME TypeOK, TypeOK', SubscriptionLimit, now <= now',
           \A s \in SubIDs : subs'[s] # None => SameButIndex(subs'[s], subs[s])
    PROVE  SubscriptionLimit'
<1> SUFFICES ASSUME NEW o \in Owners, NEW c \in Cells
             PROVE  Cardinality(LiveInCell(o, c)') <= MaxSubscriptionsPerArea
  BY DEF SubscriptionLimit, LiveInCell, Live
<1>1. Cardinality(LiveInCell(o, c)) <= MaxSubscriptionsPerArea
  BY DEF SubscriptionLimit, LiveInCell
<1>2. LiveInCell(o, c)' \subseteq LiveInCell(o, c)
  <2> SUFFICES ASSUME NEW s \in SubIDs, subs'[s] # None, subs'[s].end >= now',
                      subs'[s].owner = o, c \in subs'[s].cells
               PROVE  Live(subs[s]) /\ subs[s].owner = o /\ c \in subs[s].cells
    BY DEF LiveInCell, Live
  <2>1. SameButIndex(subs'[s], subs[s])
    OBVIOUS
  <2>2. subs[s] # None /\ subs'[s].end = subs[s].end
    BY <2>1 DEF SameButIndex
  <2>3. subs[s].end \in Int /\ now \in Nat /\ now' \in Nat
    BY <2>2 DEF TypeOK, Subscription
  <2> QED
    BY <2>1, <2>2, <2>3 DEF SameButIndex, Live
<1>3. Cardinality(LiveInCell(o, c)') <= Cardinality(LiveInCell(o, c))
  BY <1>2, LiveInCellFinite, FS_Subset
<1> QED
  BY <1>1, <1>3, LiveInCellFinite, BoundsAssumption

\* A subscription comes into cells with room for one more
LEMMA PutSubscriptionKeepsLimit ==
    ASSUME IInv, SubscriptionLimit,
           NEW o \in Owners, NEW w \in Writers, NEW s \in SubIDs, NEW req \in SubExtents,
           PutSubscription(o, w, s, req)
    PROVE  SubscriptionLimit'
<1>1. PICK sub \in Subscription :
              /\ sub # None /\ sub.cells = req.cells /\ sub.owner = o
              /\ subs' = [subs EXCEPT ![s] = sub]
              /\ BelowSubscriptionLimit(req.cells, o)
              /\ now' = now
  BY PutSubscriptionStores
<1>2. subs \in [SubIDs -> Subscription \cup {None}]
  BY DEF IInv, TypeOK
<1> SUFFICES ASSUME NEW p \in Owners, NEW c \in Cells
             PROVE  Cardinality(LiveInCell(p, c)') <= MaxSubscriptionsPerArea
  BY DEF SubscriptionLimit, LiveInCell, Live
<1>3. Cardinality(LiveInCell(p, c)) <= MaxSubscriptionsPerArea
  BY DEF SubscriptionLimit, LiveInCell
<1>4. \A x \in SubIDs \ {s} : subs'[x] = subs[x]
  BY <1>1, <1>2
<1>5. subs'[s] = sub
  BY <1>1, <1>2
<1>6. CASE p = o /\ c \in req.cells
  <2>1. LiveInCell(o, c) = {x \in SubscriptionsInCells({c}) : subs[x].owner = o}
    BY DEF LiveInCell, SubscriptionsInCells, Overlap
  <2>2. Cardinality(LiveInCell(o, c)) < MaxSubscriptionsPerArea
    BY <1>1, <1>6, <2>1 DEF BelowSubscriptionLimit
  <2>3. LiveInCell(o, c)' \subseteq LiveInCell(o, c) \cup {s}
    BY <1>1, <1>4 DEF LiveInCell, Live
  <2>4. /\ IsFiniteSet(LiveInCell(o, c) \cup {s})
        /\ Cardinality(LiveInCell(o, c) \cup {s}) <= Cardinality(LiveInCell(o, c)) + 1
    <3>1. IsFiniteSet(LiveInCell(o, c)) /\ Cardinality(LiveInCell(o, c)) \in Nat
      BY LiveInCellFinite
    <3>2. /\ IsFiniteSet(LiveInCell(o, c) \cup {s})
          /\ Cardinality(LiveInCell(o, c) \cup {s})
               = IF s \in LiveInCell(o, c) THEN Cardinality(LiveInCell(o, c))
                 ELSE Cardinality(LiveInCell(o, c)) + 1
      BY <3>1, FS_AddElement
    <3> QED
      BY <3>1, <3>2
  <2>5. Cardinality(LiveInCell(o, c)') <= Cardinality(LiveInCell(o, c) \cup {s})
    BY <2>3, <2>4, FS_Subset
  <2>6. Cardinality(LiveInCell(o, c) \cup {s}) \in Nat
    BY <2>4, FS_CardinalityType
  <2> QED
    BY <1>6, <2>2, <2>4, <2>5, <2>6, LiveInCellFinite, BoundsAssumption
<1>7. CASE ~(p = o /\ c \in req.cells)
  <2>1. LiveInCell(p, c)' \subseteq LiveInCell(p, c)
    BY <1>1, <1>4, <1>5, <1>7 DEF LiveInCell, Live
  <2>2. Cardinality(LiveInCell(p, c)') <= Cardinality(LiveInCell(p, c))
    BY <2>1, LiveInCellFinite, FS_Subset
  <2> QED
    BY <1>3, <2>2, LiveInCellFinite, BoundsAssumption
<1> QED
  BY <1>6, <1>7

\* What a step other than a subscription request does to the subscriptions
LEMMA OtherStepsKeepRows ==
    ASSUME IInv, [Next]_vars, ~SubscriptionRequest
    PROVE  /\ now <= now'
           /\ \A s \in SubIDs : subs'[s] # None => SameButIndex(subs'[s], subs[s])
<1>1. TypeOK /\ now \in Nat
  BY DEF IInv, TypeOK
<1>2. \A s \in SubIDs : SameButIndex(subs[s], subs[s])
  BY DEF SameButIndex
<1>3. ASSUME NEW cells, subs' = UpdateNotificationIdxsInCells(cells)
      PROVE  \A s \in SubIDs : SameButIndex(subs'[s], subs[s])
  BY <1>1, <1>3, CountingKeepsRows
<1>4. CASE ISARequest
  BY <1>1, <1>3, <1>4 DEF ISARequest, InsertISA, UpdateISA
<1>5. CASE ISADeletion
  BY <1>1, <1>3, <1>5 DEF ISADeletion, DeleteISA
<1>6. ASSUME NEW s \in SubIDs, RemoveSubscription(s)
      PROVE  \A x \in SubIDs : subs'[x] # None => SameButIndex(subs'[x], subs[x])
  BY <1>1, <1>2, <1>6 DEF RemoveSubscription, TypeOK
<1>7. CASE SubscriptionDeletion
  BY <1>1, <1>6, <1>7 DEF SubscriptionDeletion, DeleteSubscription
<1>8. ASSUME NEW r \in answering, AnswerSubscription(r)
      PROVE  subs' = subs /\ now' = now
  BY <1>8 DEF AnswerSubscription
<1>9. ASSUME NEW w \in Writers, GCStep(w) \/ GCFail(w)
      PROVE  /\ now' = now
             /\ \A s \in SubIDs : subs'[s] # None => SameButIndex(subs'[s], subs[s])
  <2>1. CASE GCDeleteSubscription(w)
    <3>1. gc[w].step = "subs"
      BY <2>1 DEF GCDeleteSubscription
    <3>2. \A r \in gc[w].list : r.id \in SubIDs
      BY <3>1 DEF IInv, Lists, SubscriptionListsExpired
    <3> QED
      BY <1>2, <1>6, <2>1, <3>2 DEF GCDeleteSubscription
  <2>2. CASE \/ GCListISAs(w) \/ GCDeleteISA(w) \/ GCListSubscriptions(w) \/ GCFinish(w)
             \/ GCFail(w)
    BY <1>2, <2>2 DEF GCListISAs, GCDeleteISA, GCListSubscriptions, GCFinish, GCFail
  <2> QED
    BY <1>9, <2>1, <2>2 DEF GCStep
<1>10. CASE Tick \/ UNCHANGED vars
  BY <1>1, <1>2, <1>10 DEF Tick, vars
<1> QED
  BY <1>1, <1>2, <1>4, <1>5, <1>7, <1>8, <1>9, <1>10 DEF Next

\* No step brings a cell above the limit
LEMMA NextLimit ==
    ASSUME IInv, IInv', SubscriptionLimit, [Next]_vars
    PROVE  SubscriptionLimit'
<1>1. CASE SubscriptionRequest
  BY <1>1, PutSubscriptionKeepsLimit DEF SubscriptionRequest, InsertSubscription,
                                         UpdateSubscription
<1>2. CASE ~SubscriptionRequest
  BY <1>2, OtherStepsKeepRows, LimitKept DEF IInv
<1> QED
  BY <1>1, <1>2

(***************************************************************************)
(* No owner ever has more than the permitted number of live subscriptions  *)
(* in a cell, whatever requests insert, move or renew them: counting per   *)
(* cell inside the transaction is enough (subscription.go:15-18, 83-96).   *)
(***************************************************************************)
THEOREM LimitAlwaysKept == Spec => []SubscriptionLimit
<1>1. Init => SubscriptionLimit
  <2> SUFFICES ASSUME Init, NEW o \in Owners, NEW c \in Cells
               PROVE  Cardinality(LiveInCell(o, c)) <= MaxSubscriptionsPerArea
    BY DEF SubscriptionLimit, LiveInCell
  <2>1. LiveInCell(o, c) = {}
    BY DEF Init, LiveInCell, Live
  <2> QED
    BY <2>1, FS_EmptySet, BoundsAssumption
<1>2. IInv /\ IInv' /\ SubscriptionLimit /\ [Next]_vars => SubscriptionLimit'
  BY NextLimit
<1> QED
  BY <1>1, <1>2, InitIInv, NextIInv, PTL DEF Spec

-----------------------------------------------------------------------------
(***************************************************************************)
(* What subscribers know, as long as no search is cut off by its LIMIT     *)
(***************************************************************************)

NothingCutOff == Cardinality(ISAIDs) <= MaxResultLimit

\* A search then returns every row that matches
LEMMA SearchIsComplete ==
    ASSUME NothingCutOff, NEW S \in SUBSET ISAIDs
    PROVE  Limited(S) = {S}
<1>1. Cardinality(S) <= Cardinality(ISAIDs) /\ IsFiniteSet(S)
  BY FS_Subset, TableAssumption
<1>2. Cardinality(S) \in Nat /\ Cardinality(ISAIDs) \in Nat
  BY <1>1, FS_CardinalityType, TableAssumption
<1>3. Cardinality(S) <= MaxResultLimit
  BY <1>1, <1>2, LimitAssumption DEF NothingCutOff
<1> QED
  BY <1>3 DEF Limited

\* Normalizing a union of level-13 cells and going back to level 13 loses none and adds none
LEMMA AffectedCellsAreUnion ==
    ASSUME NEW old \in ISA, NEW req \in ISAExtents
    PROVE  AffectedCells(old, req) = old.cells \cup req.cells
<1> DEFINE cells == old.cells \cup req.cells
           whole == {p \in Parents : Children[p] \subseteq cells \/ p \in cells}
           inside == UNION {Children[p] : p \in whole}
<1>1. cells \subseteq Cells
  BY ExtentsAssumption DEF ISA, Request
<1>2. Normalize(cells) = (cells \ inside) \cup whole
  BY DEF Normalize
<1>3. \A p \in whole : Children[p] \subseteq cells
  BY <1>1, CellsAssumption
<1>4. \A p \in Parents : p \in Normalize(cells) => p \in whole
  BY <1>1, <1>2, CellsAssumption
<1>5. \A p \in whole : p \in Parents /\ p \in Normalize(cells)
  BY <1>2
<1>6. ASSUME NEW c \in Cells
      PROVE  c \in Region(Normalize(cells)) <=> c \in cells
  <2>1. c \in Normalize(cells) <=> c \in cells /\ c \notin inside
    BY <1>2, CellsAssumption
  <2>2. c \in inside <=> \E p \in whole : c \in Children[p]
    OBVIOUS
  <2> HIDE DEF cells, whole, inside
  <2> QED
    BY <1>3, <1>4, <1>5, <2>1, <2>2 DEF Region
<1>7. Region(Normalize(cells)) \subseteq Cells
  BY DEF Region
<1> QED
  BY <1>1, <1>6, <1>7 DEF AffectedCells, Levelify, CellUnionFromUnion

\* The answer to the last request for the subscription is still owed
Awaited(s) == \E r \in answering : r.id = s /\ LastRequest(r)

\* The state of the subscriptions that are to know, for ISA i
Informed(s, i) == Current(told[s][i]) = Current(Picture(s, isas[i]))

\* An ISA changes within the cells that are notified
LEMMA ISAWriteInforms ==
    ASSUME IInv, SubscribersInformed,
           NEW i \in ISAIDs, NEW row \in ISA \cup {None}, NEW cells,
           isas[i] # None => isas[i].cells \subseteq cells,
           row # None => row.cells \subseteq cells,
           isas' = [isas EXCEPT ![i] = row],
           subs' = UpdateNotificationIdxsInCells(cells),
           told' = NotifySubscribers(cells, i, row),
           UNCHANGED <<now, answering>>
    PROVE  SubscribersInformed'
<1> SUFFICES ASSUME NEW s \in SubIDs, Live(subs[s])', ~Awaited(s)', NEW j \in ISAIDs
             PROVE  Informed(s, j)'
  BY DEF SubscribersInformed, Informed, Awaited
<1>1. TypeOK
  BY DEF IInv
<1>2. SameButIndex(subs'[s], subs[s])
  BY <1>1, CountingKeepsRows
<1>3. subs'[s].cells = subs[s].cells /\ Live(subs[s]) /\ ~Awaited(s)
  BY <1>2 DEF SameButIndex, Live, Awaited, LastRequest
<1>4. Informed(s, j)
  BY <1>3 DEF SubscribersInformed, Informed, Awaited
<1>5. \A x : Current(x)' = Current(x)
  BY DEF Current, Live
<1>6. CASE j = i
  <2>1. isas'[i] = row
    BY <1>1 DEF TypeOK
  <2>2. Picture(s, isas[i])' = Picture(s, row)
    BY <1>3, <2>1 DEF Picture
  <2>3. CASE s \in SubscriptionsInCells(cells)
    <3>1. told'[s] = [told[s] EXCEPT ![i] = Picture(s, row)]
      BY <2>3 DEF NotifySubscribers
    <3>2. told'[s][i] = Picture(s, row)
      BY <1>1, <3>1 DEF TypeOK
    <3> QED
      BY <1>6, <2>2, <3>2 DEF Informed, Current, Live
  <2>4. CASE s \notin SubscriptionsInCells(cells)
    <3>1. told'[s] = told[s]
      BY <2>4 DEF NotifySubscribers
    <3>2. subs[s].cells \cap cells = {}
      BY <1>3, <2>4 DEF SubscriptionsInCells, Overlap
    <3>3. Picture(s, row) = None /\ Picture(s, isas[i]) = None
      BY <3>2 DEF Picture, Overlap
    <3> QED
      BY <1>4, <1>6, <2>2, <3>1, <3>3 DEF Informed, Current, Live
  <2> QED
    BY <2>3, <2>4
<1>7. CASE j # i
  <2>1. isas'[j] = isas[j]
    BY <1>1, <1>7 DEF TypeOK
  <2>2. told'[s][j] = told[s][j]
    BY <1>1, <1>7 DEF NotifySubscribers, TypeOK
  <2> QED
    BY <1>3, <1>4, <2>1, <2>2 DEF Informed, Picture, Current, Live
<1> QED
  BY <1>6, <1>7

\* A written or deleted ISA increments every live subscription it overlaps
LEMMA ISARequestInforms ==
    ASSUME IInv, SubscribersInformed, ISARequest
    PROVE  SubscribersInformed'
<1> SUFFICES ASSUME NEW o \in Owners, NEW w \in Writers, NEW i \in ISAIDs, NEW req \in ISAExtents,
                    \/ InsertISA(o, w, i, req)
                    \/ \E version \in 1..writes : UpdateISA(o, w, i, version, req)
             PROVE  SubscribersInformed'
  BY DEF ISARequest
<1>1. TypeOK /\ isas[i] \in ISA \cup {None}
  BY DEF IInv, TypeOK
<1>2. CASE InsertISA(o, w, i, req)
  <2> DEFINE isa == NewISA(o, w, req.cells, ISATimes(None, req))
  <2>1. /\ req.end # None /\ isas[i] = None /\ InOrder(ISATimes(None, req))
        /\ isas' = [isas EXCEPT ![i] = isa]
        /\ subs' = UpdateNotificationIdxsInCells(req.cells)
        /\ told' = NotifySubscribers(req.cells, i, isa)
        /\ UNCHANGED <<now, answering>>
    BY <1>2 DEF InsertISA
  <2>2. isa \in ISA /\ isa.cells = req.cells
    BY <1>1, <2>1, NewISAType
  <2> HIDE DEF isa
  <2> QED
    BY <2>1, <2>2, ISAWriteInforms
<1>3. ASSUME NEW version \in 1..writes, UpdateISA(o, w, i, version, req)
      PROVE  SubscribersInformed'
  <2> DEFINE isa == NewISA(o, w, req.cells, ISATimes(isas[i], req))
             cells == AffectedCells(isas[i], req)
  <2>1. /\ isas[i] # None /\ InOrder(ISATimes(isas[i], req))
        /\ isas' = [isas EXCEPT ![i] = isa]
        /\ subs' = UpdateNotificationIdxsInCells(cells)
        /\ told' = NotifySubscribers(cells, i, isa)
        /\ UNCHANGED <<now, answering>>
    BY <1>3 DEF UpdateISA
  <2>2. isa \in ISA /\ isa.cells = req.cells
    BY <1>1, <2>1, NewISAType
  <2>3. cells = isas[i].cells \cup req.cells
    BY <1>1, <2>1, AffectedCellsAreUnion
  <2> HIDE DEF isa, cells
  <2> QED
    BY <2>1, <2>2, <2>3, ISAWriteInforms
<1> QED
  BY <1>2, <1>3

\* A handler searches the cells it has stored
AnswersFit ==
    \A r \in answering :
        r.version <= writes /\ (LastRequest(r) => subs[r.id].cells = r.cells)

\* Whoever stores another version leaves the earlier requests behind
LEMMA NextAnswersFit ==
    ASSUME IInv, AnswersFit, [Next]_vars
    PROVE  AnswersFit'
<1>1. TypeOK /\ writes \in Nat
  BY DEF IInv, TypeOK
<1>2. \A r \in answering : r.id \in SubIDs /\ r.version \in Nat
  BY <1>1 DEF TypeOK, Answer
<1>3. CASE SubscriptionRequest
  <2>1. PICK o \in Owners, w \in Writers, s \in SubIDs, req \in SubExtents :
            PutSubscription(o, w, s, req)
    BY <1>3 DEF SubscriptionRequest, InsertSubscription, UpdateSubscription
  <2> DEFINE new == [id |-> s, version |-> writes + 1, cells |-> req.cells]
  <2>2. PICK sub \in Subscription :
            /\ sub.version = writes + 1 /\ sub.cells = req.cells
            /\ subs' = [subs EXCEPT ![s] = sub]
            /\ answering' = answering \cup {new}
            /\ writes' = writes + 1
    BY <2>1, PutSubscriptionStores
  <2>3. subs'[s] = sub /\ \A x \in SubIDs \ {s} : subs'[x] = subs[x]
    BY <1>1, <2>2 DEF TypeOK
  <2>4. new.version <= writes' /\ subs'[new.id].cells = new.cells
    BY <1>1, <2>2, <2>3
  <2>5. ASSUME NEW r \in answering
        PROVE  r.version <= writes' /\ (LastRequest(r)' => subs'[r.id].cells = r.cells)
    <3>1. r.id \in SubIDs /\ r.version \in Nat /\ r.version <= writes
      BY <1>2 DEF AnswersFit
    <3>2. CASE r.id = s
      BY <1>1, <2>2, <2>3, <3>1, <3>2 DEF LastRequest
    <3>3. CASE r.id # s
      BY <1>1, <2>2, <2>3, <3>1, <3>3 DEF LastRequest, AnswersFit
    <3> QED
      BY <3>2, <3>3
  <2> HIDE DEF new
  <2> QED
    BY <2>2, <2>4, <2>5 DEF AnswersFit
<1>4. CASE ~SubscriptionRequest
  <2>1. \A s \in SubIDs : subs'[s] # None => SameButIndex(subs'[s], subs[s])
    BY <1>4, OtherStepsKeepRows
  <2>2. answering' \subseteq answering /\ writes <= writes'
    BY <1>1, <1>4 DEF Next, vars, ISARequest, InsertISA, UpdateISA, ISADeletion, DeleteISA,
       SubscriptionDeletion, DeleteSubscription, AnswerSubscription, GCStep, GCListISAs,
       GCDeleteISA, GCListSubscriptions, GCDeleteSubscription, GCFinish, GCFail, Tick
  <2>3. writes' \in Nat
    BY NextIInv DEF IInv, TypeOK
  <2> QED
    BY <1>1, <1>2, <2>1, <2>2, <2>3 DEF AnswersFit, LastRequest, SameButIndex
<1> QED
  BY <1>3, <1>4

\* The answer tells what the search finds at that moment
LEMMA AnswerInforms ==
    ASSUME NothingCutOff, IInv, AnswersFit, SubscribersInformed,
           NEW r \in answering, AnswerSubscription(r)
    PROVE  SubscribersInformed'
<1> DEFINE found == {i \in ISAIDs : Live(isas[i]) /\ Overlap(isas[i].cells, r.cells)}
<1>1. TypeOK /\ r.id \in SubIDs
  BY DEF IInv, TypeOK, Answer
<1>2. SearchISAs(r.cells) = {found}
  BY SearchIsComplete DEF SearchISAs
<1>3. /\ told' = IF LastRequest(r)
                 THEN [told EXCEPT ![r.id] = [i \in ISAIDs |-> IF i \in found THEN isas[i] ELSE None]]
                 ELSE told
      /\ answering' = answering \ {r}
      /\ UNCHANGED <<now, isas, subs>>
  BY <1>2 DEF AnswerSubscription
<1> SUFFICES ASSUME NEW x \in SubIDs, Live(subs[x]), ~Awaited(x)', NEW j \in ISAIDs
             PROVE  Current(told'[x][j]) = Current(Picture(x, isas[j]))
  BY <1>3 DEF SubscribersInformed, Current, Live, Picture, Awaited
<1>4. CASE x = r.id /\ LastRequest(r)
  <2>1. told'[x][j] = IF j \in found THEN isas[j] ELSE None
    BY <1>1, <1>3, <1>4 DEF TypeOK
  <2>2. Overlap(isas[j].cells, r.cells) <=> Overlap(isas[j].cells, subs[x].cells)
    BY <1>4 DEF AnswersFit
  <2> QED
    BY <2>1, <2>2 DEF Current, Live, Picture
<1>5. CASE ~(x = r.id /\ LastRequest(r))
  <2>1. told'[x] = told[x] /\ ~Awaited(x)
    BY <1>1, <1>3, <1>5 DEF TypeOK, Awaited, LastRequest
  <2> QED
    BY <2>1 DEF SubscribersInformed, Awaited
<1> QED
  BY <1>4, <1>5

\* The row that a collector deletes is none that anybody needs to know
LEMMA CollectorInforms ==
    ASSUME IInv, SubscribersInformed, NEW w \in Writers, GCDeleteISA(w)
    PROVE  SubscribersInformed'
<1>1. TypeOK /\ UNCHANGED <<now, subs, answering, told>>
  BY DEF IInv, GCDeleteISA
<1>2. \A i \in ISAIDs : isas'[i] # isas[i] => Expired(isas[i])
  BY GCDeleteISAKeepsIInv DEF ChangesExpiredOnly
<1>3. \A i \in ISAIDs : isas'[i] \in {isas[i], None}
  BY <1>1 DEF GCDeleteISA, TypeOK
<1>4. ASSUME NEW i \in ISAIDs
      PROVE  isas'[i] = isas[i] \/ (isas'[i] = None /\ ~Live(isas[i]))
  <2>1. isas[i] # None => isas[i].end \in Int
    BY <1>1 DEF TypeOK, ISA
  <2>2. Expired(isas[i]) => ~Live(isas[i])
    BY <1>1, <2>1, BoundsAssumption DEF Expired, Live, TypeOK
  <2> QED
    BY <1>2, <1>3, <2>2
<1> SUFFICES ASSUME NEW s \in SubIDs, Live(subs[s]), ~Awaited(s), NEW i \in ISAIDs
             PROVE  Current(told[s][i]) = Current(Picture(s, isas'[i]))
  BY <1>1 DEF SubscribersInformed, Current, Live, Picture, Awaited, LastRequest
<1>5. Current(told[s][i]) = Current(Picture(s, isas[i]))
  BY DEF SubscribersInformed, Awaited
<1>6. Current(Picture(s, isas'[i])) = Current(Picture(s, isas[i]))
  BY <1>4 DEF Current, Picture, Live
<1> QED
  BY <1>5, <1>6

\* ISAs end for all alike
LEMMA TickInforms ==
    ASSUME IInv, SubscribersInformed, Tick
    PROVE  SubscribersInformed'
<1>1. UNCHANGED <<isas, subs, answering, told>> /\ now' = now + 1 /\ now \in Nat
  BY DEF IInv, TypeOK, Tick
<1> SUFFICES ASSUME NEW s \in SubIDs, Live(subs[s])', ~Awaited(s), NEW i \in ISAIDs
             PROVE  Current(told[s][i])' = Current(Picture(s, isas[i]))'
  BY <1>1 DEF SubscribersInformed, Awaited, LastRequest
<1>2. subs[s] # None => subs[s].end \in Int
  BY DEF IInv, TypeOK, Subscription
<1>3. Live(subs[s])
  BY <1>1, <1>2 DEF Live
<1>4. Current(told[s][i]) = Current(Picture(s, isas[i]))
  BY <1>1, <1>3 DEF SubscribersInformed, Awaited
<1>5. told[s][i] \in ISA \cup {None} /\ Picture(s, isas[i]) \in ISA \cup {None}
  BY DEF IInv, TypeOK, Picture
<1>6. ASSUME NEW x \in ISA \cup {None}
      PROVE  Live(x)' => Live(x)
  BY <1>1 DEF Live, ISA
<1>7. told'[s][i] = told[s][i] /\ Picture(s, isas[i])' = Picture(s, isas[i])
  BY <1>1 DEF Picture
<1>8. ASSUME NEW x \in ISA \cup {None}
      PROVE  Live(x)' <=> x # None /\ x.end >= now'
  BY DEF Live
<1> QED
  BY <1>4, <1>5, <1>6, <1>7, <1>8 DEF Current, Live

\* A removed subscription has nobody to inform, the others are left alone
LEMMA RemovalInforms ==
    ASSUME IInv, SubscribersInformed, NEW s \in SubIDs, RemoveSubscription(s),
           UNCHANGED <<now, isas, answering>>
    PROVE  SubscribersInformed'
<1>1. TypeOK
  BY DEF IInv
<1>2. /\ subs' = [subs EXCEPT ![s] = None] /\ told' = [told EXCEPT ![s] = Nothing]
  BY DEF RemoveSubscription
<1>3. subs'[s] = None
  BY <1>1, <1>2 DEF TypeOK
<1>4. \A x \in SubIDs \ {s} :
          subs'[x] = subs[x] /\ told'[x] = told[x]
  BY <1>1, <1>2 DEF TypeOK
<1> QED
  BY <1>3, <1>4 DEF SubscribersInformed, Current, Live, Picture, LastRequest

\* No other step needs to inform anyone
LEMMA NextInformed ==
    ASSUME NothingCutOff, IInv, AnswersFit, SubscribersInformed, [Next]_vars
    PROVE  SubscribersInformed'
<1>1. CASE ISADeletion
  <2>1. PICK i \in ISAIDs :
          /\ isas' = [isas EXCEPT ![i] = None]
          /\ subs' = UpdateNotificationIdxsInCells(isas[i].cells)
          /\ told' = NotifySubscribers(isas[i].cells, i, None)
          /\ UNCHANGED <<now, answering>>
    BY <1>1 DEF ISADeletion, DeleteISA
  <2> QED
    BY <2>1, ISAWriteInforms
<1>2. CASE SubscriptionRequest
  <2>1. PICK o \in Owners, w \in Writers, s \in SubIDs, req \in SubExtents :
            PutSubscription(o, w, s, req)
    BY <1>2 DEF SubscriptionRequest, InsertSubscription, UpdateSubscription
  <2>2. PICK sub : /\ subs' = [subs EXCEPT ![s] = sub]
                   /\ sub.version = writes + 1
                   /\ answering' = answering \cup {[id |-> s, version |-> writes + 1, cells |-> req.cells]}
                   /\ UNCHANGED <<now, isas, told>>
    BY <2>1, PutSubscriptionStores
  <2>3. subs'[s] = sub /\ \A x \in SubIDs \ {s} : subs'[x] = subs[x]
    BY <2>2 DEF IInv, TypeOK
  <2>4. Live(subs[s])' => Awaited(s)'
    <3> DEFINE new == [id |-> s, version |-> writes + 1, cells |-> req.cells]
    <3>1. new \in answering' /\ new.id = s /\ new.version = writes + 1
      BY <2>2
    <3> HIDE DEF new
    <3> QED
      BY <2>2, <2>3, <3>1 DEF Awaited, LastRequest, Live
  <2>5. \A x \in SubIDs \ {s} : Awaited(x) => Awaited(x)'
    BY <2>2, <2>3 DEF Awaited, LastRequest
  <2> QED
    BY <2>2, <2>3, <2>4, <2>5 DEF SubscribersInformed, Current, Live, Picture, Awaited
<1>3. CASE SubscriptionDeletion
  BY <1>3, RemovalInforms DEF SubscriptionDeletion, DeleteSubscription
<1>4. CASE UNCHANGED <<now, isas, subs, answering, told>>
  BY <1>4 DEF SubscribersInformed, Current, Live, Picture, LastRequest
<1>5. ASSUME NEW w \in Writers, GCStep(w) \/ GCFail(w)
      PROVE  SubscribersInformed'
  <2>1. CASE GCDeleteSubscription(w)
    <3>1. gc[w].step = "subs" /\ UNCHANGED <<now, isas, answering>>
      BY <2>1 DEF GCDeleteSubscription
    <3>2. \A r \in gc[w].list : r.id \in SubIDs
      BY <3>1 DEF IInv, Lists, SubscriptionListsExpired
    <3>3. CASE UNCHANGED <<subs, told>>
      BY <1>4, <3>1, <3>3
    <3> QED
      BY <2>1, <3>1, <3>2, <3>3, RemovalInforms DEF GCDeleteSubscription
  <2>2. CASE GCListISAs(w) \/ GCListSubscriptions(w) \/ GCFinish(w) \/ GCFail(w)
    BY <1>4, <2>2 DEF GCListISAs, GCListSubscriptions, GCFinish, GCFail
  <2> QED
    BY <1>5, <2>1, <2>2, CollectorInforms DEF GCStep
<1>6. CASE UNCHANGED vars
  BY <1>4, <1>6 DEF vars
<1> QED
  BY <1>1, <1>2, <1>3, <1>5, <1>6, ISARequestInforms, AnswerInforms, TickInforms DEF Next

(***************************************************************************)
(* As long as there are no more ISAs than a search may return, the owner   *)
(* of a live subscription who applied the answer and the notifications     *)
(* knows exactly the live ISAs of its area, although the answer is         *)
(* searched after the transaction that stores the subscription, and        *)
(* although the garbage collector tells nobody what it deletes             *)
(* (subscription_handler.go:155-164, isa.go:169-174).                      *)
(***************************************************************************)
THEOREM SubscribersAlwaysInformed ==
    ASSUME NothingCutOff
    PROVE  Spec => []SubscribersInformed
<1>1. Init => SubscribersInformed
  BY DEF Init, SubscribersInformed, Live
<1>3. Init => AnswersFit
  BY DEF Init, AnswersFit
<1>4. IInv /\ AnswersFit /\ [Next]_vars => AnswersFit'
  BY NextAnswersFit
<1>2. IInv /\ AnswersFit /\ SubscribersInformed /\ [Next]_vars => SubscribersInformed'
  BY NextInformed
<1> QED
  BY <1>1, <1>2, <1>3, <1>4, InitIInv, NextIInv, PTL DEF Spec

=============================================================================
