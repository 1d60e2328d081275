----------------------------- MODULE MockSCDProofs -----------------------------
(***************************************************************************)
(* Proofs about MockSCD, for any mock USSs and other USSs, flights,        *)
(* operational intents, requests at one time and number of failures.       *)
(***************************************************************************)
EXTENDS MockSCD, WellFoundedInduction, TLAPS

-----------------------------------------------------------------------------
(***************************************************************************)
(* The inductive invariant                                                 *)
(***************************************************************************)

Reference == [id : OpIDs, ver : Nat, manager : MockUSSs \cup OtherUSSs]

InjectReq ==
    [pc : {"query", "readCache", "details", "create", "notify", "store"},
     uss : MockUSSs, flight : FlightIDs, intent : Intents,
     refs : SUBSET Reference, todo : SUBSET Reference,
     got : SUBSET [id : OpIDs, intent : Intents, ver : Nat],
     key : SUBSET (OpIDs \X Nat), op : OpIDs \cup {None}, result : {None}]

DeleteReq == [pc : {"delete", "notifyDeleted"}, uss : MockUSSs, op : OpIDs, result : {None}]

ClearReq == [pc : {"clear"}, uss : MockUSSs, refs : SUBSET Reference,
             deleted : SUBSET OpIDs, result : {None}]

Answers == {"Rejected", "Failed", "Error", "ConflictWithFlight", "Planned", "DeleteFailed",
            "Closed", "NotCleared", "Cleared"}

IdleReq == [pc : {"idle"}, result : Answers \cup {None}]

Req == InjectReq \cup DeleteReq \cup ClearReq \cup IdleReq

TypeInv ==
    /\ dss \in [OpIDs -> Plan \cup {None}]
    /\ used \subseteq OpIDs
    /\ flights \in [MockUSSs -> [FlightIDs -> FlightRecord \cup {None}]]
    /\ cached \in [MockUSSs -> [OpIDs -> CachedOperation \cup {None}]]
    /\ req \in [Requests -> Req]
    /\ promised \subseteq MockUSSs \X FlightIDs \X OpIDs

\* IDs are not given out twice, and mock USSs never change what they planned
DssSound == \A o \in Known : o \in used /\ (dss[o].manager \in MockUSSs => dss[o].ver = 1)

\* In the DSS D, with the IDs U given out: what uss has planned as o, if it is
\* still there
Owned(D, U, uss, o, intent) ==
    o \in U /\ (D[o] # None => D[o] = [manager |-> uss, intent |-> intent, ver |-> 1])

\* What somebody has learnt of o is not newer than the DSS, and right if it is
\* as new
Fact(D, U, o, intent, ver) ==
    o \in U /\ (D[o] # None => ver <= D[o].ver /\ (ver = D[o].ver => intent = D[o].intent))

\* What a request knows, by where it stands
RequestSound(D, U, q) ==
    /\ q.pc \in {"query", "readCache", "details"} => \A d \in q.got : Fact(D, U, d.id, d.intent, d.ver)
    /\ q.pc = "create" => \A k \in q.key : \E intent \in Intents :
           Fact(D, U, k[1], intent, k[2]) /\ Check(q.intent, intent) = "False"
    /\ q.pc \in {"notify", "store"} => Owned(D, U, q.uss, q.op, q.intent)
    /\ q.pc = "delete" => \E intent \in Intents : Owned(D, U, q.uss, q.op, intent)
    /\ q.pc = "notifyDeleted" => q.op \in U /\ D[q.op] = None
    /\ q.pc = "clear" => /\ \A ref \in q.refs : ref.id \in U
                         /\ \A o \in q.deleted : o \in U /\ D[o] = None

FlightsSound ==
    \A u \in MockUSSs, f \in FlightIDs : flights[u][f] # None =>
        Owned(dss, used, u, flights[u][f].op, flights[u][f].intent)

CacheSound ==
    \A u \in MockUSSs, o \in OpIDs : cached[u][o] # None =>
        Fact(dss, used, o, cached[u][o].intent, cached[u][o].ver)

RequestsSound == \A r \in Requests : RequestSound(dss, used, req[r])

Knowledge == TypeInv /\ DssSound /\ FlightsSound /\ CacheSound /\ RequestsSound

\* An operational intent has one flight or one request that answers for it
FlightHas(u, f, o) == flights[u][f] # None /\ flights[u][f].op = o

OneOwner ==
    /\ \A u, v \in MockUSSs, f, g \in FlightIDs, o \in OpIDs :
          FlightHas(u, f, o) /\ FlightHas(v, g, o) => u = v /\ f = g
    /\ \A r \in Requests, o \in OpIDs : Holds(r, o) =>
          /\ \A u \in MockUSSs, f \in FlightIDs : ~FlightHas(u, f, o)
          /\ \A q \in Requests : Holds(q, o) => q = r

\* What is promised is in the DSS under its USS, and the flight has it or the
\* request that is about to store it
PromiseKept(p) ==
    /\ p[3] \in Known /\ dss[p[3]].manager = p[1]
    /\ \/ FlightHas(p[1], p[2], p[3])
       \/ \E r \in Requests : /\ req[r].pc \in {"notify", "store"}
                              /\ req[r].op = p[3] /\ req[r].uss = p[1] /\ req[r].flight = p[2]

PromisesKept == \A p \in promised : PromiseKept(p)

\* An area is not cleared of what was promised after the request for it
NotCleared ==
    \A r \in Requests : req[r].pc = "clear" =>
        \A p \in promised, ref \in req[r].refs : p[1] = req[r].uss => p[3] # ref.id

\* Accounted, by flights and requests
HasOwner(o) ==
    \/ \E f \in FlightIDs : FlightHas(dss[o].manager, f, o)
    \/ \E r \in Requests : Holds(r, o)
    \/ o \in orphaned

AllOwned == \A o \in Known : dss[o].manager \in MockUSSs => HasOwner(o)

IInv == Knowledge /\ OneOwner /\ PromisesKept /\ NotCleared /\ AllOwned

-----------------------------------------------------------------------------
(***************************************************************************)
(* What is known of the DSS stays right                                    *)
(***************************************************************************)

\* What a step may do to the DSS: remove, plan under a new ID, or renew what
\* another USS has planned
DssMoves ==
    /\ used \subseteq used'
    /\ \A o \in OpIDs :
          \/ dss'[o] = dss[o]
          \/ dss'[o] = None
          \/ o \notin used
          \/ /\ dss[o] # None /\ dss[o].manager \in OtherUSSs
             /\ dss'[o] # None /\ dss'[o].ver = dss[o].ver + 1

\* The fields of what the DSS holds
LEMMA PlanFields ==
    ASSUME TypeInv, NEW o \in OpIDs, dss[o] # None
    PROVE  /\ dss[o] \in Plan
           /\ dss[o].manager \in MockUSSs \cup OtherUSSs
           /\ dss[o].intent \in Intents
           /\ dss[o].ver \in Nat
           /\ dss[o] = [manager |-> dss[o].manager, intent |-> dss[o].intent, ver |-> dss[o].ver]
<1>1. dss[o] \in Plan
  BY DEF TypeInv
<1> QED
  BY <1>1 DEF Plan

\* What a request knows of a reference stays true while versions only grow
LEMMA FactStays ==
    ASSUME Knowledge, DssMoves, NEW o \in OpIDs, NEW intent, NEW ver \in Nat,
           Fact(dss, used, o, intent, ver)
    PROVE  Fact(dss', used', o, intent, ver)
<1>1. o \in used /\ o \in used'
  BY DEF DssMoves, Fact
<1>2. CASE dss'[o] = None
  BY <1>1, <1>2 DEF Fact
<1>3. CASE dss'[o] = dss[o]
  BY <1>1, <1>3 DEF Fact
<1>4. CASE dss[o] # None /\ dss'[o] # None /\ dss'[o].ver = dss[o].ver + 1
  <2>1. dss[o].ver \in Nat
    BY <1>4, PlanFields DEF Knowledge
  <2>2. ver <= dss[o].ver
    BY <1>4 DEF Fact
  <2> QED
    BY <1>1, <1>4, <2>1, <2>2 DEF Fact
<1> QED
  BY <1>1, <1>2, <1>3, <1>4 DEF DssMoves

\* An intent keeps its owner while others act
LEMMA OwnedStays ==
    ASSUME Knowledge, DssMoves, NEW u \in MockUSSs, NEW o \in OpIDs, NEW intent,
           Owned(dss, used, u, o, intent)
    PROVE  Owned(dss', used', u, o, intent)
<1>1. o \in used /\ o \in used'
  BY DEF DssMoves, Owned
<1>2. dss[o] # None => dss[o].manager \notin OtherUSSs
  BY ConstantsAssumption DEF Owned
<1>3. dss'[o] = dss[o] \/ dss'[o] = None
  BY <1>1, <1>2 DEF DssMoves
<1> QED
  BY <1>1, <1>3 DEF Owned

\* Once removed, removed for ever
LEMMA GoneStays ==
    ASSUME DssMoves, NEW o \in OpIDs, o \in used, dss[o] = None
    PROVE  o \in used' /\ dss'[o] = None
  BY DEF DssMoves

\* What a request relies on survives the steps of the others
LEMMA RequestStays ==
    ASSUME Knowledge, DssMoves, NEW q \in Req, RequestSound(dss, used, q)
    PROVE  RequestSound(dss', used', q)
<1> USE DEF Req
<1>1. q.pc \in {"query", "readCache", "details"} => \A d \in q.got : Fact(dss', used', d.id, d.intent, d.ver)
  <2> SUFFICES ASSUME q.pc \in {"query", "readCache", "details"}, NEW d \in q.got
               PROVE  Fact(dss', used', d.id, d.intent, d.ver)
    OBVIOUS
  <2>1. q \in InjectReq
    BY DEF DeleteReq, ClearReq, IdleReq
  <2>2. d \in [id : OpIDs, intent : Intents, ver : Nat]
    BY <2>1 DEF InjectReq
  <2> QED
    BY <2>2, FactStays DEF RequestSound
<1>2. q.pc = "create" => \A k \in q.key : \E intent \in Intents :
          Fact(dss', used', k[1], intent, k[2]) /\ Check(q.intent, intent) = "False"
  <2> SUFFICES ASSUME q.pc = "create", NEW k \in q.key
               PROVE  \E intent \in Intents : Fact(dss', used', k[1], intent, k[2])
                                              /\ Check(q.intent, intent) = "False"
    OBVIOUS
  <2>1. q \in InjectReq
    BY DEF DeleteReq, ClearReq, IdleReq
  <2>2. k \in OpIDs \X Nat
    BY <2>1 DEF InjectReq
  <2>3. PICK intent \in Intents : Fact(dss, used, k[1], intent, k[2])
                                 /\ Check(q.intent, intent) = "False"
    BY DEF RequestSound
  <2> QED
    BY <2>2, <2>3, FactStays
<1>3. q.pc \in {"notify", "store"} => Owned(dss', used', q.uss, q.op, q.intent)
  <2> SUFFICES ASSUME q.pc \in {"notify", "store"} PROVE Owned(dss', used', q.uss, q.op, q.intent)
    OBVIOUS
  <2>1. q \in InjectReq
    BY DEF DeleteReq, ClearReq, IdleReq
  <2>2. q.uss \in MockUSSs /\ Owned(dss, used, q.uss, q.op, q.intent)
    BY <2>1 DEF InjectReq, RequestSound
  <2>3. q.op \in OpIDs
    BY <2>2 DEF Owned, Knowledge, TypeInv
  <2> QED
    BY <2>2, <2>3, OwnedStays
<1>4. q.pc = "delete" => \E intent \in Intents : Owned(dss', used', q.uss, q.op, intent)
  <2> SUFFICES ASSUME q.pc = "delete" PROVE \E intent \in Intents : Owned(dss', used', q.uss, q.op, intent)
    OBVIOUS
  <2>1. q \in DeleteReq
    BY DEF InjectReq, ClearReq, IdleReq
  <2>2. q.uss \in MockUSSs /\ q.op \in OpIDs
    BY <2>1 DEF DeleteReq
  <2>3. PICK intent \in Intents : Owned(dss, used, q.uss, q.op, intent)
    BY DEF RequestSound
  <2> QED
    BY <2>2, <2>3, OwnedStays
<1>5. q.pc = "notifyDeleted" => q.op \in used' /\ dss'[q.op] = None
  BY GoneStays DEF RequestSound, Knowledge, TypeInv
<1>6. q.pc = "clear" => /\ \A ref \in q.refs : ref.id \in used'
                        /\ \A o \in q.deleted : o \in used' /\ dss'[o] = None
  BY GoneStays DEF RequestSound, Knowledge, TypeInv, DssMoves
<1> QED
  BY <1>1, <1>2, <1>3, <1>4, <1>5, <1>6 DEF RequestSound

\* What the step itself adds to flights, caches and requests must be right
\* after it; what was there stays right
LEMMA StepKeepsKnowledge ==
    ASSUME Knowledge, DssMoves, TypeInv', DssSound',
           \A u \in MockUSSs, f \in FlightIDs :
               \/ flights'[u][f] = flights[u][f] \/ flights'[u][f] = None
               \/ Owned(dss', used', u, flights'[u][f].op, flights'[u][f].intent),
           \A u \in MockUSSs, o \in OpIDs :
               \/ cached'[u][o] = cached[u][o] \/ cached'[u][o] = None
               \/ Fact(dss', used', o, cached'[u][o].intent, cached'[u][o].ver),
           \A r \in Requests : req'[r] = req[r] \/ RequestSound(dss', used', req'[r])
    PROVE  Knowledge'
<1>1. FlightsSound'
  <2> SUFFICES ASSUME NEW u \in MockUSSs, NEW f \in FlightIDs, flights'[u][f] # None
               PROVE  Owned(dss', used', u, flights'[u][f].op, flights'[u][f].intent)
    BY DEF FlightsSound
  <2>1. CASE flights'[u][f] = flights[u][f]
    <3>1. flights[u][f] # None /\ flights[u][f] \in FlightRecord
      BY <2>1 DEF Knowledge, TypeInv
    <3>2. flights[u][f].op \in OpIDs
      BY <3>1 DEF FlightRecord
    <3>3. Owned(dss, used, u, flights[u][f].op, flights[u][f].intent)
      BY <3>1 DEF Knowledge, FlightsSound
    <3> QED
      BY <2>1, <3>2, <3>3, OwnedStays
  <2> QED
    BY <2>1
<1>2. CacheSound'
  <2> SUFFICES ASSUME NEW u \in MockUSSs, NEW o \in OpIDs, cached'[u][o] # None
               PROVE  Fact(dss', used', o, cached'[u][o].intent, cached'[u][o].ver)
    BY DEF CacheSound
  <2>1. CASE cached'[u][o] = cached[u][o]
    <3>1. cached[u][o] # None /\ cached[u][o] \in CachedOperation
      BY <2>1 DEF Knowledge, TypeInv
    <3>2. cached[u][o].ver \in Nat
      BY <3>1 DEF CachedOperation
    <3>3. Fact(dss, used, o, cached[u][o].intent, cached[u][o].ver)
      BY <3>1 DEF Knowledge, CacheSound
    <3> QED
      BY <2>1, <3>2, <3>3, FactStays
  <2> QED
    BY <2>1
<1>3. RequestsSound'
  <2> SUFFICES ASSUME NEW r \in Requests PROVE RequestSound(dss', used', req'[r])
    BY DEF RequestsSound
  <2>1. req[r] \in Req /\ RequestSound(dss, used, req[r])
    BY DEF Knowledge, TypeInv, RequestsSound
  <2> QED
    BY <2>1, RequestStays
<1> QED
  BY <1>1, <1>2, <1>3 DEF Knowledge

\* By where a request stands, what kind of request it is
LEMMA KindOfRequest ==
    ASSUME NEW q \in Req
    PROVE  /\ q.pc \in {"query", "readCache", "details", "create", "notify", "store"} => q \in InjectReq
           /\ q.pc \in {"delete", "notifyDeleted"} => q \in DeleteReq
           /\ q.pc = "clear" => q \in ClearReq
           /\ q.pc = "idle" => q \in IdleReq
           /\ q.pc \in {"query", "readCache", "details", "create", "notify", "store",
                        "delete", "notifyDeleted", "clear", "idle"}
  BY DEF Req, InjectReq, DeleteReq, ClearReq, IdleReq

-----------------------------------------------------------------------------
(***************************************************************************)
(* Steps that leave the DSS and the flights alone                          *)
(***************************************************************************)

Owning == {"notify", "store", "delete", "notifyDeleted"}

\* The request answers for no operational intent that is in the DSS, before
\* or after
LEMMA QuietKeepsIInv ==
    ASSUME IInv, NEW r \in Requests, NEW q \in Req, req' = [req EXCEPT ![r] = q],
           UNCHANGED <<dss, used, flights>>,
           cached' \in [MockUSSs -> [OpIDs -> CachedOperation \cup {None}]], CacheSound',
           RequestSound(dss, used, q),
           q.pc \notin Owning, req[r].pc \notin {"notify", "store", "delete"},
           promised' \subseteq promised, orphaned \subseteq orphaned',
           q.pc = "clear" => \A p \in promised', ref \in q.refs : p[1] = q.uss => p[3] # ref.id
    PROVE  IInv'
<1>1. TypeInv /\ req \in [Requests -> Req] /\ RequestSound(dss, used, req[r])
  BY DEF IInv, Knowledge, TypeInv, RequestsSound
<1>2. req'[r] = q /\ \A s \in Requests \ {r} : req'[s] = req[s]
  BY <1>1
<1>3. req' \in [Requests -> Req]
  BY <1>1
<1>4. TypeInv'
  BY <1>1, <1>3 DEF TypeInv
<1>5. RequestsSound'
  BY <1>2 DEF IInv, Knowledge, RequestsSound
<1>6. Knowledge'
  BY <1>4, <1>5 DEF IInv, Knowledge, DssSound, Known, FlightsSound
<1>7. \A o \in OpIDs, s \in Requests : Holds(s, o)' => Holds(s, o) /\ s # r
  BY <1>2 DEF Holds, Owning
<1>8. \A o \in OpIDs, s \in Requests : Holds(s, o) => Holds(s, o)' \/ (s = r /\ o \notin Known)
  <2> SUFFICES ASSUME NEW o \in OpIDs, Holds(r, o) PROVE o \notin Known
    BY <1>2 DEF Holds
  <2>1. req[r].pc = "notifyDeleted" /\ req[r].op = o
    BY DEF Holds
  <2> QED
    BY <1>1, <2>1 DEF RequestSound, Known
<1>9. OneOwner'
  BY <1>7 DEF IInv, OneOwner, FlightHas
<1>10. PromisesKept'
  <2> SUFFICES ASSUME NEW p \in promised PROVE PromiseKept(p)'
    BY DEF PromisesKept
  <2>1. PromiseKept(p)
    BY DEF IInv, PromisesKept
  <2> QED
    BY <1>2, <2>1 DEF PromiseKept, FlightHas, Known
<1>11. NotCleared'
  BY <1>2 DEF IInv, NotCleared
<1>12. AllOwned'
  <2> SUFFICES ASSUME NEW o \in Known, dss[o].manager \in MockUSSs PROVE HasOwner(o)'
    BY DEF AllOwned, Known
  <2>1. HasOwner(o) /\ o \in OpIDs
    BY DEF IInv, AllOwned, Known
  <2> QED
    BY <1>8, <2>1 DEF HasOwner, FlightHas
<1> QED
  BY <1>6, <1>9, <1>10, <1>11, <1>12 DEF IInv

\* The request ends, or never gets under way
LEMMA QuietEndKeepsIInv ==
    ASSUME IInv, NEW r \in Requests, NEW q \in IdleReq, req' = [req EXCEPT ![r] = q],
           UNCHANGED <<dss, used, flights, cached, orphaned>>,
           req[r].pc \notin {"notify", "store", "delete"}, promised' \subseteq promised
    PROVE  IInv'
<1>1. q \in Req /\ q.pc = "idle"
  BY DEF Req, IdleReq
<1>2. RequestSound(dss, used, q) /\ q.pc \notin Owning /\ q.pc # "clear"
  BY <1>1 DEF RequestSound, Owning
<1>3. cached' \in [MockUSSs -> [OpIDs -> CachedOperation \cup {None}]] /\ CacheSound'
  BY DEF IInv, Knowledge, TypeInv, CacheSound
<1> QED
  BY <1>1, <1>2, <1>3, QuietKeepsIInv

\* inject_flight begins, and knows nothing yet
LEMMA StartInjectKeepsIInv ==
    ASSUME IInv, NEW r \in Requests, NEW uss \in MockUSSs, NEW flight \in FlightIDs,
           NEW intent \in Intents, StartInject(r, uss, flight, intent)
    PROVE  IInv'
<1>1. UNCHANGED <<dss, used, flights, cached, promised, orphaned>> /\ req[r].pc = "idle"
  BY DEF StartInject, hist
<1>2. CASE problems_with_flight_authorisation(intent) # {}
  <2>1. PICK q \in IdleReq : req' = [req EXCEPT ![r] = q]
    BY <1>2 DEF StartInject, Respond, IdleReq, Answers
  <2> QED
    BY <1>1, <2>1, QuietEndKeepsIInv
<1>3. CASE problems_with_flight_authorisation(intent) = {}
  <2> DEFINE q == [pc |-> "query", uss |-> uss, flight |-> flight,
                   intent |-> intent, refs |-> {}, todo |-> {}, got |-> {}, key |-> {},
                   op |-> None, result |-> None]
  <2>1. q \in Req /\ RequestSound(dss, used, q) /\ q.pc \notin Owning /\ q.pc # "clear"
    BY DEF Req, InjectReq, RequestSound, Owning
  <2>2. req' = [req EXCEPT ![r] = q]
    BY <1>3 DEF StartInject
  <2> HIDE DEF q
  <2>3. cached' \in [MockUSSs -> [OpIDs -> CachedOperation \cup {None}]] /\ CacheSound'
    BY <1>1 DEF IInv, Knowledge, TypeInv, CacheSound
  <2> QED
    BY <1>1, <2>1, <2>2, <2>3, QuietKeepsIInv
<1> QED
  BY <1>2, <1>3

\* The DSS answers a query with references it holds
LEMMA QueriedReferences ==
    ASSUME Knowledge, NEW area
    PROVE  /\ QueryReferences(area) \subseteq Reference
           /\ \A ref \in QueryReferences(area) :
                 ref.id \in used /\ ref.id \in Known /\ ref.manager = dss[ref.id].manager
<1> SUFFICES ASSUME NEW o \in Known
             PROVE  Ref(o) \in Reference /\ Ref(o).id = o /\ o \in used
                    /\ Ref(o).manager = dss[o].manager
  BY DEF QueryReferences
<1>1. o \in OpIDs /\ dss[o] # None /\ o \in used
  BY DEF Known, Knowledge, DssSound
<1>2. dss[o].manager \in MockUSSs \cup OtherUSSs /\ dss[o].ver \in Nat
  BY <1>1, PlanFields DEF Knowledge
<1> QED
  BY <1>1, <1>2 DEF Ref, Reference

\* inject_flight queries the DSS for references
LEMMA QueryKeepsIInv ==
    ASSUME IInv, NEW r \in Requests, QueryOpIntents(r)
    PROVE  IInv'
<1>1. UNCHANGED <<dss, used, flights, cached, promised, orphaned>> /\ req[r].pc = "query"
  BY DEF QueryOpIntents, hist
<1>2. CASE Respond(r, "Failed")
  <2>1. PICK q \in IdleReq : req' = [req EXCEPT ![r] = q]
    BY <1>2 DEF Respond, IdleReq, Answers
  <2> QED
    BY <1>1, <2>1, QuietEndKeepsIInv
<1>3. CASE req' = [req EXCEPT ![r].pc = "readCache",
                     ![r].refs = QueryReferences(bounding_vol4(req[r].intent.volumes))]
  <2> DEFINE refs == QueryReferences(bounding_vol4(req[r].intent.volumes))
             q == [req[r] EXCEPT !.pc = "readCache", !.refs = refs]
  <2>1. refs \subseteq Reference
    BY QueriedReferences DEF IInv
  <2>2. req \in [Requests -> Req] /\ req[r] \in InjectReq /\ RequestSound(dss, used, req[r])
    BY <1>1, KindOfRequest DEF IInv, Knowledge, TypeInv, RequestsSound
  <2> HIDE DEF refs
  <2>3. q \in InjectReq /\ q.pc = "readCache" /\ q.got = req[r].got
    BY <2>1, <2>2 DEF InjectReq
  <2>4. req' = [req EXCEPT ![r] = q]
    BY <1>3, <2>2 DEF refs
  <2> HIDE DEF q
  <2>5. q \in Req /\ RequestSound(dss, used, q) /\ q.pc \notin Owning /\ q.pc # "clear"
    BY <1>1, <2>2, <2>3 DEF Req, RequestSound, Owning
  <2>6. cached' \in [MockUSSs -> [OpIDs -> CachedOperation \cup {None}]] /\ CacheSound'
    BY <1>1 DEF IInv, Knowledge, TypeInv, CacheSound
  <2> QED
    BY <1>1, <2>4, <2>5, <2>6, QuietKeepsIInv
<1> QED
  BY <1>2, <1>3 DEF QueryOpIntents

\* query_operational_intents reads the cache
LEMMA ReadCacheKeepsIInv ==
    ASSUME IInv, NEW r \in Requests, ReadCache(r)
    PROVE  IInv'
<1> DEFINE todo == {ref \in req[r].refs : NotCached(req[r].uss, ref)}
           q == [req[r] EXCEPT !.pc = "details", !.todo = todo]
<1>1. UNCHANGED <<dss, used, flights, cached, promised, orphaned>> /\ req[r].pc = "readCache"
  BY DEF ReadCache, hist
<1>2. req \in [Requests -> Req] /\ req[r] \in InjectReq /\ RequestSound(dss, used, req[r])
  BY <1>1, KindOfRequest DEF IInv, Knowledge, TypeInv, RequestsSound
<1>3. todo \subseteq Reference
  BY <1>2 DEF InjectReq
<1>4. req' = [req EXCEPT ![r] = q]
  BY <1>2 DEF ReadCache
<1> HIDE DEF todo
<1>5. q \in InjectReq /\ q.pc = "details" /\ q.got = req[r].got
  BY <1>2, <1>3 DEF InjectReq
<1> HIDE DEF q
<1>6. q \in Req /\ RequestSound(dss, used, q) /\ q.pc \notin Owning /\ q.pc # "clear"
  BY <1>1, <1>2, <1>5 DEF Req, RequestSound, Owning
<1>7. cached' \in [MockUSSs -> [OpIDs -> CachedOperation \cup {None}]] /\ CacheSound'
  BY <1>1 DEF IInv, Knowledge, TypeInv, CacheSound
<1> QED
  BY <1>1, <1>4, <1>6, <1>7, QuietKeepsIInv

\* Whoever is asked, the details it gives are right: a mock USS answers from
\* its flights, whose plans it never changes
LEMMA DetailsAreFacts ==
    ASSUME Knowledge, NEW uss, NEW o \in OpIDs, NEW d \in Details(uss, o)
    PROVE  d \in [id : OpIDs, intent : Intents, ver : Nat] /\ Fact(dss, used, d.id, d.intent, d.ver)
<1>1. CASE uss \in MockUSSs
  <2>1. PICK f \in FlightIDs : /\ flights[uss][f] # None /\ flights[uss][f].op = o
                               /\ d = [id |-> o, intent |-> flights[uss][f].intent, ver |-> 1]
    BY <1>1 DEF Details
  <2>2. flights[uss][f] \in FlightRecord
    BY <1>1, <2>1 DEF Knowledge, TypeInv
  <2>3. Owned(dss, used, uss, o, flights[uss][f].intent)
    BY <1>1, <2>1 DEF Knowledge, FlightsSound
  <2>4. d \in [id : OpIDs, intent : Intents, ver : Nat]
    BY <2>1, <2>2 DEF FlightRecord
  <2>5. Fact(dss, used, o, flights[uss][f].intent, 1)
    BY <2>3 DEF Owned, Fact
  <2> QED
    BY <2>1, <2>4, <2>5
<1>2. CASE uss \notin MockUSSs
  <2>1. o \in Known /\ d = [id |-> o, intent |-> dss[o].intent, ver |-> dss[o].ver]
    BY <1>2 DEF Details
  <2>2. dss[o].intent \in Intents /\ dss[o].ver \in Nat /\ o \in used
    BY <2>1, PlanFields DEF Knowledge, Known, DssSound
  <2> QED
    BY <2>1, <2>2 DEF Fact
<1> QED
  BY <1>1, <1>2

\* query_operational_intents fetches details from their USS
LEMMA GetDetailsKeepsIInv ==
    ASSUME IInv, NEW r \in Requests, NEW ref \in req[r].todo, GetDetails(r, ref)
    PROVE  IInv'
<1>1. UNCHANGED <<dss, used, flights, cached, promised, orphaned>> /\ req[r].pc = "details"
  BY DEF GetDetails, hist
<1>2. CASE Respond(r, "Failed")
  <2>1. PICK q \in IdleReq : req' = [req EXCEPT ![r] = q]
    BY <1>2 DEF Respond, IdleReq, Answers
  <2> QED
    BY <1>1, <2>1, QuietEndKeepsIInv
<1>3. CASE \E d \in Details(ref.manager, ref.id) :
              req' = [req EXCEPT ![r].todo = @ \ {ref}, ![r].got = @ \cup {d}]
  <2>1. PICK d \in Details(ref.manager, ref.id) :
              req' = [req EXCEPT ![r].todo = @ \ {ref}, ![r].got = @ \cup {d}]
    BY <1>3
  <2> DEFINE q == [req[r] EXCEPT !.todo = @ \ {ref}, !.got = @ \cup {d}]
  <2>2. req \in [Requests -> Req] /\ req[r] \in InjectReq /\ RequestSound(dss, used, req[r])
    BY <1>1, KindOfRequest DEF IInv, Knowledge, TypeInv, RequestsSound
  <2>3. ref \in Reference /\ ref.id \in OpIDs
    BY <2>2 DEF InjectReq, Reference
  <2>4. d \in [id : OpIDs, intent : Intents, ver : Nat] /\ Fact(dss, used, d.id, d.intent, d.ver)
    BY <2>3, DetailsAreFacts DEF IInv
  <2>5. req' = [req EXCEPT ![r] = q]
    BY <2>1, <2>2
  <2>6. q \in InjectReq /\ q.pc = "details" /\ q.got = req[r].got \cup {d}
    BY <1>1, <2>2, <2>4 DEF InjectReq
  <2> HIDE DEF q
  <2>7. q \in Req /\ RequestSound(dss, used, q) /\ q.pc \notin Owning /\ q.pc # "clear"
    BY <1>1, <2>2, <2>4, <2>6 DEF Req, RequestSound, Owning
  <2>8. cached' \in [MockUSSs -> [OpIDs -> CachedOperation \cup {None}]] /\ CacheSound'
    BY <1>1 DEF IInv, Knowledge, TypeInv, CacheSound
  <2> QED
    BY <1>1, <2>5, <2>7, <2>8, QuietKeepsIInv
<1> QED
  BY <1>2, <1>3 DEF GetDetails

\* The cache with the details that were fetched
LEMMA UpdatedIsRight ==
    ASSUME Knowledge, NEW u \in MockUSSs,
           NEW got \in SUBSET [id : OpIDs, intent : Intents, ver : Nat],
           \A d \in got : Fact(dss, used, d.id, d.intent, d.ver)
    PROVE  /\ Updated(u, got) \in [OpIDs -> CachedOperation \cup {None}]
           /\ \A o \in OpIDs : Updated(u, got)[o] # None =>
                 Fact(dss, used, o, Updated(u, got)[o].intent, Updated(u, got)[o].ver)
<1> SUFFICES ASSUME NEW o \in OpIDs
             PROVE  /\ Updated(u, got)[o] \in CachedOperation \cup {None}
                    /\ Updated(u, got)[o] # None =>
                         Fact(dss, used, o, Updated(u, got)[o].intent, Updated(u, got)[o].ver)
  BY DEF Updated
<1>1. CASE \E d \in got : d.id = o
  <2>1. PICK d \in got : d.id = o /\ Updated(u, got)[o] = [intent |-> d.intent, ver |-> d.ver]
    BY <1>1 DEF Updated
  <2>2. d \in [id : OpIDs, intent : Intents, ver : Nat]
    OBVIOUS
  <2> QED
    BY <2>1, <2>2 DEF CachedOperation
<1>2. CASE ~\E d \in got : d.id = o
  <2>1. Updated(u, got)[o] = cached[u][o]
    BY <1>2 DEF Updated
  <2> QED
    BY <2>1 DEF Knowledge, TypeInv, CacheSound
<1> QED
  BY <1>1, <1>2

\* query_operational_intents writes the cache
LEMMA CommitCacheKeepsIInv ==
    ASSUME IInv, NEW r \in Requests, CommitCache(r)
    PROVE  IInv'
<1> DEFINE uss == req[r].uss
           cache == Updated(uss, req[r].got)
           ids == {ref.id : ref \in req[r].refs}
           key == {<<o, cache[o].ver>> : o \in ids}
<1>1. UNCHANGED <<dss, used, flights, promised, orphaned>> /\ req[r].pc = "details"
  BY DEF CommitCache, hist
<1>2. req \in [Requests -> Req] /\ req[r] \in InjectReq /\ RequestSound(dss, used, req[r])
  BY <1>1, KindOfRequest DEF IInv, Knowledge, TypeInv, RequestsSound
<1>3. uss \in MockUSSs /\ req[r].got \in SUBSET [id : OpIDs, intent : Intents, ver : Nat]
  BY <1>2 DEF InjectReq
<1>4. \A d \in req[r].got : Fact(dss, used, d.id, d.intent, d.ver)
  BY <1>1, <1>2 DEF RequestSound
<1>5. /\ cache \in [OpIDs -> CachedOperation \cup {None}]
      /\ \A o \in OpIDs : cache[o] # None => Fact(dss, used, o, cache[o].intent, cache[o].ver)
  BY <1>3, <1>4, UpdatedIsRight DEF IInv
<1>6. ids \subseteq OpIDs
  BY <1>2 DEF InjectReq, Reference
<1>7. \/ Respond(r, "Error") /\ UNCHANGED cached
      \/ /\ \A o \in ids : cache[o] # None
         /\ cached' = [cached EXCEPT ![uss] = cache]
         /\ \/ /\ {Check(req[r].intent, cache[o].intent) : o \in ids} \subseteq {"False"}
               /\ req' = [req EXCEPT ![r].pc = "create", ![r].key = key]
            \/ Respond(r, "ConflictWithFlight")
            \/ Respond(r, "Error")
  BY DEF CommitCache
<1> HIDE DEF cache, ids, uss
<1>8. cached' \in [MockUSSs -> [OpIDs -> CachedOperation \cup {None}]]
  BY <1>3, <1>5, <1>7 DEF IInv, Knowledge, TypeInv
<1>9. CacheSound'
  <2> SUFFICES ASSUME NEW u \in MockUSSs, NEW o \in OpIDs, cached'[u][o] # None
               PROVE  Fact(dss, used, o, cached'[u][o].intent, cached'[u][o].ver)
    BY <1>1 DEF CacheSound
  <2>1. cached'[u][o] = cached[u][o] \/ cached'[u][o] = cache[o]
    BY <1>3, <1>7 DEF IInv, Knowledge, TypeInv
  <2> QED
    BY <1>5, <2>1 DEF IInv, Knowledge, CacheSound
<1>10. CASE Respond(r, "ConflictWithFlight") \/ Respond(r, "Error")
  <2>1. PICK q \in IdleReq : req' = [req EXCEPT ![r] = q]
    BY <1>10 DEF Respond, IdleReq, Answers
  <2>2. q \in Req /\ q.pc = "idle"
    BY DEF Req, IdleReq
  <2>3. RequestSound(dss, used, q) /\ q.pc \notin Owning /\ q.pc # "clear"
    BY <2>2 DEF RequestSound, Owning
  <2> QED
    BY <1>1, <1>8, <1>9, <2>1, <2>2, <2>3, QuietKeepsIInv
<1>11. CASE /\ \A o \in ids : cache[o] # None
            /\ {Check(req[r].intent, cache[o].intent) : o \in ids} \subseteq {"False"}
            /\ req' = [req EXCEPT ![r].pc = "create", ![r].key = key]
  <2> DEFINE q == [req[r] EXCEPT !.pc = "create", !.key = key]
  <2>1. \A o \in ids : cache[o] \in CachedOperation
    BY <1>5, <1>6, <1>11
  <2>2. \A o \in ids : cache[o].ver \in Nat /\ cache[o].intent \in Intents
    BY <2>1 DEF CachedOperation
  <2>3. key \subseteq OpIDs \X Nat
    BY <1>6, <2>2
  <2>4. \A k \in key : \E intent \in Intents :
           Fact(dss, used, k[1], intent, k[2]) /\ Check(req[r].intent, intent) = "False"
    <3> SUFFICES ASSUME NEW o \in ids
                 PROVE  /\ Fact(dss, used, o, cache[o].intent, cache[o].ver)
                        /\ Check(req[r].intent, cache[o].intent) = "False"
      BY <2>2
    <3> QED
      BY <1>5, <1>6, <1>11
  <2> HIDE DEF key
  <2>5. req' = [req EXCEPT ![r] = q]
    BY <1>2, <1>11
  <2>6. q \in InjectReq /\ q.pc = "create" /\ q.key = key /\ q.intent = req[r].intent
    BY <1>2, <2>3 DEF InjectReq
  <2> HIDE DEF q
  <2>7. q \in Req /\ RequestSound(dss, used, q) /\ q.pc \notin Owning /\ q.pc # "clear"
    BY <2>4, <2>6 DEF Req, RequestSound, Owning
  <2> QED
    BY <1>1, <1>8, <1>9, <2>5, <2>7, QuietKeepsIInv
<1> QED
  BY <1>7, <1>10, <1>11

\* delete_flight notifies the subscribers
LEMMA NotifyDeletedKeepsIInv ==
    ASSUME IInv, NEW r \in Requests, NotifyDeleted(r)
    PROVE  IInv'
<1>1. UNCHANGED <<dss, used, flights, cached, promised, orphaned>> /\ req[r].pc = "notifyDeleted"
  BY DEF NotifyDeleted, hist
<1>2. PICK q \in IdleReq : req' = [req EXCEPT ![r] = q]
  BY DEF NotifyDeleted, Respond, IdleReq, Answers
<1> QED
  BY <1>1, <1>2, QuietEndKeepsIInv

\* clear_area begins
LEMMA StartClearKeepsIInv ==
    ASSUME IInv, NEW r \in Requests, NEW uss \in MockUSSs, NEW area \in Areas, StartClear(r, uss, area)
    PROVE  IInv'
<1>1. /\ UNCHANGED <<dss, used, flights, cached, orphaned>> /\ req[r].pc = "idle"
      /\ promised' = {p \in promised : p[1] # uss}
  BY DEF StartClear
<1>2. CASE Respond(r, "NotCleared")
  <2>1. PICK q \in IdleReq : req' = [req EXCEPT ![r] = q]
    BY <1>2 DEF Respond, IdleReq, Answers
  <2> QED
    BY <1>1, <2>1, QuietEndKeepsIInv
<1>3. CASE ~Respond(r, "NotCleared")
  <2> DEFINE refs == QueryReferences(bounding_vol4(<<area>>))
             q == [pc |-> "clear", uss |-> uss, refs |-> refs, deleted |-> {}, result |-> None]
  <2>1. req' = [req EXCEPT ![r] = q]
    BY <1>3 DEF StartClear
  <2>2. refs \subseteq Reference /\ \A ref \in refs : ref.id \in used
    BY QueriedReferences DEF IInv
  <2> HIDE DEF refs
  <2>3. q \in ClearReq /\ q.pc = "clear" /\ q.uss = uss /\ q.refs = refs /\ q.deleted = {}
    BY <2>2 DEF ClearReq
  <2> HIDE DEF q
  <2>4. q \in Req /\ RequestSound(dss, used, q) /\ q.pc \notin Owning
    BY <2>2, <2>3 DEF Req, RequestSound, Owning
  <2>5. \A p \in promised', ref \in q.refs : p[1] = q.uss => p[3] # ref.id
    BY <1>1, <2>3
  <2>6. cached' \in [MockUSSs -> [OpIDs -> CachedOperation \cup {None}]] /\ CacheSound'
    BY <1>1 DEF IInv, Knowledge, TypeInv, CacheSound
  <2>7. promised' \subseteq promised
    BY <1>1
  <2> QED
    BY <1>1, <2>1, <2>4, <2>5, <2>6, <2>7, QuietKeepsIInv
<1> QED
  BY <1>2, <1>3

-----------------------------------------------------------------------------
(***************************************************************************)
(* Steps that change who answers for an operational intent                 *)
(***************************************************************************)

\* Who holds an operational intent, and that it knows what it holds
LEMMA HoldersKnow ==
    ASSUME Knowledge, NEW r \in Requests, req[r].pc \in Owning
    PROVE  req[r].op \in OpIDs /\ req[r].op \in used /\ req[r].uss \in MockUSSs
<1>1. req[r] \in Req /\ RequestSound(dss, used, req[r])
  BY DEF Knowledge, TypeInv, RequestsSound
<1>2. CASE req[r].pc \in {"notify", "store"}
  <2>1. req[r] \in InjectReq /\ Owned(dss, used, req[r].uss, req[r].op, req[r].intent)
    BY <1>1, <1>2, KindOfRequest DEF RequestSound
  <2> QED
    BY <2>1 DEF InjectReq, Owned, Knowledge, TypeInv
<1>3. CASE req[r].pc \in {"delete", "notifyDeleted"}
  <2>1. req[r] \in DeleteReq
    BY <1>1, <1>3, KindOfRequest
  <2> QED
    BY <1>1, <1>3, <2>1 DEF DeleteReq, RequestSound, Owned
<1> QED
  BY <1>2, <1>3 DEF Owning

\* The promises for what a request holds are the request's own
LEMMA PromisesOfHolder ==
    ASSUME IInv, NEW r \in Requests, req[r].pc \in Owning, NEW p \in promised, p[3] = req[r].op
    PROVE  req[r].pc \in {"notify", "store"} /\ p = <<req[r].uss, req[r].flight, req[r].op>>
<1>1. p \in MockUSSs \X FlightIDs \X OpIDs /\ PromiseKept(p)
  BY DEF IInv, Knowledge, TypeInv, PromisesKept
<1>2. Holds(r, p[3]) /\ p[3] \in OpIDs
  BY <1>1 DEF Holds, Owning
<1>3. ~FlightHas(p[1], p[2], p[3])
  BY <1>1, <1>2 DEF IInv, OneOwner
<1>4. PICK s \in Requests : /\ req[s].pc \in {"notify", "store"}
                            /\ req[s].op = p[3] /\ req[s].uss = p[1] /\ req[s].flight = p[2]
  BY <1>1, <1>3 DEF PromiseKept
<1>5. s = r
  BY <1>2, <1>4 DEF Holds, IInv, OneOwner
<1> QED
  BY <1>1, <1>4, <1>5

\* A request ends and lets go of what it holds
LEMMA LetGoKeepsIInv ==
    ASSUME IInv, NEW r \in Requests, NEW q \in IdleReq, req' = [req EXCEPT ![r] = q],
           UNCHANGED <<dss, used, flights, cached>>,
           req[r].pc \in {"notify", "delete"},
           req[r].op \in Known => req[r].op \in orphaned',
           orphaned \subseteq orphaned', promised' \subseteq promised,
           req[r].pc = "notify" => <<req[r].uss, req[r].flight, req[r].op>> \notin promised'
    PROVE  IInv'
<1>1. TypeInv /\ req \in [Requests -> Req]
  BY DEF IInv, Knowledge, TypeInv
<1>2. req'[r] = q /\ \A s \in Requests \ {r} : req'[s] = req[s]
  BY <1>1
<1>3. q \in Req /\ q.pc = "idle"
  BY DEF Req, IdleReq
<1>4. TypeInv'
  BY <1>1, <1>3 DEF TypeInv
<1>5. RequestsSound'
  BY <1>2, <1>3 DEF IInv, Knowledge, RequestsSound, RequestSound
<1>6. Knowledge'
  BY <1>4, <1>5 DEF IInv, Knowledge, DssSound, Known, FlightsSound, CacheSound
<1>7. \A o \in OpIDs, s \in Requests : Holds(s, o)' => Holds(s, o)
  BY <1>2, <1>3 DEF Holds
<1>8. \A o \in OpIDs, s \in Requests : Holds(s, o) => Holds(s, o)' \/ o = req[r].op
  BY <1>2 DEF Holds
<1>9. OneOwner'
  BY <1>7 DEF IInv, OneOwner, FlightHas
<1>10. PromisesKept'
  <2> SUFFICES ASSUME NEW p \in promised' PROVE PromiseKept(p)'
    BY DEF PromisesKept
  <2>1. PromiseKept(p)
    BY DEF IInv, PromisesKept
  <2>2. p[3] # req[r].op
    BY PromisesOfHolder DEF Owning
  <2> QED
    BY <1>2, <2>1, <2>2 DEF PromiseKept, FlightHas, Known
<1>11. NotCleared'
  BY <1>2, <1>3 DEF IInv, NotCleared
<1>12. AllOwned'
  <2> SUFFICES ASSUME NEW o \in Known, dss[o].manager \in MockUSSs PROVE HasOwner(o)'
    BY DEF AllOwned, Known
  <2>1. HasOwner(o) /\ o \in OpIDs
    BY DEF IInv, AllOwned, Known
  <2> QED
    BY <1>8, <2>1 DEF HasOwner, FlightHas
<1> QED
  BY <1>6, <1>9, <1>10, <1>11, <1>12 DEF IInv

\* inject_flight notifies the subscribers, or fails to
LEMMA NotifyKeepsIInv ==
    ASSUME IInv, NEW r \in Requests, Notify(r)
    PROVE  IInv'
<1>1. UNCHANGED <<dss, used, flights, cached>> /\ req[r].pc = "notify"
  BY DEF Notify
<1>2. CASE /\ Respond(r, "Error")
           /\ promised' = promised \ {<<req[r].uss, req[r].flight, req[r].op>>}
           /\ orphaned' = orphaned \cup {req[r].op}
  <2>1. PICK q \in IdleReq : req' = [req EXCEPT ![r] = q]
    BY <1>2 DEF Respond, IdleReq, Answers
  <2> QED
    BY <1>1, <1>2, <2>1, LetGoKeepsIInv
<1>3. CASE GoTo(r, "store") /\ UNCHANGED hist
  <2> DEFINE q == [req[r] EXCEPT !.pc = "store"]
  <2>1. req \in [Requests -> Req] /\ req[r] \in InjectReq /\ RequestSound(dss, used, req[r])
    BY <1>1, KindOfRequest DEF IInv, Knowledge, TypeInv, RequestsSound
  <2>2. req' = [req EXCEPT ![r] = q]
    BY <1>3, <2>1 DEF GoTo
  <2>3. /\ q \in InjectReq /\ q.pc = "store" /\ q.op = req[r].op /\ q.uss = req[r].uss
        /\ q.flight = req[r].flight /\ q.intent = req[r].intent
    BY <2>1 DEF InjectReq
  <2> HIDE DEF q
  <2>4. req'[r] = q /\ \A s \in Requests \ {r} : req'[s] = req[s]
    BY <2>1, <2>2
  <2>5. RequestSound(dss, used, q)
    BY <1>1, <2>1, <2>3 DEF RequestSound
  <2>6. RequestsSound'
    BY <1>1, <2>4, <2>5 DEF IInv, Knowledge, RequestsSound
  <2>7. TypeInv'
    BY <1>1, <1>3, <2>2, <2>3 DEF IInv, Knowledge, TypeInv, Req, hist
  <2>8. Knowledge'
    BY <1>1, <2>6, <2>7 DEF IInv, Knowledge, DssSound, Known, FlightsSound, CacheSound
  <2>9. \A o \in OpIDs, s \in Requests : Holds(s, o)' <=> Holds(s, o)
    BY <1>1, <2>3, <2>4 DEF Holds
  <2>10. OneOwner'
    BY <1>1, <2>9 DEF IInv, OneOwner, FlightHas
  <2>11. PromisesKept'
    <3> SUFFICES ASSUME NEW p \in promised PROVE PromiseKept(p)'
      BY <1>3 DEF PromisesKept, hist
    <3>1. PromiseKept(p)
      BY DEF IInv, PromisesKept
    <3>2. CASE FlightHas(p[1], p[2], p[3])
      BY <1>1, <3>1, <3>2 DEF PromiseKept, FlightHas, Known
    <3>3. CASE ~FlightHas(p[1], p[2], p[3])
      <4>1. PICK s \in Requests : /\ req[s].pc \in {"notify", "store"}
                                  /\ req[s].op = p[3] /\ req[s].uss = p[1] /\ req[s].flight = p[2]
        BY <3>1, <3>3 DEF PromiseKept
      <4>2. /\ req'[s].pc \in {"notify", "store"}
            /\ req'[s].op = p[3] /\ req'[s].uss = p[1] /\ req'[s].flight = p[2]
        BY <2>3, <2>4, <4>1
      <4> QED
        BY <1>1, <3>1, <4>2 DEF PromiseKept, Known
    <3> QED
      BY <3>2, <3>3
  <2>12. NotCleared'
    BY <1>3, <2>3, <2>4 DEF IInv, NotCleared, hist
  <2>13. AllOwned'
    <3> SUFFICES ASSUME NEW o \in Known, dss[o].manager \in MockUSSs PROVE HasOwner(o)'
      BY <1>1 DEF AllOwned, Known
    <3>1. HasOwner(o) /\ o \in OpIDs
      BY DEF IInv, AllOwned, Known
    <3> QED
      BY <1>1, <1>3, <2>9, <3>1 DEF HasOwner, FlightHas, hist
  <2> QED
    BY <2>8, <2>10, <2>11, <2>12, <2>13 DEF IInv
<1> QED
  BY <1>2, <1>3 DEF Notify

\* inject_flight stores the flight: its intent is found there from now on
LEMMA StoreFlightKeepsIInv ==
    ASSUME IInv, NEW r \in Requests, StoreFlight(r)
    PROVE  IInv'
<1> DEFINE uss == req[r].uss
           flight == req[r].flight
           op == req[r].op
           record == [op |-> op, intent |-> req[r].intent]
           replaced == IF flights[uss][flight] = None THEN {} ELSE {flights[uss][flight].op}
<1>1. /\ UNCHANGED <<dss, used, cached>> /\ req[r].pc = "store"
      /\ flights' = [flights EXCEPT ![uss][flight] = record]
      /\ promised' = promised \ ({uss} \X {flight} \X replaced)
      /\ orphaned' = orphaned \cup replaced
  BY DEF StoreFlight
<1>2. PICK q \in IdleReq : req' = [req EXCEPT ![r] = q]
  BY DEF StoreFlight, Respond, IdleReq, Answers
<1>3. /\ req \in [Requests -> Req] /\ req[r] \in InjectReq
      /\ Owned(dss, used, uss, op, req[r].intent)
  BY <1>1, KindOfRequest DEF IInv, Knowledge, TypeInv, RequestsSound, RequestSound
<1>4. uss \in MockUSSs /\ flight \in FlightIDs /\ op \in OpIDs /\ req[r].intent \in Intents
  BY <1>1, <1>3, HoldersKnow DEF InjectReq, IInv, Owning
<1>5. record \in FlightRecord /\ record # None
  BY <1>4, ConstantsAssumption DEF FlightRecord
<1>6. q \in Req /\ q.pc = "idle"
  BY DEF Req, IdleReq
<1>7. req'[r] = q /\ \A s \in Requests \ {r} : req'[s] = req[s]
  BY <1>2, <1>3
<1>8. record.op = op /\ record.intent = req[r].intent
  OBVIOUS
<1> HIDE DEF record, op, uss, flight
<1>9. /\ flights \in [MockUSSs -> [FlightIDs -> FlightRecord \cup {None}]]
      /\ flights'[uss][flight] = record
      /\ \A u \in MockUSSs, f \in FlightIDs :
            ~(u = uss /\ f = flight) => flights'[u][f] = flights[u][f]
  BY <1>1, <1>4 DEF IInv, Knowledge, TypeInv
<1>10. flights' \in [MockUSSs -> [FlightIDs -> FlightRecord \cup {None}]]
  BY <1>1, <1>4, <1>5, <1>9
<1>11. TypeInv'
  BY <1>1, <1>2, <1>3, <1>6, <1>10 DEF IInv, Knowledge, TypeInv
<1>12. Knowledge'
  <2>1. DssMoves /\ DssSound'
    BY <1>1 DEF DssMoves, IInv, Knowledge, DssSound, Known
  <2>2. \A u \in MockUSSs, f \in FlightIDs :
            \/ flights'[u][f] = flights[u][f] \/ flights'[u][f] = None
            \/ Owned(dss', used', u, flights'[u][f].op, flights'[u][f].intent)
    BY <1>1, <1>3, <1>8, <1>9 DEF uss, op
  <2>3. \A s \in Requests : req'[s] = req[s] \/ RequestSound(dss', used', req'[s])
    BY <1>6, <1>7 DEF RequestSound
  <2> QED
    BY <1>1, <1>11, <2>1, <2>2, <2>3, StepKeepsKnowledge DEF IInv
<1>13. \A s \in Requests, o \in OpIDs : Holds(s, o)' => Holds(s, o) /\ s # r
  BY <1>6, <1>7 DEF Holds
<1>14. \A s \in Requests, o \in OpIDs : Holds(s, o) => Holds(s, o)' \/ (s = r /\ o = op)
  BY <1>7 DEF Holds, op
<1>15. Holds(r, op)
  BY <1>1 DEF Holds, op
<1>16. \A u \in MockUSSs, f \in FlightIDs, o \in OpIDs :
          FlightHas(u, f, o)' <=> \/ u = uss /\ f = flight /\ o = op
                                  \/ ~(u = uss /\ f = flight) /\ FlightHas(u, f, o)
  BY <1>5, <1>8, <1>9 DEF FlightHas
<1>17. OneOwner'
  <2>1. ASSUME NEW u \in MockUSSs, NEW v \in MockUSSs, NEW f \in FlightIDs, NEW g \in FlightIDs,
               NEW o \in OpIDs, FlightHas(u, f, o)', FlightHas(v, g, o)'
        PROVE  u = v /\ f = g
    BY <1>4, <1>15, <1>16, <2>1 DEF IInv, OneOwner
  <2>2. ASSUME NEW s \in Requests, NEW o \in OpIDs, Holds(s, o)'
        PROVE  /\ \A u \in MockUSSs, f \in FlightIDs : ~FlightHas(u, f, o)'
               /\ \A t \in Requests : Holds(t, o)' => t = s
    <3>1. Holds(s, o) /\ s # r
      BY <1>13, <2>2
    <3>2. o # op
      BY <1>4, <1>15, <3>1 DEF IInv, OneOwner
    <3> QED
      BY <1>13, <1>16, <3>1, <3>2 DEF IInv, OneOwner
  <2> QED
    BY <2>1, <2>2 DEF OneOwner
<1>18. PromisesKept'
  <2> SUFFICES ASSUME NEW p \in promised' PROVE PromiseKept(p)'
    BY DEF PromisesKept
  <2>1. p \in promised /\ p \in MockUSSs \X FlightIDs \X OpIDs /\ PromiseKept(p)
    BY <1>1 DEF IInv, Knowledge, TypeInv, PromisesKept
  <2>2. p[3] \in Known' /\ dss'[p[3]].manager = p[1]
    BY <1>1, <2>1 DEF PromiseKept, Known
  <2>3. CASE p[3] = op
    <3>1. p = <<uss, flight, op>>
      BY <1>1, <2>1, <2>3, PromisesOfHolder DEF Owning, uss, flight, op
    <3>2. FlightHas(p[1], p[2], p[3])'
      BY <1>16, <2>1, <3>1
    <3> QED
      BY <2>2, <3>2 DEF PromiseKept
  <2>4. CASE p[3] # op /\ FlightHas(p[1], p[2], p[3])
    <3>1. ~(p[1] = uss /\ p[2] = flight)
      <4> SUFFICES ASSUME p[1] = uss, p[2] = flight PROVE FALSE
        OBVIOUS
      <4>1. replaced = {p[3]}
        BY <2>4 DEF FlightHas
      <4> QED
        BY <1>1, <2>1, <4>1
    <3>2. FlightHas(p[1], p[2], p[3])'
      BY <1>16, <2>1, <2>4, <3>1
    <3> QED
      BY <2>2, <3>2 DEF PromiseKept
  <2>5. CASE p[3] # op /\ ~FlightHas(p[1], p[2], p[3])
    <3>1. PICK s \in Requests : /\ req[s].pc \in {"notify", "store"}
                                /\ req[s].op = p[3] /\ req[s].uss = p[1] /\ req[s].flight = p[2]
      BY <2>1, <2>5 DEF PromiseKept
    <3>2. req'[s] = req[s]
      BY <1>7, <2>5, <3>1 DEF op
    <3> QED
      BY <2>2, <3>1, <3>2 DEF PromiseKept
  <2> QED
    BY <2>3, <2>4, <2>5
<1>19. NotCleared'
  BY <1>1, <1>6, <1>7 DEF IInv, NotCleared
<1>20. AllOwned'
  <2> SUFFICES ASSUME NEW o \in Known, dss[o].manager \in MockUSSs PROVE HasOwner(o)'
    BY <1>1 DEF AllOwned, Known
  <2>1. HasOwner(o) /\ o \in OpIDs
    BY DEF IInv, AllOwned, Known
  <2>2. CASE o = op
    <3>1. dss[o].manager = uss
      BY <1>3, <2>2 DEF Owned, Known
    <3> QED
      BY <1>1, <1>4, <1>16, <2>2, <3>1 DEF HasOwner
  <2>3. CASE o # op
    <3>1. \A f \in FlightIDs : FlightHas(dss[o].manager, f, o) =>
             FlightHas(dss[o].manager, f, o)' \/ o \in orphaned'
      BY <1>1, <1>16, <2>1 DEF FlightHas
    <3>2. \A s \in Requests : Holds(s, o) => Holds(s, o)'
      BY <1>14, <2>1, <2>3
    <3> QED
      BY <1>1, <2>1, <3>1, <3>2 DEF HasOwner, FlightHas
  <2> QED
    BY <2>2, <2>3
<1> QED
  BY <1>12, <1>17, <1>18, <1>19, <1>20 DEF IInv

\* The flight leaves the database, and the request answers for it
LEMMA PopFlightKeepsIInv ==
    ASSUME IInv, NEW r \in Requests, NEW uss \in MockUSSs, NEW flight \in FlightIDs,
           PopFlight(r, uss, flight)
    PROVE  IInv'
<1> DEFINE record == flights[uss][flight]
           op == record.op
<1>1. /\ UNCHANGED <<dss, used, cached, orphaned>> /\ req[r].pc = "idle"
      /\ flights' = [flights EXCEPT ![uss][flight] = None]
  BY DEF PopFlight
<1>2. flights \in [MockUSSs -> [FlightIDs -> FlightRecord \cup {None}]] /\ req \in [Requests -> Req]
  BY DEF IInv, Knowledge, TypeInv
<1>3. CASE record = None
  <2>1. flights' = flights /\ promised' = promised
    BY <1>1, <1>2, <1>3 DEF PopFlight
  <2>2. PICK q \in IdleReq : req' = [req EXCEPT ![r] = q]
    BY <1>3 DEF PopFlight, Respond, IdleReq, Answers
  <2> QED
    BY <1>1, <2>1, <2>2, QuietEndKeepsIInv
<1>4. CASE record # None
  <2> DEFINE q == [pc |-> "delete", uss |-> uss, op |-> op, result |-> None]
  <2>1. /\ req' = [req EXCEPT ![r] = q]
        /\ promised' = promised \ {<<uss, flight, op>>}
    BY <1>4 DEF PopFlight
  <2>2. record \in FlightRecord /\ Owned(dss, used, uss, op, record.intent)
    BY <1>2, <1>4 DEF IInv, Knowledge, FlightsSound
  <2>3. op \in OpIDs /\ record.intent \in Intents
    BY <2>2 DEF FlightRecord
  <2>4. q \in DeleteReq /\ q.pc = "delete" /\ q.op = op /\ q.uss = uss
    BY <2>3 DEF DeleteReq
  <2> HIDE DEF q
  <2>5. req'[r] = q /\ \A s \in Requests \ {r} : req'[s] = req[s]
    BY <1>2, <2>1
  <2>6. /\ flights'[uss][flight] = None
        /\ \A u \in MockUSSs, f \in FlightIDs :
              ~(u = uss /\ f = flight) => flights'[u][f] = flights[u][f]
    BY <1>1, <1>2
  <2>7. TypeInv'
    <3>1. flights' \in [MockUSSs -> [FlightIDs -> FlightRecord \cup {None}]]
      BY <1>1, <1>2
    <3>2. req' \in [Requests -> Req]
      BY <1>2, <2>1, <2>4 DEF Req
    <3> QED
      BY <1>1, <2>1, <3>1, <3>2 DEF IInv, Knowledge, TypeInv
  <2>8. Knowledge'
    <3>1. DssMoves /\ DssSound'
      BY <1>1 DEF DssMoves, IInv, Knowledge, DssSound, Known
    <3>2. RequestSound(dss', used', q)
      BY <1>1, <2>2, <2>3, <2>4 DEF RequestSound
    <3>3. \A s \in Requests : req'[s] = req[s] \/ RequestSound(dss', used', req'[s])
      BY <2>5, <3>2
    <3>4. \A u \in MockUSSs, f \in FlightIDs :
              flights'[u][f] = flights[u][f] \/ flights'[u][f] = None
      BY <2>6
    <3> QED
      BY <1>1, <2>7, <3>1, <3>3, <3>4, StepKeepsKnowledge DEF IInv
  <2>9. FlightHas(uss, flight, op)
    BY <1>4 DEF FlightHas
  <2>10. \A u \in MockUSSs, f \in FlightIDs, o \in OpIDs :
            FlightHas(u, f, o)' <=> ~(u = uss /\ f = flight) /\ FlightHas(u, f, o)
    BY <2>6 DEF FlightHas
  <2>11. \A s \in Requests, o \in OpIDs :
            Holds(s, o)' <=> (s = r /\ o = op) \/ (s # r /\ Holds(s, o))
    BY <2>4, <2>5 DEF Holds
  <2>12. ~\E o \in OpIDs : Holds(r, o)
    BY <1>1 DEF Holds
  <2> HIDE DEF op
  <2>13. OneOwner'
    <3>1. \A u, v \in MockUSSs, f, g \in FlightIDs, o \in OpIDs :
              FlightHas(u, f, o)' /\ FlightHas(v, g, o)' => u = v /\ f = g
      BY <2>10 DEF IInv, OneOwner
    <3>2. ASSUME NEW s \in Requests, NEW o \in OpIDs, Holds(s, o)'
          PROVE  /\ \A u \in MockUSSs, f \in FlightIDs : ~FlightHas(u, f, o)'
                 /\ \A t \in Requests : Holds(t, o)' => t = s
      <4>1. CASE o = op
        BY <2>3, <2>9, <2>10, <2>11, <3>2, <4>1 DEF IInv, OneOwner
      <4>2. CASE o # op
        BY <2>10, <2>11, <3>2, <4>2 DEF IInv, OneOwner
      <4> QED
        BY <4>1, <4>2
    <3> QED
      BY <3>1, <3>2 DEF OneOwner
  <2>14. PromisesKept'
    <3> SUFFICES ASSUME NEW p \in promised' PROVE PromiseKept(p)'
      BY DEF PromisesKept
    <3>1. p \in promised /\ p \in MockUSSs \X FlightIDs \X OpIDs /\ PromiseKept(p) /\ p # <<uss, flight, op>>
      BY <2>1 DEF IInv, Knowledge, TypeInv, PromisesKept
    <3>2. p[3] \in Known' /\ dss'[p[3]].manager = p[1]
      BY <1>1, <3>1 DEF PromiseKept, Known
    <3>3. CASE FlightHas(p[1], p[2], p[3])
      <4>1. ~(p[1] = uss /\ p[2] = flight)
        <5> SUFFICES ASSUME p[1] = uss, p[2] = flight PROVE FALSE
          OBVIOUS
        <5>1. p[3] = op
          BY <3>3 DEF FlightHas, op
        <5> QED
          BY <3>1, <5>1
      <4> QED
        BY <2>10, <3>1, <3>2, <3>3, <4>1 DEF PromiseKept
    <3>4. CASE ~FlightHas(p[1], p[2], p[3])
      <4>1. PICK s \in Requests : /\ req[s].pc \in {"notify", "store"}
                                  /\ req[s].op = p[3] /\ req[s].uss = p[1] /\ req[s].flight = p[2]
        BY <3>1, <3>4 DEF PromiseKept
      <4>2. req'[s] = req[s]
        BY <1>1, <2>5, <4>1
      <4> QED
        BY <3>2, <4>1, <4>2 DEF PromiseKept
    <3> QED
      BY <3>3, <3>4
  <2>15. NotCleared'
    BY <2>1, <2>4, <2>5 DEF IInv, NotCleared
  <2>16. AllOwned'
    <3> SUFFICES ASSUME NEW o \in Known, dss[o].manager \in MockUSSs PROVE HasOwner(o)'
      BY <1>1 DEF AllOwned, Known
    <3>1. HasOwner(o) /\ o \in OpIDs
      BY DEF IInv, AllOwned, Known
    <3>2. \A f \in FlightIDs : FlightHas(dss[o].manager, f, o) =>
              FlightHas(dss[o].manager, f, o)' \/ Holds(r, o)'
      <4> SUFFICES ASSUME NEW f \in FlightIDs, FlightHas(dss[o].manager, f, o),
                          ~FlightHas(dss[o].manager, f, o)'
                   PROVE  Holds(r, o)'
        OBVIOUS
      <4>1. dss[o].manager = uss /\ f = flight
        <5>1. dss'[o] = dss[o]
          BY <1>1
        <5> QED
          BY <2>10, <3>1, <5>1
      <4>2. o = op
        BY <4>1 DEF FlightHas, op
      <4> QED
        BY <2>11, <3>1, <4>2
    <3>3. \A s \in Requests : Holds(s, o) => Holds(s, o)'
      BY <2>11, <2>12, <3>1
    <3> QED
      BY <1>1, <3>1, <3>2, <3>3 DEF HasOwner, FlightHas
  <2> QED
    BY <2>8, <2>13, <2>14, <2>15, <2>16 DEF IInv
<1> QED
  BY <1>3, <1>4

-----------------------------------------------------------------------------
(***************************************************************************)
(* Steps that remove an operational intent                                 *)
(***************************************************************************)

\* What was not promised is removed; the request that does it may end
LEMMA WithdrawKeepsIInv ==
    ASSUME IInv, NEW o \in Known, dss' = [dss EXCEPT ![o] = None],
           UNCHANGED <<used, flights, cached, promised, orphaned>>,
           \A p \in promised : p[3] # o,
           req' \in [Requests -> Req],
           \A r \in Requests :
               \/ req'[r] = req[r]
               \/ /\ req[r].pc \in {"delete", "clear"}
                  /\ req[r].pc = "delete" => req[r].op = o
                  /\ req'[r].pc \in {"idle", "notifyDeleted", "clear"}
                  /\ req'[r].pc = "notifyDeleted" => req[r].pc = "delete" /\ req'[r].op = o
                  /\ req'[r].pc = "clear" =>
                        /\ req[r].pc = "clear" /\ req'[r].uss = req[r].uss
                        /\ req'[r].refs \subseteq req[r].refs
                        /\ req'[r].deleted \subseteq req[r].deleted \cup {o}
    PROVE  IInv'
<1>1. /\ o \in OpIDs /\ o \in used /\ dss \in [OpIDs -> Plan \cup {None}] /\ used \subseteq OpIDs
      /\ dss'[o] = None /\ \A x \in OpIDs \ {o} : dss'[x] = dss[x]
  BY DEF Known, IInv, Knowledge, TypeInv, DssSound
<1>2. DssMoves
  BY <1>1 DEF DssMoves
<1>3. TypeInv'
  BY <1>1 DEF IInv, Knowledge, TypeInv
<1>4. DssSound'
  BY <1>1 DEF IInv, Knowledge, DssSound, Known
<1>5. \A r \in Requests : req'[r] = req[r] \/ RequestSound(dss', used', req'[r])
  <2> SUFFICES ASSUME NEW r \in Requests, req'[r] # req[r]
               PROVE  RequestSound(dss', used', req'[r])
    OBVIOUS
  <2>1. req[r] \in Req /\ RequestSound(dss, used, req[r])
    BY DEF IInv, Knowledge, TypeInv, RequestsSound
  <2>2. req'[r].pc = "clear" => /\ \A ref \in req'[r].refs : ref.id \in used'
                                /\ \A x \in req'[r].deleted : x \in used' /\ dss'[x] = None
    <3> SUFFICES ASSUME req'[r].pc = "clear"
                 PROVE  /\ \A ref \in req'[r].refs : ref.id \in used
                        /\ \A x \in req'[r].deleted : x \in used /\ dss'[x] = None
      OBVIOUS
    <3>1. /\ \A ref \in req[r].refs : ref.id \in used
          /\ \A x \in req[r].deleted : x \in used /\ dss[x] = None
      BY <2>1 DEF RequestSound
    <3> QED
      BY <1>1, <3>1
  <2>3. req'[r].pc = "notifyDeleted" => req'[r].op \in used' /\ dss'[req'[r].op] = None
    BY <1>1
  <2>4. req'[r].pc \in {"idle", "notifyDeleted", "clear"}
    OBVIOUS
  <2> QED
    BY <2>2, <2>3, <2>4 DEF RequestSound
<1>6. Knowledge'
  BY <1>2, <1>3, <1>4, <1>5, StepKeepsKnowledge DEF IInv
<1>7. \A r \in Requests, x \in OpIDs : Holds(r, x)' => Holds(r, x)
  BY DEF Holds
<1>8. \A r \in Requests, x \in OpIDs : Holds(r, x) => Holds(r, x)' \/ x = o
  BY DEF Holds
<1>9. OneOwner'
  BY <1>7 DEF IInv, OneOwner, FlightHas
<1>10. PromisesKept'
  <2> SUFFICES ASSUME NEW p \in promised PROVE PromiseKept(p)'
    BY DEF PromisesKept
  <2>1. PromiseKept(p) /\ p[3] # o
    BY DEF IInv, PromisesKept
  <2>2. p[3] \in Known' /\ dss'[p[3]].manager = p[1]
    BY <1>1, <2>1 DEF PromiseKept, Known
  <2>3. CASE FlightHas(p[1], p[2], p[3])
    BY <2>2, <2>3 DEF PromiseKept, FlightHas
  <2>4. CASE ~FlightHas(p[1], p[2], p[3])
    <3>1. PICK s \in Requests : /\ req[s].pc \in {"notify", "store"}
                                /\ req[s].op = p[3] /\ req[s].uss = p[1] /\ req[s].flight = p[2]
      BY <2>1, <2>4 DEF PromiseKept
    <3>2. req'[s] = req[s]
      BY <3>1
    <3> QED
      BY <2>2, <3>1, <3>2 DEF PromiseKept
  <2> QED
    BY <2>3, <2>4
<1>11. NotCleared'
  BY DEF IInv, NotCleared
<1>12. AllOwned'
  <2> SUFFICES ASSUME NEW x \in Known', dss'[x].manager \in MockUSSs PROVE HasOwner(x)'
    BY DEF AllOwned
  <2>1. x \in OpIDs /\ x # o /\ dss'[x] = dss[x] /\ x \in Known
    BY <1>1 DEF Known
  <2>2. HasOwner(x)
    BY <2>1 DEF IInv, AllOwned
  <2> QED
    BY <1>8, <2>1, <2>2 DEF HasOwner, FlightHas
<1> QED
  BY <1>6, <1>9, <1>10, <1>11, <1>12 DEF IInv

\* delete_flight deletes the reference in the DSS
LEMMA DeleteReferenceKeepsIInv ==
    ASSUME IInv, NEW r \in Requests, DeleteReference(r)
    PROVE  IInv'
<1> DEFINE o == req[r].op
<1>1. UNCHANGED <<used, flights, cached, promised>> /\ req[r].pc = "delete"
  BY DEF DeleteReference
<1>2. /\ req \in [Requests -> Req] /\ req[r] \in DeleteReq
      /\ \E intent \in Intents : Owned(dss, used, req[r].uss, o, intent)
  BY <1>1, KindOfRequest DEF IInv, Knowledge, TypeInv, RequestsSound, RequestSound
<1>3. o \in Known => Deletable(req[r].uss, o, 1)
  BY <1>2 DEF Owned, Deletable, Known
<1>4. \A p \in promised : p[3] # o
  BY <1>1, PromisesOfHolder DEF Owning
<1>5. CASE /\ Respond(r, "DeleteFailed") /\ UNCHANGED dss
           /\ \/ ~Deletable(req[r].uss, o, 1) /\ UNCHANGED orphaned
              \/ orphaned' = orphaned \cup {o}
  <2>1. PICK q \in IdleReq : req' = [req EXCEPT ![r] = q]
    BY <1>5 DEF Respond, IdleReq, Answers
  <2>2. o \in Known => o \in orphaned'
    BY <1>3, <1>5
  <2>3. orphaned \subseteq orphaned'
    BY <1>5
  <2> QED
    BY <1>1, <1>5, <2>1, <2>2, <2>3, LetGoKeepsIInv
<1>6. CASE /\ Deletable(req[r].uss, o, 1) /\ dss' = [dss EXCEPT ![o] = None] /\ UNCHANGED orphaned
           /\ GoTo(r, "notifyDeleted") \/ Respond(r, "DeleteFailed")
  <2>1. o \in Known
    BY <1>6 DEF Deletable
  <2>2. PICK q \in Req : /\ req' = [req EXCEPT ![r] = q]
                         /\ q.pc = "idle" \/ (q.pc = "notifyDeleted" /\ q.op = o)
    <3>1. CASE GoTo(r, "notifyDeleted")
      <4> DEFINE q == [req[r] EXCEPT !.pc = "notifyDeleted"]
      <4>1. req' = [req EXCEPT ![r] = q]
        BY <1>2, <3>1 DEF GoTo
      <4>2. q \in DeleteReq /\ q.pc = "notifyDeleted" /\ q.op = o
        BY <1>2 DEF DeleteReq
      <4> QED
        BY <4>1, <4>2 DEF Req
    <3>2. CASE Respond(r, "DeleteFailed")
      <4>1. PICK q \in IdleReq : req' = [req EXCEPT ![r] = q]
        BY <3>2 DEF Respond, IdleReq, Answers
      <4>2. q \in Req /\ q.pc = "idle"
        BY DEF IdleReq, Req
      <4> QED
        BY <4>1, <4>2
    <3> QED
      BY <1>6, <3>1, <3>2
  <2>3. req' \in [Requests -> Req] /\ req'[r] = q /\ \A s \in Requests \ {r} : req'[s] = req[s]
    <3>1. req \in [Requests -> Req] /\ req' = [req EXCEPT ![r] = q]
      BY <1>2, <2>2
    <3> QED
      BY <3>1
  <2>4. /\ req'[r].pc \in {"idle", "notifyDeleted"}
        /\ req'[r].pc = "notifyDeleted" => req'[r].op = o
    BY <2>2, <2>3
  <2>5. \A s \in Requests :
           \/ req'[s] = req[s]
           \/ /\ req[s].pc = "delete" /\ req[s].op = o
              /\ req'[s].pc \in {"idle", "notifyDeleted"}
              /\ req'[s].pc = "notifyDeleted" => req'[s].op = o
    BY <1>1, <2>3, <2>4
  <2> QED
    BY <1>1, <1>4, <1>6, <2>1, <2>3, <2>5, WithdrawKeepsIInv
<1> QED
  BY <1>5, <1>6 DEF DeleteReference

\* clear_area deletes one reference
LEMMA ClearReferenceKeepsIInv ==
    ASSUME IInv, NEW r \in Requests, NEW ref \in req[r].refs, ClearReference(r, ref)
    PROVE  IInv'
<1>1. UNCHANGED <<used, flights, cached, promised, orphaned>> /\ req[r].pc = "clear"
  BY DEF ClearReference, hist
<1>2. req \in [Requests -> Req] /\ req[r] \in ClearReq /\ RequestSound(dss, used, req[r])
  BY <1>1, KindOfRequest DEF IInv, Knowledge, TypeInv, RequestsSound
<1>3. ref \in Reference /\ ref.id \in OpIDs /\ req[r].uss \in MockUSSs
  BY <1>2 DEF ClearReq, Reference
<1>4. CASE Respond(r, "Error") /\ UNCHANGED dss
  <2>1. PICK q \in IdleReq : req' = [req EXCEPT ![r] = q]
    BY <1>4 DEF Respond, IdleReq, Answers
  <2> QED
    BY <1>1, <1>4, <2>1, QuietEndKeepsIInv
<1>5. CASE req' = [req EXCEPT ![r].refs = @ \ {ref}] /\ UNCHANGED dss
  <2> DEFINE q == [req[r] EXCEPT !.refs = @ \ {ref}]
  <2>1. req' = [req EXCEPT ![r] = q]
    BY <1>2, <1>5
  <2>2. /\ q \in ClearReq /\ q.pc = "clear" /\ q.uss = req[r].uss
        /\ q.refs \subseteq req[r].refs /\ q.deleted = req[r].deleted
    BY <1>2 DEF ClearReq
  <2> HIDE DEF q
  <2>3. q \in Req /\ RequestSound(dss, used, q) /\ q.pc \notin Owning
    BY <1>1, <1>2, <2>2 DEF Req, RequestSound, Owning
  <2>4. \A p \in promised', x \in q.refs : p[1] = q.uss => p[3] # x.id
    BY <1>1, <2>2 DEF IInv, NotCleared
  <2>5. cached' \in [MockUSSs -> [OpIDs -> CachedOperation \cup {None}]] /\ CacheSound'
    BY <1>1, <1>5 DEF IInv, Knowledge, TypeInv, CacheSound
  <2> QED
    BY <1>1, <1>5, <2>1, <2>3, <2>4, <2>5, QuietKeepsIInv
<1>6. CASE /\ Deletable(req[r].uss, ref.id, ref.ver)
           /\ dss' = [dss EXCEPT ![ref.id] = None]
           /\ \/ req' = [req EXCEPT ![r].refs = @ \ {ref}, ![r].deleted = @ \cup {ref.id}]
              \/ Respond(r, "Error")
  <2>1. ref.id \in Known /\ dss[ref.id].manager = req[r].uss
    BY <1>6 DEF Deletable
  <2>2. \A p \in promised : p[3] # ref.id
    <3> SUFFICES ASSUME NEW p \in promised, p[3] = ref.id PROVE FALSE
      OBVIOUS
    <3>1. dss[p[3]].manager = p[1]
      BY DEF IInv, PromisesKept, PromiseKept
    <3>2. p[1] = req[r].uss
      BY <2>1, <3>1
    <3> QED
      BY <1>1, <3>2 DEF IInv, NotCleared
  <2>3. PICK q \in Req : /\ req' = [req EXCEPT ![r] = q]
                         /\ \/ q.pc = "idle"
                            \/ /\ q.pc = "clear" /\ q.uss = req[r].uss
                               /\ q.refs \subseteq req[r].refs
                               /\ q.deleted \subseteq req[r].deleted \cup {ref.id}
    <3>1. CASE req' = [req EXCEPT ![r].refs = @ \ {ref}, ![r].deleted = @ \cup {ref.id}]
      <4> DEFINE q == [req[r] EXCEPT !.refs = @ \ {ref}, !.deleted = @ \cup {ref.id}]
      <4>1. req' = [req EXCEPT ![r] = q]
        BY <1>2, <3>1
      <4>2. /\ q \in ClearReq /\ q.pc = "clear" /\ q.uss = req[r].uss
            /\ q.refs \subseteq req[r].refs /\ q.deleted \subseteq req[r].deleted \cup {ref.id}
        BY <1>2, <1>3 DEF ClearReq
      <4> QED
        BY <4>1, <4>2 DEF Req
    <3>2. CASE Respond(r, "Error")
      <4>1. PICK q \in IdleReq : req' = [req EXCEPT ![r] = q]
        BY <3>2 DEF Respond, IdleReq, Answers
      <4>2. q \in Req /\ q.pc = "idle"
        BY DEF IdleReq, Req
      <4> QED
        BY <4>1, <4>2
    <3> QED
      BY <1>6, <3>1, <3>2
  <2>4. req' \in [Requests -> Req] /\ req'[r] = q /\ \A s \in Requests \ {r} : req'[s] = req[s]
    BY <1>2, <2>3
  <2> QED
    BY <1>1, <1>6, <2>1, <2>2, <2>3, <2>4, WithdrawKeepsIInv
<1> QED
  BY <1>4, <1>5, <1>6 DEF ClearReference

\* Another USS removes an operational intent
LEMMA DeleteElsewhereKeepsIInv ==
    ASSUME IInv, NEW o \in OpIDs, DeleteElsewhere(o)
    PROVE  IInv'
<1>1. /\ o \in Known /\ dss[o].manager \in OtherUSSs
      /\ dss' = [dss EXCEPT ![o] = None]
      /\ UNCHANGED <<used, flights, cached, req, promised, orphaned>>
  BY DEF DeleteElsewhere, hist
<1>2. \A p \in promised : p[3] # o
  <2> SUFFICES ASSUME NEW p \in promised, p[3] = o PROVE FALSE
    OBVIOUS
  <2>1. dss[p[3]].manager = p[1] /\ p[1] \in MockUSSs
    BY DEF IInv, PromisesKept, PromiseKept, Knowledge, TypeInv
  <2> QED
    BY <1>1, <2>1, ConstantsAssumption
<1>3. req' \in [Requests -> Req] /\ \A r \in Requests : req'[r] = req[r]
  BY <1>1 DEF IInv, Knowledge, TypeInv
<1> QED
  BY <1>1, <1>2, <1>3, WithdrawKeepsIInv

\* Only flights go whose operational intent is no longer in the DSS
LEMMA CommitClearKeepsIInv ==
    ASSUME IInv, NEW r \in Requests, CommitClear(r)
    PROVE  IInv'
<1> DEFINE uss == req[r].uss
           deleted == req[r].deleted
<1>1. UNCHANGED <<dss, used, promised, orphaned>> /\ req[r].pc = "clear"
  BY DEF CommitClear, hist
<1>2. PICK q \in IdleReq : req' = [req EXCEPT ![r] = q]
  BY DEF CommitClear, Respond, IdleReq, Answers
<1>3. req \in [Requests -> Req] /\ req[r] \in ClearReq /\ RequestSound(dss, used, req[r])
  BY <1>1, KindOfRequest DEF IInv, Knowledge, TypeInv, RequestsSound
<1>4. uss \in MockUSSs /\ \A o \in deleted : o \in used /\ dss[o] = None
  BY <1>1, <1>3 DEF ClearReq, RequestSound
<1>5. q \in Req /\ q.pc = "idle"
  BY DEF Req, IdleReq
<1>6. req'[r] = q /\ \A s \in Requests \ {r} : req'[s] = req[s]
  BY <1>2, <1>3
<1>7. /\ flights \in [MockUSSs -> [FlightIDs -> FlightRecord \cup {None}]]
      /\ cached \in [MockUSSs -> [OpIDs -> CachedOperation \cup {None}]]
  BY DEF IInv, Knowledge, TypeInv
<1>8. /\ flights' = [flights EXCEPT ![uss] =
             [f \in FlightIDs |-> IF flights[uss][f] # None /\ flights[uss][f].op \in deleted
                                  THEN None ELSE flights[uss][f]]]
      /\ cached' = [cached EXCEPT ![uss] =
             [o \in OpIDs |-> IF o \in deleted THEN None ELSE cached[uss][o]]]
  BY <1>4, <1>7 DEF CommitClear
<1> HIDE DEF uss, deleted
<1>9. \A u \in MockUSSs, f \in FlightIDs :
          \/ flights'[u][f] = flights[u][f]
          \/ /\ flights'[u][f] = None
             /\ flights[u][f] # None /\ flights[u][f].op \in deleted
  BY <1>4, <1>7, <1>8
<1>10. \A u \in MockUSSs, o \in OpIDs : cached'[u][o] = cached[u][o] \/ cached'[u][o] = None
  BY <1>4, <1>7, <1>8
<1>11. TypeInv'
  <2>1. flights' \in [MockUSSs -> [FlightIDs -> FlightRecord \cup {None}]]
    BY <1>4, <1>7, <1>8
  <2>2. cached' \in [MockUSSs -> [OpIDs -> CachedOperation \cup {None}]]
    BY <1>4, <1>7, <1>8
  <2> QED
    BY <1>1, <1>2, <1>3, <1>5, <2>1, <2>2 DEF IInv, Knowledge, TypeInv
<1>12. Knowledge'
  <2>1. DssMoves /\ DssSound'
    BY <1>1 DEF DssMoves, IInv, Knowledge, DssSound, Known
  <2>2. \A s \in Requests : req'[s] = req[s] \/ RequestSound(dss', used', req'[s])
    BY <1>5, <1>6 DEF RequestSound
  <2> QED
    BY <1>9, <1>10, <1>11, <2>1, <2>2, StepKeepsKnowledge DEF IInv
<1>13. \A s \in Requests, o \in OpIDs : Holds(s, o)' <=> Holds(s, o)
  BY <1>1, <1>5, <1>6 DEF Holds
<1>14. \A u \in MockUSSs, f \in FlightIDs, o \in OpIDs : FlightHas(u, f, o)' => FlightHas(u, f, o)
  BY <1>9 DEF FlightHas
<1>15. \A u \in MockUSSs, f \in FlightIDs, o \in Known : FlightHas(u, f, o) => FlightHas(u, f, o)'
  BY <1>4, <1>9 DEF FlightHas, Known
<1>16. OneOwner'
  BY <1>13, <1>14 DEF IInv, OneOwner
<1>17. PromisesKept'
  <2> SUFFICES ASSUME NEW p \in promised PROVE PromiseKept(p)'
    BY <1>1 DEF PromisesKept
  <2>1. PromiseKept(p) /\ p[1] \in MockUSSs /\ p[2] \in FlightIDs
    BY DEF IInv, PromisesKept, Knowledge, TypeInv
  <2>2. p[3] \in Known' /\ dss'[p[3]].manager = p[1]
    BY <1>1, <2>1 DEF PromiseKept, Known
  <2>3. CASE FlightHas(p[1], p[2], p[3])
    BY <1>15, <2>1, <2>2, <2>3 DEF PromiseKept
  <2>4. CASE ~FlightHas(p[1], p[2], p[3])
    <3>1. PICK s \in Requests : /\ req[s].pc \in {"notify", "store"}
                                /\ req[s].op = p[3] /\ req[s].uss = p[1] /\ req[s].flight = p[2]
      BY <2>1, <2>4 DEF PromiseKept
    <3>2. req'[s] = req[s]
      BY <1>1, <1>6, <3>1
    <3> QED
      BY <2>2, <3>1, <3>2 DEF PromiseKept
  <2> QED
    BY <2>3, <2>4
<1>18. NotCleared'
  BY <1>1, <1>5, <1>6 DEF IInv, NotCleared
<1>19. AllOwned'
  <2> SUFFICES ASSUME NEW o \in Known, dss[o].manager \in MockUSSs PROVE HasOwner(o)'
    BY <1>1 DEF AllOwned, Known
  <2>1. HasOwner(o) /\ o \in OpIDs
    BY DEF IInv, AllOwned, Known
  <2>2. dss'[o] = dss[o]
    BY <1>1
  <2> QED
    BY <1>1, <1>13, <1>15, <2>1, <2>2 DEF HasOwner
<1> QED
  BY <1>12, <1>16, <1>17, <1>18, <1>19 DEF IInv

-----------------------------------------------------------------------------
(***************************************************************************)
(* Steps that plan an operational intent                                   *)
(***************************************************************************)

\* Nobody knows of an ID that was not given out
LEMMA NewIsUnknown ==
    ASSUME IInv, NEW o \in OpIDs, o \notin used
    PROVE  /\ dss[o] = None
           /\ \A u \in MockUSSs, f \in FlightIDs : ~FlightHas(u, f, o)
           /\ \A r \in Requests : ~Holds(r, o)
           /\ \A p \in promised : p[3] # o
<1>1. dss[o] = None
  BY DEF IInv, Knowledge, DssSound, Known
<1>2. \A u \in MockUSSs, f \in FlightIDs : ~FlightHas(u, f, o)
  BY DEF IInv, Knowledge, FlightsSound, FlightHas, Owned
<1>3. \A r \in Requests : ~Holds(r, o)
  BY HoldersKnow DEF IInv, Holds, Owning
<1>4. \A p \in promised : p[3] # o
  BY <1>1 DEF IInv, PromisesKept, PromiseKept, Known
<1> QED
  BY <1>1, <1>2, <1>3, <1>4

\* inject_flight creates the reference, if its key is complete
LEMMA CreateReferenceKeepsIInv ==
    ASSUME IInv, NEW r \in Requests, CreateReference(r)
    PROVE  IInv'
<1> DEFINE uss == req[r].uss
           intent == req[r].intent
           plan == [manager |-> uss, intent |-> intent, ver |-> 1]
<1>1. UNCHANGED <<flights, cached>> /\ req[r].pc = "create"
  BY DEF CreateReference
<1>2. req \in [Requests -> Req] /\ req[r] \in InjectReq
  BY <1>1, KindOfRequest DEF IInv, Knowledge, TypeInv
<1>3. uss \in MockUSSs /\ intent \in Intents /\ req[r].flight \in FlightIDs
  BY <1>2 DEF InjectReq
<1>4. plan \in Plan /\ plan # None /\ plan.manager = uss /\ plan.ver = 1
  BY <1>3, ConstantsAssumption DEF Plan
<1>5. CASE Respond(r, "Failed") /\ UNCHANGED <<dss, used, hist>>
  <2>1. PICK q \in IdleReq : req' = [req EXCEPT ![r] = q]
    BY <1>5 DEF Respond, IdleReq, Answers
  <2> QED
    BY <1>1, <1>5, <2>1, QuietEndKeepsIInv DEF hist
<1>6. CASE \E o \in OpIDs \ used :
              /\ used' = used \cup {o}
              /\ dss' = [dss EXCEPT ![o] = plan]
              /\ \/ /\ req' = [req EXCEPT ![r].pc = "notify", ![r].op = o]
                    /\ promised' = promised \cup {<<uss, req[r].flight, o>>}
                    /\ UNCHANGED orphaned
                 \/ /\ Respond(r, "Failed")
                    /\ orphaned' = orphaned \cup {o} /\ UNCHANGED promised
  <2>1. PICK o \in OpIDs \ used :
              /\ used' = used \cup {o}
              /\ dss' = [dss EXCEPT ![o] = plan]
              /\ \/ /\ req' = [req EXCEPT ![r].pc = "notify", ![r].op = o]
                    /\ promised' = promised \cup {<<uss, req[r].flight, o>>}
                    /\ UNCHANGED orphaned
                 \/ /\ Respond(r, "Failed")
                    /\ orphaned' = orphaned \cup {o} /\ UNCHANGED promised
    BY <1>6
  <2>2. PICK q \in Req :
          /\ req' = [req EXCEPT ![r] = q]
          /\ \/ /\ q.pc = "notify" /\ q.op = o /\ q.uss = uss /\ q.intent = intent
                /\ q.flight = req[r].flight
                /\ promised' = promised \cup {<<uss, req[r].flight, o>>} /\ orphaned' = orphaned
             \/ q.pc = "idle" /\ orphaned' = orphaned \cup {o} /\ promised' = promised
    <3>1. CASE /\ req' = [req EXCEPT ![r].pc = "notify", ![r].op = o]
               /\ promised' = promised \cup {<<uss, req[r].flight, o>>}
               /\ UNCHANGED orphaned
      <4> DEFINE q == [req[r] EXCEPT !.pc = "notify", !.op = o]
      <4>1. req' = [req EXCEPT ![r] = q]
        BY <1>2, <3>1
      <4>2. /\ q \in InjectReq /\ q.pc = "notify" /\ q.op = o /\ q.uss = uss /\ q.intent = intent
            /\ q.flight = req[r].flight
        BY <1>2 DEF InjectReq
      <4> QED
        BY <3>1, <4>1, <4>2 DEF Req
    <3>2. CASE Respond(r, "Failed") /\ orphaned' = orphaned \cup {o} /\ UNCHANGED promised
      <4>1. PICK q \in IdleReq : req' = [req EXCEPT ![r] = q]
        BY <3>2 DEF Respond, IdleReq, Answers
      <4>2. q \in Req /\ q.pc = "idle"
        BY DEF IdleReq, Req
      <4> QED
        BY <3>2, <4>1, <4>2
    <3> QED
      BY <2>1, <3>1, <3>2
  <2> HIDE DEF plan
  <2>3. req'[r] = q /\ \A s \in Requests \ {r} : req'[s] = req[s]
    BY <1>2, <2>2
  <2>4. dss'[o] = plan /\ \A x \in OpIDs \ {o} : dss'[x] = dss[x]
    BY <2>1 DEF IInv, Knowledge, TypeInv
  <2>5. /\ dss[o] = None /\ o \in OpIDs /\ o \notin used
        /\ \A u \in MockUSSs, f \in FlightIDs : ~FlightHas(u, f, o)
        /\ \A s \in Requests : ~Holds(s, o)
        /\ \A p \in promised : p[3] # o
    BY NewIsUnknown
  <2>6. TypeInv'
    <3>1. dss' \in [OpIDs -> Plan \cup {None}] /\ used' \subseteq OpIDs
      BY <1>4, <2>1 DEF IInv, Knowledge, TypeInv
    <3>2. req' \in [Requests -> Req]
      BY <1>2, <2>2
    <3>3. promised' \subseteq MockUSSs \X FlightIDs \X OpIDs
      BY <1>3, <2>2 DEF IInv, Knowledge, TypeInv
    <3> QED
      BY <1>1, <3>1, <3>2, <3>3 DEF IInv, Knowledge, TypeInv
  <2>7. DssMoves /\ DssSound'
    BY <1>4, <2>1, <2>4, <2>5 DEF DssMoves, DssSound, Known, IInv, Knowledge
  <2>8. Knowledge'
    <3>1. RequestSound(dss', used', q)
      BY <2>1, <2>2, <2>4 DEF RequestSound, Owned, plan
    <3>2. \A s \in Requests : req'[s] = req[s] \/ RequestSound(dss', used', req'[s])
      BY <2>3, <3>1
    <3> QED
      BY <1>1, <2>6, <2>7, <3>2, StepKeepsKnowledge DEF IInv
  <2>9. \A s \in Requests, x \in OpIDs : Holds(s, x)' =>
            (s = r /\ x = o) \/ (s # r /\ Holds(s, x))
    BY <2>2, <2>3 DEF Holds
  <2>10. \A s \in Requests, x \in OpIDs : Holds(s, x) => Holds(s, x)'
    BY <1>1, <2>3 DEF Holds
  <2>11. OneOwner'
    BY <1>1, <2>5, <2>9 DEF IInv, OneOwner, FlightHas
  <2>12. PromisesKept'
    <3> SUFFICES ASSUME NEW p \in promised' PROVE PromiseKept(p)'
      BY DEF PromisesKept
    <3>1. CASE p \in promised
      <4>1. PromiseKept(p) /\ p[3] # o
        BY <2>5, <3>1 DEF IInv, PromisesKept
      <4>2. p[3] \in Known' /\ dss'[p[3]].manager = p[1]
        BY <2>4, <4>1 DEF PromiseKept, Known
      <4>3. CASE FlightHas(p[1], p[2], p[3])
        BY <1>1, <4>2, <4>3 DEF PromiseKept, FlightHas
      <4>4. CASE ~FlightHas(p[1], p[2], p[3])
        <5>1. PICK s \in Requests : /\ req[s].pc \in {"notify", "store"}
                                    /\ req[s].op = p[3] /\ req[s].uss = p[1] /\ req[s].flight = p[2]
          BY <4>1, <4>4 DEF PromiseKept
        <5>2. req'[s] = req[s]
          BY <1>1, <2>3, <5>1
        <5> QED
          BY <4>2, <5>1, <5>2 DEF PromiseKept
      <4> QED
        BY <4>3, <4>4
    <3>2. CASE p \notin promised
      <4>1. p = <<uss, req[r].flight, o>> /\ q.pc = "notify" /\ q.op = o /\ q.uss = uss
            /\ q.flight = req[r].flight
        BY <2>2, <3>2
      <4>2. p[3] \in Known' /\ dss'[p[3]].manager = p[1]
        BY <1>4, <2>4, <2>5, <4>1 DEF Known
      <4> QED
        BY <2>3, <4>1, <4>2 DEF PromiseKept
    <3> QED
      BY <3>1, <3>2
  <2>13. NotCleared'
    <3> SUFFICES ASSUME NEW s \in Requests, req'[s].pc = "clear", NEW p \in promised',
                        NEW ref \in req'[s].refs, p[1] = req'[s].uss
                 PROVE  p[3] # ref.id
      BY DEF NotCleared
    <3>1. req'[s] = req[s]
      BY <2>2, <2>3
    <3>2. ref.id \in used
      BY <3>1 DEF IInv, Knowledge, RequestsSound, RequestSound
    <3>3. CASE p \in promised
      BY <3>1, <3>3 DEF IInv, NotCleared
    <3>4. CASE p \notin promised
      BY <2>2, <2>5, <3>2, <3>4
    <3> QED
      BY <3>3, <3>4
  <2>14. AllOwned'
    <3> SUFFICES ASSUME NEW x \in Known', dss'[x].manager \in MockUSSs PROVE HasOwner(x)'
      BY DEF AllOwned
    <3>1. CASE x = o
      BY <2>2, <2>3, <3>1 DEF HasOwner, Holds
    <3>2. CASE x # o
      <4>1. x \in OpIDs /\ dss'[x] = dss[x] /\ x \in Known
        BY <2>4, <3>2 DEF Known
      <4>2. HasOwner(x)
        BY <4>1 DEF IInv, AllOwned
      <4>3. orphaned \subseteq orphaned'
        BY <2>2
      <4> QED
        BY <1>1, <2>10, <4>1, <4>2, <4>3 DEF HasOwner, FlightHas
    <3> QED
      BY <3>1, <3>2
  <2> QED
    BY <2>8, <2>11, <2>12, <2>13, <2>14 DEF IInv
<1> QED
  BY <1>5, <1>6 DEF CreateReference

\* Another USS creates or updates an operational intent
LEMMA PutElsewhereKeepsIInv ==
    ASSUME IInv, NEW o \in OpIDs, NEW uss \in OtherUSSs, NEW intent \in Intents,
           PutElsewhere(o, uss, intent)
    PROVE  IInv'
<1> DEFINE ver == IF o \in Known THEN dss[o].ver + 1 ELSE 1
           plan == [manager |-> uss, intent |-> intent, ver |-> ver]
<1>1. /\ o \in used => o \in Known /\ dss[o].manager = uss
      /\ used' = used \cup {o}
      /\ UNCHANGED <<flights, cached, req, promised, orphaned>>
  BY DEF PutElsewhere, hist
<1>2. dss \in [OpIDs -> Plan \cup {None}] /\ dss' = [dss EXCEPT ![o] = plan]
  BY DEF PutElsewhere, IInv, Knowledge, TypeInv
<1>3. ver \in Nat
  <2>1. o \in Known => dss[o].ver \in Nat
    BY PlanFields DEF IInv, Knowledge, Known
  <2> QED
    BY <2>1
<1> HIDE DEF ver
<1>4. plan \in Plan /\ plan # None /\ plan.manager = uss /\ plan.ver = ver
  BY <1>3, ConstantsAssumption DEF Plan
<1> HIDE DEF plan
<1>5. dss'[o] = plan /\ \A x \in OpIDs \ {o} : dss'[x] = dss[x]
  BY <1>2
<1>6. uss \notin MockUSSs
  BY ConstantsAssumption
<1>7. TypeInv'
  <2>1. dss' \in [OpIDs -> Plan \cup {None}] /\ used' \subseteq OpIDs
    BY <1>1, <1>2, <1>4 DEF IInv, Knowledge, TypeInv
  <2> QED
    BY <1>1, <2>1 DEF IInv, Knowledge, TypeInv
<1>8. DssMoves
  BY <1>1, <1>4, <1>5 DEF DssMoves, Known, ver
<1>9. DssSound'
  BY <1>1, <1>4, <1>5, <1>6 DEF DssSound, Known, IInv, Knowledge
<1>10. Knowledge'
  BY <1>1, <1>7, <1>8, <1>9, StepKeepsKnowledge DEF IInv
<1>11. OneOwner' /\ NotCleared'
  BY <1>1 DEF IInv, OneOwner, NotCleared, FlightHas, Holds
<1>12. PromisesKept'
  <2> SUFFICES ASSUME NEW p \in promised PROVE PromiseKept(p)'
    BY <1>1 DEF PromisesKept
  <2>1. PromiseKept(p) /\ p[1] \in MockUSSs /\ p[3] \in OpIDs
    BY DEF IInv, PromisesKept, Knowledge, TypeInv
  <2>2. p[3] # o
    BY <1>1, <1>6, <2>1 DEF PromiseKept, IInv, Knowledge, DssSound
  <2> QED
    BY <1>1, <1>5, <2>1, <2>2 DEF PromiseKept, FlightHas, Known
<1>13. AllOwned'
  <2> SUFFICES ASSUME NEW x \in Known', dss'[x].manager \in MockUSSs PROVE HasOwner(x)'
    BY DEF AllOwned
  <2>1. x \in OpIDs /\ x # o
    BY <1>4, <1>5, <1>6 DEF Known
  <2>2. dss'[x] = dss[x] /\ x \in Known
    BY <1>5, <2>1 DEF Known
  <2>3. HasOwner(x)
    BY <2>2 DEF IInv, AllOwned
  <2> QED
    BY <1>1, <2>1, <2>2, <2>3 DEF HasOwner, FlightHas, Holds
<1> QED
  BY <1>10, <1>11, <1>12, <1>13 DEF IInv

-----------------------------------------------------------------------------
(***************************************************************************)
(* The invariants                                                          *)
(***************************************************************************)

\* Nothing is planned, stored or cached
LEMMA InitIInv ==
    ASSUME Init
    PROVE  IInv
<1>1. Idle \in Req /\ Idle.pc = "idle"
  BY DEF Idle, Req, IdleReq
<1>2. Known = {}
  BY DEF Init, Known
<1>3. TypeInv
  BY <1>1 DEF Init, TypeInv
<1>4. Knowledge
  BY <1>1, <1>2, <1>3 DEF Init, Knowledge, DssSound, FlightsSound, CacheSound, RequestsSound, RequestSound
<1>5. OneOwner /\ NotCleared
  BY <1>1 DEF Init, OneOwner, NotCleared, FlightHas, Holds
<1>6. PromisesKept /\ AllOwned
  BY <1>2 DEF Init, PromisesKept, AllOwned
<1> QED
  BY <1>4, <1>5, <1>6 DEF IInv

\* Steps that change nothing
LEMMA StutterKeepsIInv ==
    ASSUME IInv, UNCHANGED vars
    PROVE  IInv'
  BY DEF vars, hist, IInv, Knowledge, TypeInv, DssSound, FlightsSound, CacheSound, RequestsSound,
         OneOwner, PromisesKept, PromiseKept, NotCleared, AllOwned, HasOwner, FlightHas, Holds, Known

\* The invariant is inductive
LEMMA NextKeepsIInv ==
    ASSUME IInv, [Next]_vars
    PROVE  IInv'
<1>1. CASE \E r \in Requests : Client(r)
  BY <1>1, StartInjectKeepsIInv, PopFlightKeepsIInv, StartClearKeepsIInv DEF Client
<1>2. CASE \E r \in Requests : InjectStep(r)
  BY <1>2, QueryKeepsIInv, ReadCacheKeepsIInv, CommitCacheKeepsIInv, CreateReferenceKeepsIInv,
     NotifyKeepsIInv, StoreFlightKeepsIInv, GetDetailsKeepsIInv DEF InjectStep
<1>3. CASE \E r \in Requests : DeleteStep(r)
  BY <1>3, DeleteReferenceKeepsIInv, NotifyDeletedKeepsIInv DEF DeleteStep
<1>4. CASE \E r \in Requests : ClearStep(r)
  BY <1>4, ClearReferenceKeepsIInv, CommitClearKeepsIInv DEF ClearStep
<1>5. CASE Elsewhere
  BY <1>5, PutElsewhereKeepsIInv, DeleteElsewhereKeepsIInv DEF Elsewhere
<1>6. CASE Done \/ UNCHANGED vars
  BY <1>6, StutterKeepsIInv DEF Done
<1> QED
  BY <1>1, <1>2, <1>3, <1>4, <1>5, <1>6 DEF Next, Step

\* The inductive invariant holds in every reachable state
THEOREM Invariance == Spec => []IInv
<1> QED
  BY InitIInv, NextKeepsIInv, PTL DEF Spec

\* A mock USS gives the details of what its flights have
LEMMA DetailsOfFlight ==
    ASSUME NEW u \in MockUSSs, NEW f \in FlightIDs, NEW o, FlightHas(u, f, o)
    PROVE  Details(u, o) # {}
  BY DEF Details, FlightHas

(***************************************************************************)
(* PlannedRetrievable: whatever requests, other USSs and failed calls do   *)
(* in between, what is planned stays in the DSS and its USS answers for it *)
(* until a client takes it back (routes_injection.py:178-219).             *)
(***************************************************************************)
THEOREM PlannedAlwaysRetrievable == Spec => []PlannedRetrievable
<1>1. ASSUME IInv PROVE PlannedRetrievable
  <2> SUFFICES ASSUME NEW p \in promised
               PROVE  /\ p[3] \in Known
                      /\ Details(p[1], p[3]) # {} \/ \E r \in Requests : Holds(r, p[3])
    BY DEF PlannedRetrievable
  <2>1. PromiseKept(p) /\ p[1] \in MockUSSs /\ p[2] \in FlightIDs
    BY <1>1 DEF IInv, PromisesKept, Knowledge, TypeInv
  <2> QED
    BY <2>1, DetailsOfFlight DEF PromiseKept, Holds
<1> QED
  BY <1>1, Invariance, PTL

(***************************************************************************)
(* Accounted: nothing but a failed call or a flight of the same ID cuts an *)
(* operational intent off from the flight it belongs to                    *)
(* (routes_injection.py:178-219, 231-251, 313-330).                        *)
(***************************************************************************)
THEOREM AlwaysAccounted == Spec => []Accounted
<1>1. ASSUME IInv PROVE Accounted
  BY <1>1, DetailsOfFlight DEF IInv, AllOwned, HasOwner, Accounted
<1> QED
  BY <1>1, Invariance, PTL

(***************************************************************************)
(* CacheFaithful: a cached operational intent of the DSS's version is the  *)
(* DSS's, from whichever USS and however late its details came             *)
(* (routes_injection.py:46-66).                                            *)
(***************************************************************************)
THEOREM CacheAlwaysFaithful == Spec => []CacheFaithful
<1>1. ASSUME IInv PROVE CacheFaithful
  BY <1>1 DEF IInv, Knowledge, CacheSound, Fact, CacheFaithful
<1> QED
  BY <1>1, Invariance, PTL

-----------------------------------------------------------------------------
(***************************************************************************)
(* The mock USSs implement Airspace                                        *)
(***************************************************************************)

\* A set of naturals that is not empty has a least element
LEMMA LeastNatural ==
    ASSUME NEW S \in SUBSET Nat, S # {}
    PROVE  \E n \in S : \A m \in S : n <= m
<1> DEFINE R == OpToRel(<, Nat)
<1>1. IsWellFoundedOn(OpToRel(<, Nat), Nat)
  BY NatLessThanWellFounded
<1>2. \A m, n \in Nat : m < n => <<m, n>> \in R
  BY DEF OpToRel
<1> HIDE DEF R
<1>3. IsWellFoundedOn(R, Nat)
  BY <1>1 DEF R
<1>4. PICK n \in S : \A m \in S : ~(<<m, n>> \in R)
  BY <1>3, WFMin
<1>5. ASSUME NEW m \in S PROVE n <= m
  <2>1. m \in Nat /\ n \in Nat
    OBVIOUS
  <2>2. ~(m < n)
    BY <1>2, <1>4, <2>1
  <2> QED
    BY <2>1, <2>2
<1> QED
  BY <1>5

\* Of a set of pairs there is a first one
LEMMA FirstPair ==
    ASSUME NEW S \in SUBSET (Nat \X Nat), S # {}
    PROVE  \E p \in S : \A q \in S : p[1] < q[1] \/ (p[1] = q[1] /\ p[2] <= q[2])
<1> DEFINE Rows == {p[1] : p \in S}
<1>1. Rows \in SUBSET Nat /\ Rows # {}
  OBVIOUS
<1>2. PICK m \in Rows : \A n \in Rows : m <= n
  BY <1>1, LeastNatural
<1> DEFINE Columns == {p[2] : p \in {p \in S : p[1] = m}}
<1>3. Columns \in SUBSET Nat /\ Columns # {}
  BY <1>2
<1>4. PICK k \in Columns : \A n \in Columns : k <= n
  BY <1>3, LeastNatural
<1>5. PICK p \in S : p[1] = m /\ p[2] = k
  BY <1>4
<1>6. ASSUME NEW q \in S PROVE p[1] < q[1] \/ (p[1] = q[1] /\ p[2] <= q[2])
  <2>1. q[1] \in Nat /\ q[2] \in Nat /\ m \in Nat /\ k \in Nat
    BY <1>1, <1>3
  <2>2. m <= q[1]
    BY <1>2
  <2>3. q[1] = m => k <= q[2]
    BY <1>4
  <2> QED
    BY <1>5, <2>1, <2>2, <2>3
<1> QED
  BY <1>6

\* vol4s_intersect comes to "False" only if no two volumes overlap
LEMMA NoIntersection ==
    ASSUME NEW vols, NEW others, DOMAIN vols \subseteq Nat, DOMAIN others \subseteq Nat,
           vol4s_intersect(vols, others) = "False"
    PROVE  ~AnyOverlap(vols, others)
<1> DEFINE deciding == {p \in (DOMAIN vols) \X (DOMAIN others) :
                          vol4_intersect(vols[p[1]], others[p[2]]) # "False"}
           Before(p) == \A q \in deciding : p[1] < q[1] \/ (p[1] = q[1] /\ p[2] <= q[2])
           first == CHOOSE p \in deciding : Before(p)
<1>1. deciding = {}
  <2> SUFFICES ASSUME deciding # {} PROVE FALSE
    OBVIOUS
  <2>1. \E p \in deciding : Before(p)
    <3>1. deciding \in SUBSET (Nat \X Nat)
      OBVIOUS
    <3> HIDE DEF deciding
    <3> QED
      BY <3>1, FirstPair
  <2>2. first \in deciding
    <3> HIDE DEF deciding, Before
    <3> QED
      BY <2>1
  <2>3. vol4s_intersect(vols, others) = vol4_intersect(vols[first[1]], others[first[2]])
    BY DEF vol4s_intersect
  <2> HIDE DEF first
  <2> QED
    BY <2>2, <2>3
<1>2. ASSUME NEW i \in DOMAIN vols, NEW j \in DOMAIN others
      PROVE  vol4_intersect(vols[i], others[j]) = "False"
  <2>1. <<i, j>> \in (DOMAIN vols) \X (DOMAIN others) /\ <<i, j>>[1] = i /\ <<i, j>>[2] = j
    OBVIOUS
  <2>2. <<i, j>> \notin deciding
    BY <1>1
  <2> QED
    BY <2>1, <2>2
<1>3. \A i \in DOMAIN vols, j \in DOMAIN others : ~Overlap(vols[i], others[j])
  BY <1>2 DEF vol4_intersect
<1> QED
  BY <1>3 DEF AnyOverlap, Range

\* What inject_flight checks is what Airspace asks for
LEMMA CheckedDoesNotConflict ==
    ASSUME NEW intent \in Intents, NEW other \in Intents, Check(intent, other) = "False"
    PROVE  ~Conflicts(intent, other)
<1>1. intent.volumes \in Seq(Volume4D) /\ other.volumes \in Seq(Volume4D)
  BY ConstantsAssumption
<1>2. DOMAIN intent.volumes \subseteq Nat /\ DOMAIN other.volumes \subseteq Nat
  BY <1>1
<1>3. CASE ~Blocks(other, intent)
  BY <1>3 DEF Blocks, Conflicts
<1>4. CASE Blocks(other, intent)
  <2>1. vol4s_intersect(intent.volumes, other.volumes) = "False"
    BY <1>4 DEF Check
  <2> QED
    BY <1>2, <2>1, NoIntersection DEF Conflicts
<1> QED
  BY <1>3, <1>4

\* The version that the key has of what overlaps is the one that was checked
LEMMA CreatedDoesNotConflict ==
    ASSUME IInv, NEW r \in Requests, req[r].pc = "create",
           KeyComplete(req[r].intent, req[r].key), NEW o \in Known
    PROVE  ~Conflicts(req[r].intent, dss[o].intent)
<1>1. /\ req[r] \in InjectReq /\ req[r].intent \in Intents
      /\ \A k \in req[r].key : \E intent \in Intents :
            Fact(dss, used, k[1], intent, k[2]) /\ Check(req[r].intent, intent) = "False"
  <2>1. req[r] \in InjectReq /\ RequestSound(dss, used, req[r])
    BY KindOfRequest DEF IInv, Knowledge, TypeInv, RequestsSound
  <2> QED
    BY <2>1 DEF InjectReq, RequestSound
<1>2. CASE ~RequiresKey(req[r].intent.state) \/ ~AnyOverlap(req[r].intent.volumes, dss[o].intent.volumes)
  BY <1>2 DEF Conflicts
<1>3. CASE RequiresKey(req[r].intent.state) /\ AnyOverlap(req[r].intent.volumes, dss[o].intent.volumes)
  <2>1. <<o, dss[o].ver>> \in req[r].key
    BY <1>3 DEF KeyComplete
  <2>2. PICK intent \in Intents : Fact(dss, used, o, intent, dss[o].ver)
                                  /\ Check(req[r].intent, intent) = "False"
    BY <1>1, <2>1
  <2>3. intent = dss[o].intent
    BY <2>2 DEF Fact, Known
  <2> QED
    BY <1>1, <2>2, <2>3, CheckedDoesNotConflict
<1> QED
  BY <1>2, <1>3

\* The plans of the DSS, of Airspace
LEMMA PlannedUnchanged ==
    ASSUME dss' = dss
    PROVE  planned' = planned
  BY DEF planned

\* What is planned after an intent is created or updated
LEMMA PlannedPut ==
    ASSUME TypeInv, NEW o \in OpIDs, NEW plan \in Plan, dss' = [dss EXCEPT ![o] = plan]
    PROVE  planned' = [planned EXCEPT ![o] = [manager |-> plan.manager, intent |-> plan.intent]]
<1>1. /\ dss'[o] = plan /\ plan # None /\ \A x \in OpIDs \ {o} : dss'[x] = dss[x]
  BY ConstantsAssumption DEF TypeInv
<1> QED
  BY <1>1 DEF planned

\* What is planned after an intent is removed
LEMMA PlannedRemoved ==
    ASSUME TypeInv, NEW o \in OpIDs, dss' = [dss EXCEPT ![o] = None]
    PROVE  planned' = [planned EXCEPT ![o] = None]
<1>1. /\ dss'[o] = None /\ \A x \in OpIDs \ {o} : dss'[x] = dss[x]
  BY DEF TypeInv
<1> QED
  BY <1>1 DEF planned

\* What is planned is what the DSS holds, without its versions
LEMMA PlannedIsPlan ==
    ASSUME TypeInv, NEW o \in OpIDs
    PROVE  /\ planned[o] = None <=> dss[o] = None
           /\ dss[o] # None => planned[o].manager = dss[o].manager /\ planned[o].intent = dss[o].intent
<1>1. CASE dss[o] = None
  BY <1>1 DEF planned
<1>2. CASE dss[o] # None
  <2>1. dss[o].manager \in MockUSSs \cup OtherUSSs /\ dss[o].intent \in Intents
    BY <1>2, PlanFields
  <2>2. [manager |-> dss[o].manager, intent |-> dss[o].intent] # None
    BY <2>1, ConstantsAssumption
  <2> QED
    BY <1>2, <2>2 DEF planned
<1> QED
  BY <1>1, <1>2

\* Removing a plan, whoever does it, withdraws it
LEMMA RemovalWithdraws ==
    ASSUME TypeInv, NEW o \in Known, dss' = [dss EXCEPT ![o] = None]
    PROVE  A!AirspaceNext
<1>1. o \in OpIDs /\ dss[o] # None
  BY DEF Known
<1>2. planned[o] # None /\ planned' = [planned EXCEPT ![o] = None]
  BY <1>1, PlannedIsPlan, PlannedRemoved
<1> QED
  BY <1>1, <1>2 DEF A!AirspaceNext, A!Withdraw

\* A created reference is a step of the airspace: the key names every conflict
LEMMA CreatePlans ==
    ASSUME IInv, NEW r \in Requests, CreateReference(r), dss' # dss
    PROVE  A!AirspaceNext
<1> DEFINE uss == req[r].uss
           intent == req[r].intent
           plan == [manager |-> uss, intent |-> intent, ver |-> 1]
<1>1. PICK o \in OpIDs \ used : /\ KeyComplete(intent, req[r].key)
                                /\ dss' = [dss EXCEPT ![o] = plan]
  BY DEF CreateReference
<1>2. req[r].pc = "create"
  BY DEF CreateReference
<1>3. uss \in MockUSSs /\ intent \in Intents
  <2>1. req[r] \in InjectReq
    BY <1>2, KindOfRequest DEF IInv, Knowledge, TypeInv
  <2> QED
    BY <2>1 DEF InjectReq
<1>4. plan \in Plan /\ plan.manager = uss /\ plan.intent = intent
  BY <1>3 DEF Plan
<1>5. dss[o] = None
  BY NewIsUnknown
<1> HIDE DEF plan
<1>6. planned' = [planned EXCEPT ![o] = [manager |-> uss, intent |-> intent]]
  BY <1>1, <1>4, PlannedPut DEF IInv, Knowledge
<1>7. planned[o] = None
  BY <1>5, PlannedIsPlan DEF IInv, Knowledge
<1>8. \A q \in OpIDs : planned[q] # None => ~Conflicts(intent, planned[q].intent)
  BY <1>1, <1>2, CreatedDoesNotConflict, PlannedIsPlan DEF IInv, Knowledge, Known
<1>9. A!Plan(o, uss, intent)
  BY <1>6, <1>7, <1>8 DEF A!Plan, A!Plans
<1> QED
  BY <1>1, <1>3, <1>9 DEF A!AirspaceNext

\* So is the creation or update by another USS
LEMMA PutElsewherePlans ==
    ASSUME IInv, NEW o \in OpIDs, NEW uss \in OtherUSSs, NEW intent \in Intents,
           PutElsewhere(o, uss, intent)
    PROVE  A!AirspaceNext
<1> DEFINE ver == IF o \in Known THEN dss[o].ver + 1 ELSE 1
           plan == [manager |-> uss, intent |-> intent, ver |-> ver]
<1>1. o \in used => o \in Known /\ dss[o].manager = uss
  BY DEF PutElsewhere
<1>2. dss' = [dss EXCEPT ![o] = plan]
  BY DEF PutElsewhere, IInv, Knowledge, TypeInv
<1>3. ver \in Nat
  <2>1. o \in Known => dss[o].ver \in Nat
    BY PlanFields DEF IInv, Knowledge, Known
  <2> QED
    BY <2>1
<1> HIDE DEF ver
<1>4. plan \in Plan /\ plan.manager = uss /\ plan.intent = intent
  BY <1>3 DEF Plan
<1> HIDE DEF plan
<1>5. planned' = [planned EXCEPT ![o] = [manager |-> uss, intent |-> intent]]
  BY <1>2, <1>4, PlannedPut DEF IInv, Knowledge
<1>6. planned[o] # None => planned[o].manager \in OtherUSSs
  BY <1>1, PlannedIsPlan DEF IInv, Knowledge, DssSound, Known
<1>7. [manager |-> uss, intent |-> intent] \in [manager : OtherUSSs, intent : Intents] \cup {None}
  OBVIOUS
<1>8. A!PlanElsewhere(o, [manager |-> uss, intent |-> intent])
  BY <1>5, <1>6 DEF A!PlanElsewhere
<1> QED
  BY <1>7, <1>8 DEF A!AirspaceNext

\* Every step is a step of the airspace or leaves it as it is
LEMMA NextImplementsAirspace ==
    ASSUME IInv, [Next]_vars
    PROVE  [A!AirspaceNext]_planned
<1>1. CASE UNCHANGED dss
  BY <1>1, PlannedUnchanged
<1>2. CASE dss' # dss
  <2>1. CASE \E r \in Requests : CreateReference(r)
    BY <1>2, <2>1, CreatePlans
  <2>2. CASE \E r \in Requests : DeleteReference(r)
    <3>1. PICK r \in Requests : DeleteReference(r)
      BY <2>2
    <3>2. req[r].op \in Known /\ dss' = [dss EXCEPT ![req[r].op] = None]
      BY <1>2, <3>1 DEF DeleteReference, Deletable
    <3> QED
      BY <3>2, RemovalWithdraws DEF IInv, Knowledge
  <2>3. CASE \E r \in Requests : \E ref \in req[r].refs : ClearReference(r, ref)
    <3>0. PICK r \in Requests : \E ref \in req[r].refs : ClearReference(r, ref)
      BY <2>3
    <3>1. PICK ref \in req[r].refs : ClearReference(r, ref)
      BY <3>0
    <3>2. ref.id \in Known /\ dss' = [dss EXCEPT ![ref.id] = None]
      BY <1>2, <3>1 DEF ClearReference, Deletable
    <3> QED
      BY <3>2, RemovalWithdraws DEF IInv, Knowledge
  <2>4. CASE Elsewhere
    <3>1. CASE \E o \in OpIDs, uss \in OtherUSSs, intent \in Intents : PutElsewhere(o, uss, intent)
      BY <3>1, PutElsewherePlans
    <3>2. CASE \E o \in OpIDs : DeleteElsewhere(o)
      BY <3>2, RemovalWithdraws DEF DeleteElsewhere, IInv, Knowledge
    <3> QED
      BY <2>4, <3>1, <3>2 DEF Elsewhere
  <2>5. \/ \E r \in Requests : CreateReference(r)
        \/ \E r \in Requests : DeleteReference(r)
        \/ \E r \in Requests : \E ref \in req[r].refs : ClearReference(r, ref)
        \/ Elsewhere
    <3>1. CASE \E r \in Requests : Client(r)
      BY <1>2, <3>1 DEF Client, StartInject, PopFlight, StartClear
    <3>2. CASE \E r \in Requests : InjectStep(r)
      BY <1>2, <3>2 DEF InjectStep, QueryOpIntents, ReadCache, CommitCache, Notify, StoreFlight, GetDetails
    <3>3. CASE \E r \in Requests : DeleteStep(r)
      BY <1>2, <3>3 DEF DeleteStep, NotifyDeleted
    <3>4. CASE \E r \in Requests : ClearStep(r)
      BY <1>2, <3>4 DEF ClearStep, CommitClear
    <3>5. CASE Done \/ UNCHANGED vars
      BY <1>2, <3>5 DEF Done, vars
    <3> QED
      BY <3>1, <3>2, <3>3, <3>4, <3>5 DEF Next, Step
  <2> QED
    BY <2>1, <2>2, <2>3, <2>4, <2>5
<1> QED
  BY <1>1, <1>2

(***************************************************************************)
(* The refinement: every step of the mock USSs, of their DSS and of the    *)
(* other USSs is a step of Airspace or leaves its plans alone.  What a     *)
(* mock USS plans conflicts with nothing planned before it, although it    *)
(* read the DSS, its cache and the details at different moments            *)
(* (routes_injection.py:123-181).                                          *)
(***************************************************************************)
THEOREM AirspaceImplemented == Spec => ImplementsAirspace
<1>1. ASSUME Init PROVE A!AirspaceInit
  BY <1>1 DEF Init, A!AirspaceInit, planned
<1> QED
  BY <1>1, Invariance, NextImplementsAirspace, PTL DEF Spec, ImplementsAirspace, A!AirspaceSpec

=============================================================================
