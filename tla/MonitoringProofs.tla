---------------------------- MODULE MonitoringProofs ---------------------------
(***************************************************************************)
(* Proofs about what the monitoring tools share: ATProxy, for any calls,   *)
(* handlers, results, timeouts and size of the shared memory, and Auth, for *)
(* any sessions, lists of scopes, servers, endpoints, lifetime of tokens and *)
(* margin, and for every adapter.                                          *)
(***************************************************************************)
EXTENDS ATProxy, Auth, WellFoundedInduction, TLAPS

-----------------------------------------------------------------------------
(***************************************************************************)
(* ATProxy: the inductive invariant                                        *)
(***************************************************************************)

CallState ==
    [pc : {"new", "waiting", "sleeping", "expired", "answered"}, left : Nat,
     answer : Results \cup CallErrors \cup {Nothing}]

ATProxyTypeInv ==
    /\ queries \in [Calls -> Query \cup {Nothing}]
    /\ call \in [Calls -> CallState]

\* A query is complete once a result for it was accepted, and it holds that result
StoredResultsAcked ==
    \A c \in Complete : queries[c].result \in Results /\ <<c, queries[c].result>> \in acked

\* A call that is not answered has no answer
UnansweredYet == \A c \in Calls : call[c].pc # "answered" => call[c].answer = Nothing

ATProxyIInv ==
    /\ ATProxyTypeInv
    /\ QueueIsWaiting
    /\ StoredResultsAcked
    /\ UnansweredYet
    /\ AnswersBelong

-----------------------------------------------------------------------------
(***************************************************************************)
(* A step of one call touches its own query only                           *)
(***************************************************************************)

\* What makes a step of call c keep the invariant: its new state and the new
\* state of its query agree, and so does its answer with what was accepted
LEMMA CallStepKeepsATProxyIInv ==
    ASSUME ATProxyIInv, NEW c \in Calls,
           NEW q \in Query \cup {Nothing}, NEW s \in CallState,
           queries' = [queries EXCEPT ![c] = q],
           call' = [call EXCEPT ![c] = s],
           acked' = acked,
           q # Nothing <=> s.pc \in {"waiting", "sleeping", "expired"},
           q # Nothing /\ q.state = "Complete" => q = queries[c],
           s.pc # "answered" => s.answer = Nothing,
           s.answer \in Results => <<c, s.answer>> \in acked
    PROVE  ATProxyIInv'
<1>1. /\ queries \in [Calls -> Query \cup {Nothing}]
      /\ call \in [Calls -> CallState]
  BY DEF ATProxyIInv, ATProxyTypeInv
<1>2. /\ queries'[c] = q /\ call'[c] = s
      /\ \A d \in Calls \ {c} : queries'[d] = queries[d] /\ call'[d] = call[d]
  BY <1>1
<1>3. ATProxyTypeInv'
  BY <1>1 DEF ATProxyTypeInv
<1>4. QueueIsWaiting'
  BY <1>2 DEF ATProxyIInv, QueueIsWaiting, Stored
<1>5. StoredResultsAcked'
  BY <1>2 DEF ATProxyIInv, StoredResultsAcked, Complete, Stored
<1>6. UnansweredYet'
  BY <1>2 DEF ATProxyIInv, UnansweredYet
<1>7. AnswersBelong'
  BY <1>2 DEF ATProxyIInv, AnswersBelong
<1> QED
  BY <1>3, <1>4, <1>5, <1>6, <1>7 DEF ATProxyIInv

\* A call adds its query, or fails when it does not fit
LEMMA AddQueryKeepsATProxyIInv ==
    ASSUME ATProxyIInv, NEW c \in Calls, AddQuery(c)
    PROVE  ATProxyIInv'
<1> DEFINE new == [state |-> "Queued", result |-> Nothing]
           waiting == [call[c] EXCEPT !.pc = "waiting", !.left = QueryTimeout]
           failed == [pc |-> "answered", left |-> 0, answer |-> "RuntimeError"]
<1>1. /\ queries \in [Calls -> Query \cup {Nothing}]
      /\ call[c] \in CallState
      /\ call[c].pc = "new" /\ call[c].answer = Nothing
      /\ acked' = acked
  BY DEF ATProxyIInv, ATProxyTypeInv, UnansweredYet, AddQuery
<1>2. queries[c] = Nothing
  BY <1>1 DEF ATProxyIInv, QueueIsWaiting, Stored
<1>3. CASE Fits([queries EXCEPT ![c] = new])
  <2>1. /\ queries' = [queries EXCEPT ![c] = new]
        /\ call' = [call EXCEPT ![c] = waiting]
    BY <1>3 DEF AddQuery
  <2>2. new \in Query /\ new # Nothing
    BY ATProxyAssumption DEF Query
  <2>3. /\ waiting \in CallState
        /\ waiting.pc = "waiting" /\ waiting.answer = Nothing
    BY <1>1, ATProxyAssumption DEF CallState
  <2>4. Nothing \notin Results
    BY ATProxyAssumption
  <2> HIDE DEF waiting
  <2> QED
    BY <1>1, <2>1, <2>2, <2>3, <2>4, CallStepKeepsATProxyIInv
<1>4. CASE ~Fits([queries EXCEPT ![c] = new])
  <2>1. /\ queries' = queries
        /\ call' = [call EXCEPT ![c] = failed]
    BY <1>4 DEF AddQuery, Answer
  <2>2. queries' = [queries EXCEPT ![c] = Nothing]
    BY <1>1, <1>2, <2>1
  <2>3. failed \in CallState /\ failed.answer \notin Results
    BY ATProxyAssumption DEF CallState, CallErrors
  <2> QED
    BY <1>1, <2>1, <2>2, <2>3, CallStepKeepsATProxyIInv
<1> QED
  BY <1>3, <1>4

\* A call sleeps between two looks at its query
LEMMA SleepKeepsATProxyIInv ==
    ASSUME ATProxyIInv, NEW c \in Calls, Sleep(c)
    PROVE  ATProxyIInv'
<1> DEFINE next == [call[c] EXCEPT !.pc = IF call[c].left > 0 THEN "sleeping" ELSE "expired"]
<1>1. /\ queries \in [Calls -> Query \cup {Nothing}]
      /\ call[c] \in CallState
      /\ call[c].pc = "waiting" /\ call[c].answer = Nothing
      /\ acked' = acked
  BY DEF ATProxyIInv, ATProxyTypeInv, UnansweredYet, Sleep
<1>2. queries[c] # Nothing
  BY <1>1 DEF ATProxyIInv, QueueIsWaiting, Stored
<1>3. /\ queries' = [queries EXCEPT ![c] = queries[c]]
      /\ call' = [call EXCEPT ![c] = next]
  BY <1>1 DEF Sleep
<1>4. /\ next \in CallState
      /\ next.pc \in {"sleeping", "expired"} /\ next.answer = Nothing
  BY <1>1 DEF CallState
<1>5. queries[c] \in Query /\ Nothing \notin Results
  BY <1>1, <1>2, ATProxyAssumption
<1> HIDE DEF next
<1> QED
  BY <1>1, <1>2, <1>3, <1>4, <1>5, CallStepKeepsATProxyIInv

\* A call finds its query complete and takes it, or sleeps again
LEMMA CheckQueryKeepsATProxyIInv ==
    ASSUME ATProxyIInv, NEW c \in Calls, CheckQuery(c)
    PROVE  ATProxyIInv'
<1>1. /\ queries \in [Calls -> Query \cup {Nothing}]
      /\ call[c] \in CallState
      /\ call[c].pc = "sleeping" /\ call[c].answer = Nothing
      /\ acked' = acked
  BY DEF ATProxyIInv, ATProxyTypeInv, UnansweredYet, CheckQuery
<1>2. queries[c] # Nothing
  BY <1>1 DEF ATProxyIInv, QueueIsWaiting, Stored
<1>3. CASE c \in Complete
  <2> DEFINE answered == [pc |-> "answered", left |-> 0, answer |-> queries[c].result]
  <2>1. /\ queries' = [queries EXCEPT ![c] = Nothing]
        /\ call' = [call EXCEPT ![c] = answered]
    BY <1>3 DEF CheckQuery, Answer
  <2>2. queries[c].result \in Results /\ <<c, queries[c].result>> \in acked
    BY <1>3 DEF ATProxyIInv, StoredResultsAcked
  <2>3. answered \in CallState
    BY <2>2 DEF CallState
  <2> QED
    BY <1>1, <2>1, <2>2, <2>3, CallStepKeepsATProxyIInv
<1>4. CASE c \notin Complete
  <2> DEFINE waiting == [call[c] EXCEPT !.pc = "waiting"]
  <2>1. /\ queries' = [queries EXCEPT ![c] = queries[c]]
        /\ call' = [call EXCEPT ![c] = waiting]
    BY <1>1, <1>4 DEF CheckQuery
  <2>2. /\ waiting \in CallState
        /\ waiting.pc = "waiting" /\ waiting.answer = Nothing
    BY <1>1 DEF CallState
  <2>3. queries[c] \in Query /\ Nothing \notin Results
    BY <1>1, <1>2, ATProxyAssumption
  <2> HIDE DEF waiting
  <2> QED
    BY <1>1, <1>2, <2>1, <2>2, <2>3, CallStepKeepsATProxyIInv
<1> QED
  BY <1>3, <1>4

\* A call whose time is over removes its query
LEMMA GiveUpKeepsATProxyIInv ==
    ASSUME ATProxyIInv, NEW c \in Calls, GiveUp(c)
    PROVE  ATProxyIInv'
<1> DEFINE answered == [pc |-> "answered", left |-> 0, answer |-> "Timeout"]
<1>1. /\ queries' = [queries EXCEPT ![c] = Nothing]
      /\ call' = [call EXCEPT ![c] = answered]
      /\ acked' = acked
  BY DEF GiveUp, Answer
<1>2. answered \in CallState /\ answered.answer \notin Results
  BY ATProxyAssumption DEF CallState, CallErrors
<1> QED
  BY <1>1, <1>2, CallStepKeepsATProxyIInv

-----------------------------------------------------------------------------
(***************************************************************************)
(* A handler changes a query only by completing it with what is accepted   *)
(***************************************************************************)

\* A handler puts a result, for a call that waits or is gone
LEMMA PutQueryResultKeepsATProxyIInv ==
    ASSUME ATProxyIInv, NEW h \in Handlers, NEW c \in Calls, NEW result \in Results,
           put_query_result(h, c, result)
    PROVE  ATProxyIInv'
<1> DEFINE complete == [state |-> "Complete", result |-> result]
<1>1. /\ queries \in [Calls -> Query \cup {Nothing}]
      /\ call' = call
  BY DEF ATProxyIInv, ATProxyTypeInv, put_query_result
<1>2. CASE queries' = queries /\ acked' = acked
  BY <1>1, <1>2 DEF ATProxyIInv, ATProxyTypeInv, QueueIsWaiting, StoredResultsAcked, UnansweredYet,
                    AnswersBelong, Stored, Complete
<1>3. CASE /\ queries[c] # Nothing
           /\ queries' = [queries EXCEPT ![c] = complete]
           /\ acked' = acked \cup {<<c, result>>}
  <2>1. complete \in Query /\ complete # Nothing
    BY ATProxyAssumption DEF Query
  <2>2. /\ queries'[c] = complete
        /\ \A d \in Calls \ {c} : queries'[d] = queries[d]
    BY <1>1, <1>3
  <2>3. ATProxyTypeInv'
    BY <1>1, <1>3, <2>1 DEF ATProxyIInv, ATProxyTypeInv
  <2>4. QueueIsWaiting'
    BY <1>1, <1>3, <2>1, <2>2 DEF ATProxyIInv, QueueIsWaiting, Stored
  <2>5. StoredResultsAcked'
    <3> SUFFICES ASSUME NEW d \in Calls, queries'[d] # Nothing, queries'[d].state = "Complete"
                 PROVE  queries'[d].result \in Results /\ <<d, queries'[d].result>> \in acked'
      BY DEF StoredResultsAcked, Complete, Stored
    <3>1. CASE d = c
      BY <1>3, <2>2, <3>1
    <3>2. CASE d # c
      BY <1>3, <2>2, <3>2 DEF ATProxyIInv, StoredResultsAcked, Complete, Stored
    <3> QED
      BY <3>1, <3>2
  <2>6. UnansweredYet' /\ AnswersBelong'
    BY <1>1, <1>3 DEF ATProxyIInv, UnansweredYet, AnswersBelong
  <2> QED
    BY <2>3, <2>4, <2>5, <2>6 DEF ATProxyIInv
<1>4. \/ queries' = queries /\ acked' = acked
      \/ /\ queries[c] # Nothing
         /\ queries' = [queries EXCEPT ![c] = complete]
         /\ acked' = acked \cup {<<c, result>>}
  BY DEF put_query_result, StoreResult, Stored
<1> QED
  BY <1>2, <1>3, <1>4

\* Time passes for the loops and changes nothing else
LEMMA ElapseKeepsATProxyIInv ==
    ASSUME ATProxyIInv, Elapse
    PROVE  ATProxyIInv'
<1>1. /\ call \in [Calls -> CallState]
      /\ queries' = queries /\ acked' = acked
      /\ call' = [c \in Calls |-> [call[c] EXCEPT !.left = Left(@)]]
  BY DEF ATProxyIInv, ATProxyTypeInv, Elapse
<1>2. ASSUME NEW c \in Calls
      PROVE  /\ call'[c] \in CallState
             /\ call'[c].pc = call[c].pc /\ call'[c].answer = call[c].answer
  <2>1. call[c] \in CallState /\ Left(call[c].left) \in Nat
    BY <1>1 DEF CallState, Left
  <2>2. call'[c] = [call[c] EXCEPT !.left = Left(call[c].left)]
    BY <1>1
  <2> QED
    BY <2>1, <2>2 DEF CallState
<1>3. ATProxyTypeInv'
  BY <1>1, <1>2 DEF ATProxyIInv, ATProxyTypeInv
<1>4. QueueIsWaiting'
  BY <1>1, <1>2 DEF ATProxyIInv, QueueIsWaiting, Stored
<1>5. StoredResultsAcked'
  BY <1>1 DEF ATProxyIInv, StoredResultsAcked, Complete, Stored
<1>6. UnansweredYet' /\ AnswersBelong'
  BY <1>1, <1>2 DEF ATProxyIInv, UnansweredYet, AnswersBelong
<1> QED
  BY <1>3, <1>4, <1>5, <1>6 DEF ATProxyIInv

-----------------------------------------------------------------------------
\* No query, and no call
LEMMA ATProxyInitIInv == ATProxyInit => ATProxyIInv
<1> SUFFICES ASSUME ATProxyInit PROVE ATProxyIInv
  OBVIOUS
<1>1. ATProxyTypeInv
  BY DEF ATProxyInit, ATProxyTypeInv, CallState
<1>2. QueueIsWaiting /\ StoredResultsAcked /\ UnansweredYet
  BY DEF ATProxyInit, QueueIsWaiting, StoredResultsAcked, UnansweredYet, Complete, Stored
<1>3. AnswersBelong
  BY ATProxyAssumption DEF ATProxyInit, AnswersBelong
<1> QED
  BY <1>1, <1>2, <1>3 DEF ATProxyIInv

\* The invariant is inductive
LEMMA NextKeepsATProxyIInv == ATProxyIInv /\ [ATProxyNext]_atproxyVars => ATProxyIInv'
<1> SUFFICES ASSUME ATProxyIInv, [ATProxyNext]_atproxyVars
             PROVE  ATProxyIInv'
  OBVIOUS
<1>1. CASE UNCHANGED <<queries, call, acked>>
  BY <1>1 DEF ATProxyIInv, ATProxyTypeInv, QueueIsWaiting, StoredResultsAcked, UnansweredYet,
              AnswersBelong, Stored, Complete
<1>2. ASSUME NEW c \in Calls, CallStep(c)
      PROVE  ATProxyIInv'
  BY <1>2, AddQueryKeepsATProxyIInv, SleepKeepsATProxyIInv, CheckQueryKeepsATProxyIInv, GiveUpKeepsATProxyIInv DEF CallStep
<1>3. ASSUME NEW h \in Handlers, HandlerStep(h)
      PROVE  ATProxyIInv'
  <2>1. CASE StartList(h) \/ list_queries(h) \/ HandlerStops(h)
    BY <1>1, <2>1 DEF StartList, list_queries, HandlerStops
  <2> QED
    BY <1>3, <2>1, PutQueryResultKeepsATProxyIInv DEF HandlerStep
<1>4. CASE AllAnswered \/ UNCHANGED atproxyVars
  BY <1>1, <1>4 DEF AllAnswered, atproxyVars
<1> QED
  BY <1>2, <1>3, <1>4, ElapseKeepsATProxyIInv DEF ATProxyNext

-----------------------------------------------------------------------------
(***************************************************************************)
(* Theorems                                                                *)
(***************************************************************************)

(***************************************************************************)
(* However calls and handlers interleave, the queue holds the queries of   *)
(* the calls that wait and no others: a call always finds its query, and   *)
(* nothing is left behind in the shared memory (handling.py:26-45,         *)
(* routes_handler.py:84-91).                                               *)
(***************************************************************************)
THEOREM QueueIsAlwaysWaiting == ATProxySpec => []QueueIsWaiting
BY ATProxyInitIInv, NextKeepsATProxyIInv, PTL DEF ATProxySpec, ATProxyIInv

(***************************************************************************)
(* A call is answered only with a result that was put for its own query    *)
(* and accepted (handling.py:34-41).                                       *)
(***************************************************************************)
THEOREM AnswersAlwaysBelong == ATProxySpec => []AnswersBelong
BY ATProxyInitIInv, NextKeepsATProxyIInv, PTL DEF ATProxySpec, ATProxyIInv


-----------------------------------------------------------------------------
(***************************************************************************)
(* Auth: the inductive invariant                                           *)
(***************************************************************************)

AudienceScopes == {AudScope[a] : a \in Audiences}

Frame == [args : Seq(Sessions), old_scopes : Seq(Lists \cup {None})]

TypeInv ==
    /\ now \in Nat
    /\ adapter \in Adapters
    /\ content \in [Lists -> Seq(Scopes)]
    /\ default_scopes \in [Sessions -> Lists \cup {None}]
    /\ stack \in Seq(Frame)
    /\ \A t \in _tokens : t.key \in Seq(Scopes) /\ t.token.exp \in Int
    /\ \A r \in wire : r.endpoint \in Endpoints /\ r.at \in Nat /\ r.token.exp \in Int

\* A token is kept under the scopes it was issued for: it holds no other ones
\* than these and the names of audiences
KeptUnderItsScopes == \A t \in _tokens : t.token.scopes \subseteq ToSet(t.key) \cup AudienceScopes

\* A request carries a token for the scopes that it asks for, which outlasts
\* the moment it was sent by the margin
SentWithItsToken ==
    \A r \in wire : /\ r.token.scopes \subseteq r.asked \cup AudienceScopes
                    /\ r.token.exp >= r.at + Margin

Holds(frame, s) == s \in ToSet(frame.args)

\* The k-th of the functions that run is the outermost one with the session,
\* and has it once
Outermost(k, s) ==
    /\ Holds(stack[k], s) /\ ~Twice(stack[k].args, s)
    /\ \A j \in 1 .. k - 1 : ~Holds(stack[j], s)

\* A session that no decorated function runs with has no default scopes, and
\* the outermost one that runs with it has saved that
Unwinds ==
    \A s \in Sessions \ lost :
        /\ (\A k \in DOMAIN stack : ~Holds(stack[k], s)) => default_scopes[s] = None
        /\ \A k \in DOMAIN stack : Outermost(k, s) =>
              \A i \in DOMAIN stack[k].args :
                  stack[k].args[i] = s => stack[k].old_scopes[i] = None

SameLengths == \A k \in DOMAIN stack : DOMAIN stack[k].old_scopes = DOMAIN stack[k].args

IInv == TypeInv /\ KeptUnderItsScopes /\ SentWithItsToken /\ Unwinds /\ SameLengths

-----------------------------------------------------------------------------
(***************************************************************************)
(* Tokens                                                                  *)
(***************************************************************************)

\* No token is kept and every session has its own scopes
LEMMA InitIInv == Init => IInv
<1> SUFFICES ASSUME Init PROVE IInv
  OBVIOUS
<1>1. TypeInv
  <2>1. stack \in Seq(Frame) /\ now \in Nat
    BY DEF Init
  <2>2. wire = {} /\ _tokens = {}
    BY DEF Init
  <2>3. /\ adapter \in Adapters
        /\ content \in [Lists -> Seq(Scopes)]
        /\ default_scopes \in [Sessions -> Lists \cup {None}]
    BY ConstantsAssumption DEF Init
  <2> QED
    BY <2>1, <2>2, <2>3 DEF TypeInv
<1>2. KeptUnderItsScopes /\ SentWithItsToken
  BY DEF Init, KeptUnderItsScopes, SentWithItsToken
<1>3. Unwinds /\ SameLengths
  BY DEF Init, Unwinds, SameLengths
<1> QED
  BY <1>1, <1>2, <1>3 DEF IInv

\* The scopes of a list that UsernamePassword has appended an audience to
LEMMA AppendedScopes ==
    ASSUME NEW scopes \in Seq(Scopes), NEW x \in Scopes
    PROVE  /\ Append(scopes, x) \in Seq(Scopes)
           /\ ToSet(Append(scopes, x)) = ToSet(scopes) \cup {x}
<1>1. Append(scopes, x) \in Seq(Scopes) /\ DOMAIN scopes = 1 .. Len(scopes) /\ Len(scopes) \in Nat
  OBVIOUS
<1>2. /\ DOMAIN Append(scopes, x) = 1 .. Len(scopes) + 1
      /\ Append(scopes, x)[Len(scopes) + 1] = x
      /\ \A i \in 1 .. Len(scopes) : Append(scopes, x)[i] = scopes[i]
  OBVIOUS
<1>3. ToSet(Append(scopes, x)) \subseteq ToSet(scopes) \cup {x}
  <2> SUFFICES ASSUME NEW i \in 1 .. Len(scopes) + 1
               PROVE  Append(scopes, x)[i] \in ToSet(scopes) \cup {x}
    BY <1>2 DEF ToSet
  <2>1. i \in 1 .. Len(scopes) \/ i = Len(scopes) + 1
    BY <1>1
  <2> QED
    BY <1>1, <1>2, <2>1 DEF ToSet
<1>4. ToSet(scopes) \cup {x} \subseteq ToSet(Append(scopes, x))
  <2>1. 1 .. Len(scopes) \subseteq 1 .. Len(scopes) + 1 /\ Len(scopes) + 1 \in 1 .. Len(scopes) + 1
    BY <1>1
  <2> QED
    BY <1>1, <1>2, <2>1 DEF ToSet
<1> QED
  BY <1>1, <1>3, <1>4

\* What any adapter issues: a token for the scopes that were asked for, and
\* perhaps the name of the audience, which lives on from now
LEMMA IssuedAsAsked ==
    ASSUME TypeInv, NEW a \in Audiences, NEW scopes \in Seq(Scopes),
           NEW t \in issue_token(a, scopes), t # None
    PROVE  /\ t.scopes \subseteq ToSet(scopes) \cup AudienceScopes
           /\ t.exp = now + Lifetime
<1> DEFINE more == Append(scopes, AudScope[a])
<1>1. AudScope[a] \in Scopes /\ AudScope[a] \in AudienceScopes
  BY ConstantsAssumption DEF AudienceScopes
<1>2. ToSet(more) = ToSet(scopes) \cup {AudScope[a]}
  BY <1>1, AppendedScopes
<1> HIDE DEF more
<1>3. \E b \in Audiences : t \in {Token(b, scopes), Token(b, more)}
  <2>1. CASE adapter = "UsernamePassword"
    BY <2>1 DEF issue_token, UsernamePassword, FromServer, more
  <2>2. CASE adapter # "UsernamePassword"
    BY <2>2, ConstantsAssumption
       DEF TypeInv, issue_token, NoAuth, DummyOAuth, ServiceAccount, ClientIdClientSecret,
           SignedRequest, FromServer
  <2> QED
    BY <2>1, <2>2
<1>4. PICK b \in Audiences : t \in {Token(b, scopes), Token(b, more)}
  BY <1>3
<1> QED
  BY <1>1, <1>2, <1>4 DEF Token

\* The list keeps its scopes and may gain the name of the audience
LEMMA ListStaysTyped ==
    ASSUME NEW a \in Audiences, NEW scopes \in Seq(Scopes)
    PROVE  ListAfterIssue(a, scopes) \in Seq(Scopes)
  BY AppendedScopes, ConstantsAssumption DEF ListAfterIssue

\* What get_headers comes back with, from the cache or from the server
LEMMA GotAsAsked ==
    ASSUME IInv, NEW a \in Audiences, NEW scopes \in Seq(Scopes),
           NEW issued \in GetToken(a, scopes)
    PROVE  /\ issued[2] \in Seq(Scopes)
           /\ issued[1] # None => /\ issued[1].scopes \subseteq ToSet(scopes) \cup AudienceScopes
                                  /\ issued[1].exp \in Int
                                  /\ issued[1].exp >= now + Margin
<1>1. now \in Nat /\ Margin \in Nat /\ Lifetime \in Nat /\ Margin < Lifetime
  BY ConstantsAssumption DEF IInv, TypeInv
<1>2. CASE Cached(a, scopes) # {} /\ \A t \in Cached(a, scopes) : ~Expiring(t)
  <2>1. PICK t \in Cached(a, scopes) : issued = <<t, scopes>>
    BY <1>2 DEF GetToken
  <2>2. PICK kept \in _tokens : kept.key = scopes /\ kept.token = t
    BY <2>1 DEF Cached
  <2>3. t.exp \in Int /\ t.scopes \subseteq ToSet(scopes) \cup AudienceScopes
    BY <2>2 DEF IInv, TypeInv, KeptUnderItsScopes
  <2>4. t.exp >= now + Margin
    BY <1>1, <1>2, <2>1, <2>3 DEF Expiring
  <2> QED
    BY <2>1, <2>3, <2>4
<1>3. CASE ~(Cached(a, scopes) # {} /\ \A t \in Cached(a, scopes) : ~Expiring(t))
  <2>1. PICK t \in issue_token(a, scopes) : issued = <<t, ListAfterIssue(a, scopes)>>
    BY <1>3 DEF GetToken
  <2>2. t # None => t.scopes \subseteq ToSet(scopes) \cup AudienceScopes /\ t.exp = now + Lifetime
    BY IssuedAsAsked DEF IInv
  <2>3. ListAfterIssue(a, scopes) \in Seq(Scopes)
    BY ListStaysTyped
  <2> QED
    BY <1>1, <2>1, <2>2, <2>3
<1> QED
  BY <1>2, <1>3

\* A request is the only step that puts tokens into the cache and on the wire
LEMMA RequestKeepsIInv ==
    ASSUME IInv, NEW session \in Sessions, NEW server \in Servers, NEW endpoint \in Endpoints,
           NEW given \in Lists \cup {None}, Request(session, server, endpoint, given)
    PROVE  IInv'
<1> DEFINE list == ScopesOf(session, given)
           a == AudienceOf[server]
<1>1. a \in Audiences
  BY DEF Audiences
<1>2. Unwinds' /\ SameLengths'
  BY DEF Request, IInv, Unwinds, SameLengths, Outermost, Holds, Twice
<1>3. list \in Lists \cup {None}
  BY DEF ScopesOf, IInv, TypeInv
<1>4. CASE list = None
  <2>1. UNCHANGED <<content, _tokens, wire, now, adapter, default_scopes, stack, lost>>
    BY <1>4 DEF Request
  <2> QED
    BY <1>2, <2>1 DEF IInv, TypeInv, KeptUnderItsScopes, SentWithItsToken
<1>5. CASE list # None
  <2>1. content[list] \in Seq(Scopes)
    BY <1>3, <1>5 DEF IInv, TypeInv
  <2> HIDE DEF list, a
  <2>2. PICK issued \in GetToken(a, content[list]) :
          /\ content' = [content EXCEPT ![list] = issued[2]]
          /\ IF issued[1] = None
             THEN UNCHANGED <<_tokens, wire>>
             ELSE /\ _tokens' = Remember(a, content[list], issued[1])
                  /\ wire' = wire \cup {[server |-> server, endpoint |-> endpoint,
                                         asked |-> ToSet(content[list]),
                                         token |-> issued[1], at |-> now]}
    BY <1>5 DEF Request, list, a
  <2>3. /\ issued[2] \in Seq(Scopes)
        /\ issued[1] # None =>
              /\ issued[1].scopes \subseteq ToSet(content[list]) \cup AudienceScopes
              /\ issued[1].exp \in Int
              /\ issued[1].exp >= now + Margin
    BY <1>1, <2>1, <2>2, GotAsAsked
  <2>4. UNCHANGED <<now, adapter, default_scopes, stack, lost>>
    BY DEF Request
  <2>5. \A t \in _tokens' : t \in _tokens \/ (issued[1] # None /\ t.key = content[list] /\ t.token = issued[1])
    BY <2>2 DEF Remember
  <2>6. \A r \in wire' : r \in wire \/ (issued[1] # None /\ r.endpoint = endpoint /\ r.at = now
                                        /\ r.asked = ToSet(content[list]) /\ r.token = issued[1])
    BY <2>2
  <2>7. content' \in [Lists -> Seq(Scopes)]
    BY <1>3, <1>5, <2>2, <2>3 DEF IInv, TypeInv
  <2>8. TypeInv'
    BY <2>1, <2>3, <2>4, <2>5, <2>6, <2>7 DEF IInv, TypeInv
  <2>9. KeptUnderItsScopes'
    BY <2>3, <2>5 DEF IInv, KeptUnderItsScopes
  <2>10. SentWithItsToken'
    BY <2>3, <2>6 DEF IInv, SentWithItsToken
  <2> QED
    BY <1>2, <2>8, <2>9, <2>10 DEF IInv
<1> QED
  BY <1>4, <1>5

-----------------------------------------------------------------------------
(***************************************************************************)
(* The stack of decorated functions                                        *)
(***************************************************************************)

\* The sessions among the arguments of a decorated function
LEMMA ArgsAreSessions ==
    ASSUME NEW args \in Arguments
    PROVE  args \in Seq(Sessions)
<1>1. PICK k \in 1 .. MaxArgs : args \in [1 .. k -> Sessions]
  BY DEF Arguments
<1>2. k \in Nat
  BY ConstantsAssumption
<1> QED
  BY <1>1, <1>2

\* Of a set of numbers there is a least one
LEMMA LeastOfSome ==
    ASSUME NEW S \in SUBSET Nat, S # {}
    PROVE  \E n \in S : \A m \in S : n <= m
<1> DEFINE R == OpToRel(<, Nat)
<1>1. IsWellFoundedOn(OpToRel(<, Nat), Nat)
  BY NatLessThanWellFounded
<1>2. \A m, n \in Nat : m < n => <<m, n>> \in R
  BY DEF OpToRel
<1> HIDE DEF R
<1>3. IsWellFoundedOn(R, Nat)
  BY <1>1 DEF R
<1>4. PICK n \in S : \A m \in S : ~(<<m, n>> \in R)
  BY <1>3, WFMin
<1>5. ASSUME NEW m \in S PROVE n <= m
  <2>1. m \in Nat /\ n \in Nat
    OBVIOUS
  <2>2. ~(m < n)
    BY <1>2, <1>4, <2>1
  <2> QED
    BY <2>1, <2>2
<1> QED
  BY <1>5

\* A session among the arguments has a last position
LEMMA LastPositionHolds ==
    ASSUME NEW args \in Seq(Sessions), NEW s \in ToSet(args)
    PROVE  LastPosition(args, s) \in DOMAIN args /\ args[LastPosition(args, s)] = s
<1> DEFINE n == Len(args)
           FromEnd == {n - i : i \in {i \in DOMAIN args : args[i] = s}}
<1>1. n \in Nat /\ DOMAIN args = 1 .. n
  OBVIOUS
<1>2. \E i \in DOMAIN args : args[i] = s
  BY DEF ToSet
<1>3. FromEnd \in SUBSET Nat /\ FromEnd # {}
  BY <1>1, <1>2
<1>4. PICK m \in FromEnd : \A o \in FromEnd : m <= o
  BY <1>3, LeastOfSome
<1>5. PICK i \in DOMAIN args : args[i] = s /\ m = n - i
  BY <1>4
<1>6. \A j \in DOMAIN args : args[j] = s => n - i <= n - j
  BY <1>4, <1>5
<1>7. \A j \in DOMAIN args : args[j] = s => j <= i
  BY <1>1, <1>6
<1> QED
  BY <1>5, <1>7 DEF LastPosition

\* The tokens and requests are not touched by the calls of decorated functions
LEMMA StackStepKeepsTokens ==
    ASSUME IInv, UNCHANGED <<now, adapter, content, _tokens, wire>>,
           default_scopes' \in [Sessions -> Lists \cup {None}],
           stack' \in Seq(Frame), Unwinds', SameLengths'
    PROVE  IInv'
  BY DEF IInv, TypeInv, KeptUnderItsScopes, SentWithItsToken

\* default_scopes saves the scopes of each session as it replaces them
LEMMA CallKeepsIInv ==
    ASSUME IInv, NEW args \in Arguments, NEW list \in Lists, CallDecorated(args, list)
    PROVE  IInv'
<1> DEFINE frame == [args |-> args, old_scopes |-> Saved(args, list)]
           n == Len(stack)
<1>1. stack \in Seq(Frame) /\ n \in Nat /\ default_scopes \in [Sessions -> Lists \cup {None}]
  BY DEF IInv, TypeInv
<1>2. args \in Seq(Sessions) /\ \A i \in DOMAIN args : args[i] \in Sessions
  BY ArgsAreSessions
<1>3. Saved(args, list) \in Seq(Lists \cup {None})
  <2>1. DOMAIN args = 1 .. Len(args) /\ Len(args) \in Nat
    BY <1>2
  <2>2. Saved(args, list) \in [1 .. Len(args) -> Lists \cup {None}]
    BY <1>1, <1>2, <2>1 DEF Saved
  <2> QED
    BY <2>1, <2>2
<1>4. frame \in Frame
  BY <1>2, <1>3 DEF Frame
<1>5. /\ \A i \in DOMAIN frame.args :
            (\A j \in 1 .. i - 1 : frame.args[j] # frame.args[i]) =>
                frame.old_scopes[i] = default_scopes[frame.args[i]]
      /\ DOMAIN frame.old_scopes = DOMAIN frame.args
      /\ frame.args = args
  BY DEF Saved
<1>6. stack' = Append(stack, frame)
  BY DEF CallDecorated
<1> HIDE DEF frame
<1>7. /\ stack' \in Seq(Frame) /\ DOMAIN stack' = 1 .. n + 1 /\ DOMAIN stack = 1 .. n
      /\ stack'[n + 1] = frame
      /\ \A k \in 1 .. n : stack'[k] = stack[k]
  BY <1>1, <1>4, <1>6
<1>8. default_scopes' = SetAll(args, list)
  BY DEF CallDecorated
<1>9. default_scopes' \in [Sessions -> Lists \cup {None}]
  BY <1>1, <1>8 DEF SetAll
<1>10. SameLengths'
  <2> SUFFICES ASSUME NEW k \in 1 .. n + 1
               PROVE  DOMAIN stack'[k].old_scopes = DOMAIN stack'[k].args
    BY <1>7 DEF SameLengths
  <2>1. k \in 1 .. n \/ k = n + 1
    BY <1>1
  <2> QED
    BY <1>5, <1>7, <2>1 DEF IInv, SameLengths
<1>11. Unwinds'
  <2> SUFFICES ASSUME NEW s \in Sessions, s \notin lost'
               PROVE  /\ (\A k \in DOMAIN stack' : ~Holds(stack'[k], s)) => default_scopes'[s] = None
                      /\ \A k \in DOMAIN stack' : Outermost(k, s)' =>
                            \A i \in DOMAIN stack'[k].args :
                                stack'[k].args[i] = s => stack'[k].old_scopes[i] = None
    BY DEF Unwinds, Holds
  <2>1. s \notin lost
    BY DEF CallDecorated
  <2>2. /\ (\A k \in 1 .. n : ~Holds(stack[k], s)) => default_scopes[s] = None
        /\ \A k \in 1 .. n : Outermost(k, s) =>
              \A i \in DOMAIN stack[k].args :
                  stack[k].args[i] = s => stack[k].old_scopes[i] = None
    BY <1>7, <2>1 DEF IInv, Unwinds
  <2>3. ASSUME \A k \in DOMAIN stack' : ~Holds(stack'[k], s)
        PROVE  default_scopes'[s] = None
    <3>1. n + 1 \in 1 .. n + 1 /\ 1 .. n \subseteq 1 .. n + 1
      BY <1>1
    <3>2. s \notin ToSet(args)
      BY <1>5, <1>7, <2>3, <3>1 DEF Holds
    <3>3. default_scopes'[s] = default_scopes[s]
      BY <1>8, <3>2 DEF SetAll
    <3>4. \A k \in 1 .. n : ~Holds(stack[k], s)
      BY <1>7, <2>3, <3>1
    <3> QED
      BY <2>2, <3>3, <3>4
  <2>4. ASSUME NEW k \in DOMAIN stack', Outermost(k, s)',
               NEW i \in DOMAIN stack'[k].args, stack'[k].args[i] = s
        PROVE  stack'[k].old_scopes[i] = None
    <3>0. /\ Holds(stack'[k], s) /\ ~Twice(stack'[k].args, s)
          /\ \A j \in 1 .. k - 1 : ~Holds(stack'[j], s)
      BY <2>4 DEF Outermost, Holds, Twice
    <3>1. CASE k \in 1 .. n
      <4>1. \A j \in 1 .. k - 1 : j \in 1 .. n
        BY <1>1, <3>1
      <4>2. stack'[k] = stack[k] /\ \A j \in 1 .. k - 1 : stack'[j] = stack[j]
        BY <1>7, <3>1, <4>1
      <4>3. Outermost(k, s)
        BY <3>0, <4>2 DEF Outermost
      <4> QED
        BY <2>2, <2>4, <3>1, <4>2, <4>3
    <3>2. CASE k = n + 1
      <4>1. stack'[k] = frame /\ \A j \in 1 .. n : ~Holds(stack[j], s)
        BY <1>1, <1>7, <3>0, <3>2
      <4>2. default_scopes[s] = None
        BY <2>2, <4>1
      <4>3. \A j \in 1 .. i - 1 : j \in DOMAIN args /\ j # i
        <5>1. DOMAIN args = 1 .. Len(args) /\ Len(args) \in Nat /\ i \in 1 .. Len(args)
          BY <1>2, <1>5, <2>4, <4>1
        <5> QED
          BY <5>1
      <4>4. \A j \in 1 .. i - 1 : frame.args[j] # frame.args[i]
        BY <1>5, <2>4, <3>0, <4>1, <4>3 DEF Twice
      <4> QED
        BY <1>5, <2>4, <4>1, <4>2, <4>4
    <3> QED
      BY <1>1, <1>7, <3>1, <3>2
  <2> QED
    BY <2>3, <2>4
<1> QED
  BY <1>7, <1>9, <1>10, <1>11, StackStepKeepsTokens DEF CallDecorated, IInv, TypeInv

\* The stack without its last frame
LEMMA FrontOfStack ==
    ASSUME stack \in Seq(Frame), stack # <<>>
    PROVE  /\ Len(stack) \in Nat \ {0} /\ DOMAIN stack = 1 .. Len(stack)
           /\ Front(stack) \in Seq(Frame)
           /\ DOMAIN Front(stack) = 1 .. Len(stack) - 1
           /\ \A k \in 1 .. Len(stack) - 1 : Front(stack)[k] = stack[k]
           /\ Last(stack) = stack[Len(stack)] /\ Last(stack) \in Frame
<1>1. Len(stack) \in Nat \ {0} /\ DOMAIN stack = 1 .. Len(stack)
  OBVIOUS
<1>2. /\ Front(stack) \in Seq(Frame)
      /\ DOMAIN Front(stack) = 1 .. Len(stack) - 1
      /\ \A k \in 1 .. Len(stack) - 1 : Front(stack)[k] = stack[k]
  BY <1>1 DEF Front
<1> QED
  BY <1>1, <1>2 DEF Last

\* What was outermost in the shorter stack was so before
LEMMA FrontUnwinds ==
    ASSUME IInv, stack # <<>>, stack' = Front(stack), lost \subseteq lost',
           NEW s \in Sessions, s \notin lost',
           NEW k \in DOMAIN stack', Outermost(k, s)',
           NEW i \in DOMAIN stack'[k].args, stack'[k].args[i] = s
    PROVE  stack'[k].old_scopes[i] = None
<1>1. /\ Len(stack) \in Nat \ {0} /\ DOMAIN stack = 1 .. Len(stack)
      /\ DOMAIN stack' = 1 .. Len(stack) - 1
      /\ \A l \in 1 .. Len(stack) - 1 : stack'[l] = stack[l]
  BY FrontOfStack DEF IInv, TypeInv
<1>2. k \in 1 .. Len(stack) - 1 /\ k \in 1 .. Len(stack) /\ 1 .. k - 1 \subseteq 1 .. Len(stack) - 1
  BY <1>1
<1>3. stack'[k] = stack[k] /\ \A j \in 1 .. k - 1 : stack'[j] = stack[j]
  BY <1>1, <1>2
<1>4. Outermost(k, s)
  BY <1>3 DEF Outermost, Holds, Twice
<1> QED
  BY <1>1, <1>2, <1>3, <1>4 DEF IInv, Unwinds

\* On return the scopes are restored by position
LEMMA ReturnKeepsIInv ==
    ASSUME IInv, ReturnDecorated
    PROVE  IInv'
<1> DEFINE n == Len(stack)
           top == Last(stack)
<1>1. /\ n \in Nat \ {0} /\ DOMAIN stack = 1 .. n
      /\ stack' \in Seq(Frame) /\ DOMAIN stack' = 1 .. n - 1
      /\ \A k \in 1 .. n - 1 : stack'[k] = stack[k]
      /\ top = stack[n] /\ top \in Frame
  BY FrontOfStack DEF ReturnDecorated, IInv, TypeInv
<1>2. DOMAIN top.old_scopes = DOMAIN top.args
  BY <1>1 DEF IInv, SameLengths
<1>3. ASSUME NEW s \in Sessions, Holds(top, s)
      PROVE  \E i \in DOMAIN top.args : /\ top.args[i] = s
                                        /\ default_scopes'[s] = top.old_scopes[i]
  <2>1. top.args \in Seq(Sessions) /\ s \in ToSet(top.args)
    BY <1>1, <1>3 DEF Frame, Holds
  <2>2. default_scopes'[s] = top.old_scopes[LastPosition(top.args, s)]
    BY <2>1 DEF ReturnDecorated, Restored
  <2> QED
    BY <2>1, <2>2, LastPositionHolds
<1>4. \A s \in Sessions : ~Holds(top, s) => default_scopes'[s] = default_scopes[s]
  BY DEF ReturnDecorated, Restored, Holds
<1>5. lost' = lost \cup {s \in ToSet(top.args) :
                            /\ \A k \in 1 .. n - 1 : ~Holds(stack[k], s)
                            /\ Twice(top.args, s)}
  BY DEF ReturnDecorated, OfLastOnly, Holds
<1> HIDE DEF top
<1>6. default_scopes' \in [Sessions -> Lists \cup {None}]
  <2>1. default_scopes' = [s \in Sessions |-> default_scopes'[s]]
    BY DEF ReturnDecorated, Restored
  <2>2. \A i \in DOMAIN top.old_scopes : top.old_scopes[i] \in Lists \cup {None}
    BY <1>1 DEF Frame
  <2>3. \A s \in Sessions : default_scopes'[s] \in Lists \cup {None}
    BY <1>2, <1>3, <1>4, <2>2 DEF IInv, TypeInv
  <2> QED
    BY <2>1, <2>3
<1>7. 1 .. n - 1 \subseteq 1 .. n
  BY <1>1
<1>8. SameLengths'
  BY <1>1, <1>7 DEF IInv, SameLengths
<1>9. Unwinds'
  <2> SUFFICES ASSUME NEW s \in Sessions, s \notin lost'
               PROVE  /\ (\A k \in DOMAIN stack' : ~Holds(stack'[k], s)) => default_scopes'[s] = None
                      /\ \A k \in DOMAIN stack' : Outermost(k, s)' =>
                            \A i \in DOMAIN stack'[k].args :
                                stack'[k].args[i] = s => stack'[k].old_scopes[i] = None
    BY DEF Unwinds, Holds
  <2>1. s \notin lost
    BY <1>5
  <2>2. /\ (\A k \in 1 .. n : ~Holds(stack[k], s)) => default_scopes[s] = None
        /\ \A k \in 1 .. n : Outermost(k, s) =>
              \A i \in DOMAIN stack[k].args :
                  stack[k].args[i] = s => stack[k].old_scopes[i] = None
    BY <1>1, <2>1 DEF IInv, Unwinds
  <2>3. ASSUME \A k \in DOMAIN stack' : ~Holds(stack'[k], s)
        PROVE  default_scopes'[s] = None
    <3>1. \A k \in 1 .. n - 1 : ~Holds(stack[k], s)
      BY <1>1, <2>3
    <3>2. n \in 1 .. n /\ \A k \in 1 .. n : k \in 1 .. n - 1 \/ k = n
      <4>1. n \in Nat \ {0}
        BY <1>1
      <4> QED
        BY <4>1
    <3>3. CASE Holds(top, s)
      <4>1. ~Twice(top.args, s)
        BY <1>5, <3>1, <3>3 DEF Holds
      <4>2. Outermost(n, s)
        BY <1>1, <3>1, <3>3, <4>1 DEF Outermost
      <4>3. \A i \in DOMAIN top.args : top.args[i] = s => top.old_scopes[i] = None
        BY <1>1, <2>2, <3>2, <4>2
      <4> QED
        BY <1>3, <3>3, <4>3
    <3>4. CASE ~Holds(top, s)
      BY <1>1, <1>4, <2>2, <3>1, <3>2, <3>4
    <3> QED
      BY <3>3, <3>4
  <2> QED
    BY <1>5, <2>3, FrontUnwinds DEF ReturnDecorated
<1> QED
  BY <1>1, <1>6, <1>8, <1>9, StackStepKeepsTokens DEF ReturnDecorated, IInv, TypeInv

\* When the function raises, the scopes stay, and those of a session that only
\* this function had are lost
LEMMA RaiseKeepsIInv ==
    ASSUME IInv, RaiseDecorated
    PROVE  IInv'
<1> DEFINE n == Len(stack)
<1>1. /\ n \in Nat \ {0} /\ DOMAIN stack = 1 .. n
      /\ stack' \in Seq(Frame) /\ DOMAIN stack' = 1 .. n - 1
      /\ \A k \in 1 .. n - 1 : stack'[k] = stack[k]
      /\ Last(stack) = stack[n]
  BY FrontOfStack DEF RaiseDecorated, IInv, TypeInv
<1>2. 1 .. n - 1 \subseteq 1 .. n
  BY <1>1
<1>3. SameLengths'
  BY <1>1, <1>2 DEF IInv, SameLengths
<1>4. lost' = lost \cup {s \in ToSet(stack[n].args) : \A k \in 1 .. n - 1 : ~Holds(stack[k], s)}
  BY <1>1 DEF RaiseDecorated, OfLastOnly, Holds
<1>5. default_scopes' = default_scopes
  BY DEF RaiseDecorated
<1>6. Unwinds'
  <2> SUFFICES ASSUME NEW s \in Sessions, s \notin lost'
               PROVE  /\ (\A k \in DOMAIN stack' : ~Holds(stack'[k], s)) => default_scopes'[s] = None
                      /\ \A k \in DOMAIN stack' : Outermost(k, s)' =>
                            \A i \in DOMAIN stack'[k].args :
                                stack'[k].args[i] = s => stack'[k].old_scopes[i] = None
    BY DEF Unwinds, Holds
  <2>1. ASSUME \A k \in DOMAIN stack' : ~Holds(stack'[k], s)
        PROVE  default_scopes'[s] = None
    <3>1. \A k \in 1 .. n - 1 : ~Holds(stack[k], s)
      BY <1>1, <2>1
    <3>2. ~Holds(stack[n], s)
      BY <1>4, <3>1 DEF Holds
    <3>3. \A k \in 1 .. n : k \in 1 .. n - 1 \/ k = n
      <4>1. n \in Nat \ {0}
        BY <1>1
      <4> QED
        BY <4>1
    <3>4. \A k \in DOMAIN stack : ~Holds(stack[k], s)
      BY <1>1, <3>1, <3>2, <3>3
    <3> QED
      BY <1>4, <1>5, <3>4 DEF IInv, Unwinds
  <2> QED
    BY <1>4, <2>1, FrontUnwinds DEF RaiseDecorated
<1> QED
  BY <1>1, <1>3, <1>6, StackStepKeepsTokens DEF RaiseDecorated, IInv, TypeInv

-----------------------------------------------------------------------------
(***************************************************************************)
(* The theorems                                                            *)
(***************************************************************************)

\* A request arrives with the token it was sent with
LEMMA ArriveKeepsIInv ==
    ASSUME IInv, NEW r \in wire, Arrive(r)
    PROVE  IInv'
<1>1. wire' \subseteq wire /\ UNCHANGED <<now, adapter, content, _tokens, default_scopes, stack, lost>>
  BY DEF Arrive
<1> QED
  BY <1>1 DEF IInv, TypeInv, KeptUnderItsScopes, SentWithItsToken, Unwinds, SameLengths,
              Outermost, Holds, Twice

\* Time moves on for tokens and travelling requests alike
LEMMA TickKeepsIInv ==
    ASSUME IInv, Tick
    PROVE  IInv'
  BY DEF Tick, IInv, TypeInv, KeptUnderItsScopes, SentWithItsToken, Unwinds, SameLengths,
         Outermost, Holds, Twice

\* The invariant is inductive
LEMMA NextKeepsIInv ==
    ASSUME IInv, [Next]_vars
    PROVE  IInv'
<1>1. CASE \E s \in Sessions, v \in Servers, e \in Endpoints, given \in Lists \cup {None} :
              Request(s, v, e, given)
  BY <1>1, RequestKeepsIInv
<1>2. CASE \E r \in wire : Arrive(r)
  BY <1>2, ArriveKeepsIInv
<1>3. CASE \E args \in Arguments, list \in Lists : CallDecorated(args, list)
  BY <1>3, CallKeepsIInv
<1>4. CASE ReturnDecorated
  BY <1>4, ReturnKeepsIInv
<1>5. CASE RaiseDecorated
  BY <1>5, RaiseKeepsIInv
<1>6. CASE Tick
  BY <1>6, TickKeepsIInv
<1>7. CASE Done \/ UNCHANGED vars
  <2>1. UNCHANGED vars
    BY <1>7 DEF Done
  <2> QED
    BY <2>1 DEF vars, IInv, TypeInv, KeptUnderItsScopes, SentWithItsToken, Unwinds, SameLengths,
                Outermost, Holds, Twice
<1> QED
  BY <1>1, <1>2, <1>3, <1>4, <1>5, <1>6, <1>7 DEF Next

\* The inductive invariant holds in every reachable state
THEOREM Invariance == Spec => []IInv
<1> QED
  BY InitIInv, NextKeepsIInv, PTL DEF Spec

(***************************************************************************)
(* MarginSuffices: with any lifetime and margin, a token that the adapter  *)
(* sends cannot expire under way unless the request takes the margin       *)
(* (infrastructure.py:46-50).                                              *)
(***************************************************************************)
THEOREM MarginAlwaysSuffices == Spec => []MarginSuffices
<1>1. ASSUME IInv PROVE MarginSuffices
  <2> SUFFICES ASSUME NEW r \in wire, validate(r.server, r.endpoint, r.token) = "expired"
               PROVE  now - r.at >= Margin
    BY DEF MarginSuffices
  <2>1. r.token.exp <= now
    BY DEF validate
  <2>2. /\ r.token.exp >= r.at + Margin
        /\ r.token.exp \in Int /\ r.at \in Nat /\ now \in Nat /\ Margin \in Nat
    BY <1>1, ConstantsAssumption DEF IInv, TypeInv, SentWithItsToken
  <2> QED
    BY <2>1, <2>2
<1> QED
  BY <1>1, Invariance, PTL

(***************************************************************************)
(* AuthorizedAsAsked: with any adapter, also the one that adds the         *)
(* audience to the list of scopes it was given, a request is let in on the *)
(* scopes it asks for and on no others that a kept token might hold        *)
(* (infrastructure.py:38-51, auth.py:154, auth_validation.py:88-95).       *)
(***************************************************************************)
THEOREM AlwaysAuthorizedAsAsked == Spec => []AuthorizedAsAsked
<1>1. ASSUME IInv PROVE AuthorizedAsAsked
  <2> SUFFICES ASSUME NEW r \in wire, validate(r.server, r.endpoint, r.token) = "ok",
                      NEW permitted \in Range(r.endpoint)
               PROVE  HasScope(permitted, r.asked)
    BY DEF AuthorizedAsAsked
  <2>1. HasScope(permitted, r.token.scopes)
    BY DEF validate
  <2>2. r.token.scopes \subseteq r.asked \cup AudienceScopes /\ r.endpoint \in Endpoints
    BY <1>1 DEF IInv, TypeInv, SentWithItsToken
  <2>3. \A scope \in AudienceScopes : scope \notin permitted
    BY <2>2, AudienceScopesAssumption DEF AudienceScopes
  <2> QED
    BY <2>1, <2>2, <2>3 DEF HasScope
<1> QED
  BY <1>1, Invariance, PTL

(***************************************************************************)
(* ScopesRestored: however deep decorated functions are nested, whichever  *)
(* sessions they share and in whatever order they return or raise, a       *)
(* session has the default scopes it had before once the last one is over, *)
(* unless its outermost function raised or was given it twice              *)
(* (infrastructure.py:218-250).                                            *)
(***************************************************************************)
THEOREM ScopesAlwaysRestored == Spec => []ScopesRestored
<1>1. ASSUME IInv PROVE ScopesRestored
  BY <1>1 DEF IInv, Unwinds, ScopesRestored
<1> QED
  BY <1>1, Invariance, PTL

=============================================================================
