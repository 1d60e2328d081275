--------------------------------- MODULE Auth ---------------------------------
(***************************************************************************)
(* Access tokens, from the decorator that gives test sessions their scopes *)
(* over the adapter that gets and keeps tokens (monitorlib/infrastructure  *)
(* and auth) to the server that validates them (auth_validation).          *)
(*                                                                         *)
(* Lists of scopes are objects: sessions and decorators hold references to *)
(* the same lists, and an adapter that appends to one changes it for all.  *)
(***************************************************************************)
EXTENDS Integers, FiniteSets, SequencesExt

CONSTANTS
    Sessions,        \* UTMClientSessions and AsyncUTMTestSessions, with one adapter
    Scopes,
    Lists,           \* list objects
    ContentOf,       \* [Lists -> Seq(scopes)], what they hold at first
    Servers,
    AudienceOf,      \* [Servers -> host name], the name in the server's URL
    AudiencesOf,     \* [Servers -> set of names it accepts], empty if not configured
    AudScope,        \* [Audiences -> scopes], the scope that names an audience
    Endpoints,       \* sequences of sets of scopes: the decorators of an endpoint
    Adapters,        \* subclasses of AuthAdapter
    Lifetime,        \* of the tokens that are issued
    Margin,          \* TOKEN_REFRESH_MARGIN
    MaxTime,         \* bound: the clock
    MaxCalls,        \* bound: calls of decorated functions
    MaxArgs,         \* bound: sessions in one such call
    MaxRequests,     \* bound: requests
    None

Audiences == {AudienceOf[s] : s \in Servers}

ASSUME ConstantsAssumption ==
    /\ {Lifetime, Margin, MaxTime, MaxCalls, MaxArgs, MaxRequests} \subseteq Nat
    /\ Margin < Lifetime
    /\ ContentOf \in [Lists -> Seq(Scopes)] /\ None \notin Lists
    /\ AudScope \in [Audiences -> Scopes]
    /\ Endpoints \subseteq Seq(SUBSET Scopes)
    /\ Adapters \subseteq {"NoAuth", "DummyOAuth", "ServiceAccount", "UsernamePassword",
                           "SignedRequest", "ClientIdClientSecret"}

\* No endpoint permits a scope that names an audience ("aud:...")
ASSUME AudienceScopesAssumption ==
    \A a \in Audiences, e \in Endpoints : \A permitted \in Range(e) : AudScope[a] \notin permitted

VARIABLES
    now,
    adapter,         \* the adapter of this run
    content,         \* [Lists -> Seq(scopes)]
    _tokens,         \* set of [aud, key, token], at most one per aud and key
    default_scopes,  \* [Sessions -> Lists or None]
    stack,           \* of the decorated functions that run
    wire,            \* requests under way
    last,            \* the outcome of the last request
    calls, sent,     \* calls and requests so far
    lost             \* history: sessions that did not get their scopes back

vars == <<now, adapter, content, _tokens, default_scopes, stack, wire, last, calls, sent, lost>>

(***************************************************************************)
(* issue_token: the token that each adapter comes back with, or None   *)
(* for an AccessTokenError                                                 *)
(***************************************************************************)
Token(a, scopes) ==
    [aud |-> a, scopes |-> ToSet(scopes), nbf |-> now - 1, exp |-> now + Lifetime]

\* An authorization server issues what was asked for or refuses
FromServer(auds, scopes) == {Token(a, scopes) : a \in auds} \cup {None}

NoAuth(a, scopes)               == {Token(a, scopes)}
DummyOAuth(a, scopes)           == FromServer({a}, scopes)
ServiceAccount(a, scopes)       == FromServer({a}, scopes)
ClientIdClientSecret(a, scopes) == FromServer({a}, scopes)
\* The request is signed with a key that matches the certificate, or the
\* adapter is not made at all
SignedRequest(a, scopes)        == FromServer({a}, scopes)
\* The audience is one of the scopes; of several, the server picks one
UsernamePassword(a, scopes) ==
    FromServer({b \in Audiences : Contains(Append(scopes, AudScope[a]), AudScope[b])},
               Append(scopes, AudScope[a]))

issue_token(a, scopes) ==
    CASE adapter = "NoAuth" -> NoAuth(a, scopes)
      [] adapter = "DummyOAuth" -> DummyOAuth(a, scopes)
      [] adapter = "ServiceAccount" -> ServiceAccount(a, scopes)
      [] adapter = "UsernamePassword" -> UsernamePassword(a, scopes)
      [] adapter = "SignedRequest" -> SignedRequest(a, scopes)
      [] adapter = "ClientIdClientSecret" -> ClientIdClientSecret(a, scopes)

\* What issue_token does to the list that it is called with
ListAfterIssue(a, scopes) ==
    IF adapter = "UsernamePassword" THEN Append(scopes, AudScope[a]) ELSE scopes

(***************************************************************************)
(* AuthAdapter.get_headers                                                 *)
(***************************************************************************)
\* Mutant: tokens are kept by audience alone
CachedForAudience(a, key) == {t.token : t \in {t \in _tokens : t.aud = a}}

Cached(a, key) == {t.token : t \in {t \in _tokens : t.aud = a /\ t.key = key}}

\* Mutant: a token is renewed when it has expired
ExpiredAlready(token) == now > token.exp

Expiring(token) == now > token.exp - Margin

\* The token of the request and the list of scopes after it.  A new token
\* outlasts the margin, so that issue_token is called at most once.
GetToken(a, scopes) ==
    IF Cached(a, scopes) # {} /\ \A t \in Cached(a, scopes) : ~Expiring(t)
    THEN {<<t, scopes>> : t \in Cached(a, scopes)}
    ELSE {<<t, ListAfterIssue(a, scopes)>> : t \in issue_token(a, scopes)}

Remember(a, key, token) ==
    {t \in _tokens : ~(t.aud = a /\ t.key = key)} \cup {[aud |-> a, key |-> key, token |-> token]}

(***************************************************************************)
(* UTMClientSession.request and the methods of AsyncUTMTestSession         *)
(***************************************************************************)
\* adjust_request_kwargs: a list given with the request, or the default
ScopesOf(session, given) == IF given = None THEN default_scopes[session] ELSE given

Request(session, server, endpoint, given) ==
    LET list == ScopesOf(session, given)
        a    == AudienceOf[server]
    IN  /\ sent < MaxRequests /\ sent' = sent + 1
        /\ \/ /\ list = None
              /\ last' = "ValueError"
              /\ UNCHANGED <<content, _tokens, wire>>
           \/ /\ list # None
              /\ \E issued \in GetToken(a, content[list]) :
                  /\ content' = [content EXCEPT ![list] = issued[2]]
                  /\ IF issued[1] = None
                     THEN /\ last' = "AccessTokenError"
                          /\ UNCHANGED <<_tokens, wire>>
                     ELSE /\ _tokens' = Remember(a, content[list], issued[1])
                          /\ wire' = wire \cup {[server |-> server, endpoint |-> endpoint,
                                                 asked |-> ToSet(content[list]),
                                                 token |-> issued[1], at |-> now]}
                          /\ UNCHANGED last
        /\ UNCHANGED <<now, adapter, default_scopes, stack, calls, lost>>

(***************************************************************************)
(* requires_scope_decorator                                                *)
(***************************************************************************)
HasScope(permitted, provided) == permitted \cap provided # {}

\* The first decorator validates the token, each looks for a scope of its own
validate(server, endpoint, token) ==
    IF AudiencesOf[server] = {} THEN "ConfigurationError"
    ELSE IF token.nbf > now THEN "immature"
    ELSE IF token.exp <= now THEN "expired"
    ELSE IF token.aud \notin AudiencesOf[server] THEN "InvalidAccessTokenError"
    ELSE IF \E permitted \in Range(endpoint) : ~HasScope(permitted, token.scopes)
         THEN "InvalidScopeError" ELSE "ok"

Arrive(r) ==
    /\ r \in wire
    /\ wire' = wire \ {r}
    /\ last' = validate(r.server, r.endpoint, r.token)
    /\ UNCHANGED <<now, adapter, content, _tokens, default_scopes, stack, calls, sent, lost>>

(***************************************************************************)
(* default_scopes: a decorated function is called with sessions, the       *)
(* positional ones and then those given by keyword, which may be the same  *)
(***************************************************************************)
SetAll(args, list) == [s \in Sessions |-> IF s \in ToSet(args) THEN list ELSE default_scopes[s]]

\* Each argument's scopes are saved before they are set: of a session that was
\* given before, the new ones are saved
Saved(args, list) ==
    [i \in DOMAIN args |-> IF \E j \in 1 .. i - 1 : args[j] = args[i]
                           THEN list ELSE default_scopes[args[i]]]

CallDecorated(args, list) ==
    /\ calls < MaxCalls /\ calls' = calls + 1
    /\ stack' = Append(stack, [args |-> args, old_scopes |-> Saved(args, list)])
    /\ default_scopes' = SetAll(args, list)
    /\ UNCHANGED <<now, adapter, content, _tokens, wire, last, sent, lost>>

\* Mutant: what was saved last is restored first
RestoredReversed(frame) ==
    [s \in Sessions |-> IF s \in ToSet(frame.args)
                        THEN LET n == Len(frame.args)
                                 i == CHOOSE i \in 1..n : frame.args[i] = s
                             IN  frame.old_scopes[n + 1 - i]
                        ELSE default_scopes[s]]

\* The last position of a session among the arguments
LastPosition(args, s) ==
    CHOOSE i \in DOMAIN args : args[i] = s /\ \A j \in DOMAIN args : args[j] = s => j <= i

\* The saved scopes are set in order, so that the last for a session stay
Restored(frame) ==
    [s \in Sessions |-> IF s \in ToSet(frame.args)
                        THEN frame.old_scopes[LastPosition(frame.args, s)]
                        ELSE default_scopes[s]]

Twice(args, s) == \E i, j \in DOMAIN args : i # j /\ args[i] = s /\ args[j] = s

\* The sessions that of the functions that run only the last one was given
OfLastOnly ==
    {s \in ToSet(Last(stack).args) : \A k \in 1 .. Len(stack) - 1 : s \notin ToSet(stack[k].args)}

ReturnDecorated ==
    /\ stack # <<>>
    /\ stack' = Front(stack)
    /\ default_scopes' = Restored(Last(stack))
    /\ lost' = lost \cup {s \in OfLastOnly : Twice(Last(stack).args, s)}
    /\ UNCHANGED <<now, adapter, content, _tokens, wire, last, calls, sent>>

\* An exception passes the decorator by
RaiseDecorated ==
    /\ stack # <<>>
    /\ stack' = Front(stack)
    /\ lost' = lost \cup OfLastOnly
    /\ UNCHANGED <<now, adapter, content, _tokens, default_scopes, wire, last, calls, sent>>

Tick ==
    /\ now < MaxTime
    /\ now' = now + 1
    /\ UNCHANGED <<adapter, content, _tokens, default_scopes, stack, wire, last, calls, sent, lost>>

Init ==
    /\ now = 0
    /\ adapter \in Adapters
    /\ content = ContentOf
    /\ _tokens = {}
    /\ default_scopes = [s \in Sessions |-> None]
    /\ stack = <<>>
    /\ wire = {}
    /\ last = "none"
    /\ calls = 0 /\ sent = 0
    /\ lost = {}

\* Nothing more to do once the bounds are reached
Done == sent = MaxRequests /\ wire = {} /\ stack = <<>> /\ UNCHANGED vars

Arguments == UNION {[1 .. k -> Sessions] : k \in 1 .. MaxArgs}

Next ==
    \/ \E s \in Sessions, v \in Servers, e \in Endpoints, given \in Lists \cup {None} :
            Request(s, v, e, given)
    \/ \E r \in wire : Arrive(r)
    \/ \E args \in Arguments, list \in Lists : CallDecorated(args, list)
    \/ ReturnDecorated \/ RaiseDecorated \/ Tick \/ Done

Spec == Init /\ [][Next]_vars

-----------------------------------------------------------------------------

(***************************************************************************)
(* A request that takes less time than the margin is never refused because *)
(* its token expired, however old the token that the adapter kept          *)
(* (infrastructure.py:46-50, auth_validation.py:72-77).                    *)
(***************************************************************************)
MarginSuffices ==
    \A r \in wire : validate(r.server, r.endpoint, r.token) = "expired"
                      => now - r.at >= Margin

(***************************************************************************)
(* A server lets a request in only if its sender asked, in this request,   *)
(* for a scope that each decorator of the endpoint permits: no token that  *)
(* was kept for other scopes gives it more (infrastructure.py:38-51,       *)
(* auth_validation.py:88-95).                                              *)
(***************************************************************************)
AuthorizedAsAsked ==
    \A r \in wire : validate(r.server, r.endpoint, r.token) = "ok" =>
        \A permitted \in Range(r.endpoint) : HasScope(permitted, r.asked)

(***************************************************************************)
(* When the decorated functions are over, a session has the default scopes *)
(* that it had before, in whichever order they were nested, whichever      *)
(* sessions each was called with and whatever happened to functions inside *)
(* (infrastructure.py:218-250).  Not restored, although the decorator's    *)
(* documentation promises it (lines 207-209), is a session whose outermost *)
(* function raised or was given it twice.                                  *)
(***************************************************************************)
ScopesRestored ==
    stack = <<>> => \A s \in Sessions \ lost : default_scopes[s] = None

=============================================================================
