------------------------------ MODULE NetRIDProofs -----------------------------
(***************************************************************************)
(* Proofs about NetRID: the nominal behaviour scenario of uss_qualifier    *)
(* finds nothing in a system that works but flights whose data expired     *)
(* while it looked, and it does not succeed unless every observer has      *)
(* displayed every flight.                                                 *)
(*                                                                         *)
(* The invariant is about time: how far the clock has come since the       *)
(* rectangle of a round was made, since an observation was begun, and      *)
(* since an observer was last asked in vain for a flight.                  *)
(***************************************************************************)
EXTENDS NetRID, WellFoundedInduction, TLAPS

\* The time that a number of calls may take, and a number of observations
Calls(n) == MaxDelay * n
Turns(n) == 2 * MaxDelay * n

Scenario == {"inject", "poll", "loop", "observe", "flights", "wait", "asleep", "cleanup", "complete"}
Polling == {"poll", "loop", "observe", "flights", "wait", "asleep"}
Observing == {"observe", "flights"}

View == Int \X Int

Observation ==
    [end : Int, rect : View, initiated : Nat, asks : SUBSET ProviderSet,
     shown : SUBSET ProviderSet, code : {0, 200, 412, 413}]

Checks ==
    {"Successful injection", "Area too large", "Successful observation", "Premature flight",
     "Lingering flight", "Missing flight", "Successful test deletion"}

Finding == [check : Checks, provider : ProviderSet \cup {None}, at : Nat]

TypeInv ==
    /\ now \in Nat /\ limit \in Nat /\ now <= limit
    /\ track \in Tracks /\ start = StartDelay
    /\ isas \in [ProviderSet -> {None} \cup [from : Int, to : Int]] /\ tests \in SUBSET ProviderSet
    /\ hidden \in DisplayProviderBehavior
    /\ pc \in Scenario /\ turn \in Nat
    /\ injected \in Seq(ProviderSet)
    /\ obs \in Observation
    /\ next \in Nat
    /\ findings \in SUBSET Finding
    /\ error \in BOOLEAN /\ faults \in Nat
    /\ observed \in SUBSET (ObserverSet \X ProviderSet)

\* What has been injected is served, until the cleanup
Served ==
    /\ pc = "inject" => /\ turn \in 1..Len(Providers)
                        /\ \A n \in 1..(turn - 1) : Providers[n] \in Flights
    /\ pc \in Polling => Flights = ProviderSet
    /\ pc \in Polling \cup {"inject"} =>
           \A p \in Flights : isas[p] = IsaOf(p) /\ p \in tests

\* How far the clock may go
Clocks ==
    /\ pc = "inject" => limit <= Calls(turn)
    /\ pc = "poll" => limit <= InjectionTime
    /\ pc \in {"loop", "wait"} => limit = now
    /\ pc \in {"loop", "wait"} \cup Observing => next <= now
    /\ pc = "asleep" => limit = next
    /\ pc \in Observing => turn \in 1..Len(Observers) /\ obs.initiated <= now
    /\ pc = "observe" => limit <= obs.initiated + MaxDelay
    /\ pc = "flights" => limit <= obs.initiated + 2 * MaxDelay /\ limit <= now + MaxDelay
    /\ pc = "loop" => turn = 1

\* The rectangle covers what has been visible at a time
Covers(view, t) ==
    \A p \in ProviderSet : \A x \in Between(p, t - (Realtime + Latency), t) : Inside(x, view)

\* The rectangle of a round was made when it began
Rectangle ==
    pc \in Observing =>
        \E t \in 0..now : /\ Covers(obs.rect, t)
                          /\ t <= obs.initiated /\ obs.initiated <= t + Turns(turn - 1)

\* No call fails, nothing is withheld, and calls are as fast as they have to be
Working ==
    /\ faults = 0 /\ (\A o \in ObserverSet : hidden[o] = {})
    /\ MaxDelay <= Latency /\ RoundTime <= Realtime /\ LastTurn <= Latency

\* An answer of a system that works, as far as it has been given
Answer ==
    Working /\ pc = "flights" =>
        /\ obs.code = IF TooLarge(obs.rect) THEN 413 ELSE 200
        /\ ~TooLarge(obs.rect) =>
              \A p \in ProviderSet :
                  /\ ShouldBeObserved(p) /\ p \notin obs.shown /\ p \notin obs.asks
                        => now > LastTime(p) + Realtime
                  /\ p \in obs.shown => FirstTime(p) <= now /\ limit <= LastTime(p) + Realtime + Latency

\* The scenario may yet succeed
Unblamed == Compact /\ Frequent /\ findings = {} /\ ~error

\* From when on an observation of a flight may not miss it
Due == start + Latency

\* When a round ends in which an observer has not displayed a flight
RoundEnd(k) == Due + Turns(Len(Observers) - k + 1)

\* A time not later than a number of observations into the next round, or the first
SoonAfter(t, k, n) ==
    t <= RoundEnd(k) + PollInterval + Turns(n) \/ t <= InjectionTime + Turns(n)

\* A flight that an observer has not displayed has not been due for long
Overdue(k) ==
    /\ pc \in Observing /\ k < turn => obs.initiated <= Due + Turns(turn - k)
    /\ pc \in Observing /\ turn <= k => SoonAfter(obs.initiated, k, turn - 1)
    /\ pc = "wait" => now <= RoundEnd(k)
    /\ pc = "asleep" => next <= RoundEnd(k) + PollInterval
    /\ pc = "loop" => SoonAfter(now, k, 0)
    /\ pc \notin {"cleanup", "complete"}

Awaited ==
    Unblamed =>
        /\ pc \in Observing => Detailed(obs.rect)
        /\ \A k \in 1..Len(Observers), p \in ProviderSet :
               <<Observers[k], p>> \notin observed => Overdue(k)

\* The loop goes on while a flight may have to be observed
End ==
    pc \in Polling \ {"poll"} =>
        \A p \in ProviderSet : LastTime(p) + Realtime + Latency <= obs.end

IInv ==
    /\ TypeInv /\ Served /\ Clocks /\ Rectangle /\ End
    /\ Answer /\ FindingsJustified /\ Awaited
-----------------------------------------------------------------------------
(***************************************************************************)
(* Times                                                                   *)
(***************************************************************************)

\* The delays, periods and limits of the scenario are natural numbers
LEMMA Constant ==
    /\ StartDelay \in Nat /\ Realtime \in Nat /\ Latency \in Nat /\ Buffer \in Nat
    /\ MinDiagonal \in Nat /\ DetailsDiagonal \in Nat /\ MaxDiagonal \in Nat
    /\ MaxDelay \in Nat /\ MaxFaults \in Nat
    /\ PollInterval \in Nat /\ PollInterval > 0
    /\ Realtime <= Buffer /\ DetailsDiagonal <= MaxDiagonal
BY ConstantsAssumption

\* The providers that flights are injected into are listed, and so are the observers
LEMMA Listed ==
    /\ Len(Providers) \in Nat /\ Len(Providers) > 0
    /\ \A n \in 1..Len(Providers) : Providers[n] \in ProviderSet
    /\ \A p \in ProviderSet : \E n \in 1..Len(Providers) : Providers[n] = p
    /\ Len(Observers) \in Nat /\ Len(Observers) > 0
    /\ \A n \in 1..Len(Observers) : Observers[n] \in ObserverSet
    /\ \A o \in ObserverSet : \E n \in 1..Len(Observers) : Observers[n] = o
<1>1. Providers \in Seq(ProviderSet) /\ Len(Providers) > 0 /\ Observers \in Seq(ObserverSet) /\ Len(Observers) > 0
  BY ConstantsAssumption
<1>2. DOMAIN Providers = 1..Len(Providers) /\ Len(Providers) \in Nat
  BY <1>1
<1>3. DOMAIN Observers = 1..Len(Observers) /\ Len(Observers) \in Nat
  BY <1>1
<1>4. /\ \A n \in 1..Len(Providers) : Providers[n] \in ProviderSet
      /\ \A p \in ProviderSet : \E n \in 1..Len(Providers) : Providers[n] = p
  BY <1>2 DEF ProviderSet, ToSet
<1>5. /\ \A n \in 1..Len(Observers) : Observers[n] \in ObserverSet
      /\ \A o \in ObserverSet : \E n \in 1..Len(Observers) : Observers[n] = o
  BY <1>3 DEF ObserverSet, ToSet
<1> QED
  BY <1>1, <1>2, <1>3, <1>4, <1>5

\* Every further call takes at most MaxDelay
LEMMA MoreCalls ==
    ASSUME NEW n \in Nat
    PROVE  Calls(n) \in Nat /\ Calls(n + 1) = Calls(n) + MaxDelay
BY Constant DEF Calls

\* Every further observation takes at most two calls
LEMMA MoreTurns ==
    ASSUME NEW n \in Nat
    PROVE  Turns(n) \in Nat /\ Turns(n + 1) = Turns(n) + 2 * MaxDelay
BY Constant DEF Turns

\* Observations that follow each other take the time of all of them
LEMMA SumOfTurns ==
    ASSUME NEW m \in Nat, NEW n \in Nat
    PROVE  Turns(m + n) = Turns(m) + Turns(n)
BY Constant DEF Turns

\* No observation takes no time
LEMMA NoTurns == Turns(0) = 0
BY Constant DEF Turns

\* The bounds on a round, on its last observation and on the injections
LEMMA RoundTimes ==
    /\ RoundTime \in Nat /\ RoundTime = Turns(Len(Observers))
    /\ LastTurn \in Nat /\ LastTurn = Turns(Len(Observers) - 1)
    /\ RoundTime = LastTurn + 2 * MaxDelay
    /\ InjectionTime \in Nat /\ InjectionTime = Calls(Len(Providers)) + MaxDelay
<1>1. Len(Observers) - 1 \in Nat /\ (Len(Observers) - 1) + 1 = Len(Observers)
  BY Listed
<1>2. RoundTime = Turns(Len(Observers))
  BY DEF RoundTime, Turns
<1>3. Turns(Len(Observers)) = Turns(Len(Observers) - 1) + 2 * MaxDelay
  BY <1>1, MoreTurns
<1>4. Turns(Len(Observers)) \in Nat /\ Turns(Len(Observers) - 1) \in Nat
  BY <1>1, Listed, MoreTurns
<1>5. InjectionTime = Calls(Len(Providers) + 1)
  BY DEF InjectionTime, Calls
<1>6. Calls(Len(Providers) + 1) = Calls(Len(Providers)) + MaxDelay /\ Calls(Len(Providers)) \in Nat
  BY Listed, MoreCalls
<1> QED
  BY <1>2, <1>3, <1>4, <1>5, <1>6, Constant DEF LastTurn

\* An observation before the last one of a round leaves time for the last one
LEMMA FewerTurns ==
    ASSUME NEW n \in 1..Len(Observers)
    PROVE  Turns(n - 1) \in Nat /\ Turns(n - 1) <= LastTurn
<1>1. n - 1 \in Nat /\ Len(Observers) - n \in Nat /\ (n - 1) + (Len(Observers) - n) = Len(Observers) - 1
  BY Listed
<1>2. Turns(Len(Observers) - 1) = Turns(n - 1) + Turns(Len(Observers) - n)
  BY <1>1, SumOfTurns
<1>3. Turns(n - 1) \in Nat /\ Turns(Len(Observers) - n) \in Nat
  BY <1>1, MoreTurns
<1> QED
  BY <1>2, <1>3, RoundTimes

\* The round after a missed flight ends at a time
LEMMA RoundEndType ==
    ASSUME start = StartDelay, NEW k \in 1..Len(Observers)
    PROVE  RoundEnd(k) \in Nat
<1>1. Len(Observers) - k + 1 \in Nat
  BY Listed
<1>2. Turns(Len(Observers) - k + 1) \in Nat
  BY <1>1, MoreTurns
<1> QED
  BY <1>2, Constant DEF RoundEnd, Due

\* The loop of _poll_during_flights wakes up later, and by PollInterval at most
LEMMA NextPollBounds ==
    ASSUME now \in Nat, next \in Nat, next <= now
    PROVE  NextPoll \in Nat /\ NextPoll > now /\ NextPoll <= now + PollInterval
<1> DEFINE q == (now - next) \div PollInterval
<1>1. now - next \in Nat
  OBVIOUS
<1>2. q \in Nat /\ PollInterval * q <= now - next /\ now - next < PollInterval * q + PollInterval
  BY <1>1, Constant
<1>3. PollInterval * (1 + q) = PollInterval + PollInterval * q /\ PollInterval * q \in Nat
  BY <1>2, Constant
<1> HIDE DEF q
<1>4. next + PollInterval * (1 + q) > now /\ next + PollInterval * (1 + q) <= now + PollInterval
  BY <1>1, <1>2, <1>3, Constant
<1> QED
  BY <1>3, <1>4, Constant DEF NextPoll, q

(***************************************************************************)
(* Positions: those of the tracks are bounded, so views have bounds        *)
(***************************************************************************)

\* A set of naturals that is not empty has a least element
LEMMA LeastNatural ==
    ASSUME NEW S \in SUBSET Nat, S # {}
    PROVE  \E n \in S : \A m \in S : n <= m
<1> DEFINE R == OpToRel(<, Nat)
<1>1. IsWellFoundedOn(OpToRel(<, Nat), Nat)
  BY NatLessThanWellFounded
<1>2. \A m, n \in Nat : m < n => <<m, n>> \in R
  BY DEF OpToRel
<1> HIDE DEF R
<1>3. IsWellFoundedOn(R, Nat)
  BY <1>1 DEF R
<1>4. PICK n \in S : \A m \in S : ~(<<m, n>> \in R)
  BY <1>3, WFMin
<1>5. ASSUME NEW m \in S PROVE n <= m
  <2>1. m \in Nat /\ n \in Nat
    OBVIOUS
  <2>2. ~(m < n)
    BY <1>2, <1>4, <2>1
  <2> QED
    BY <2>1, <2>2
<1> QED
  BY <1>5

\* Positions that lie between two bounds have a first and a last
LEMMA Extremes ==
    ASSUME NEW S \in SUBSET Int, S # {}, NEW lo \in Int, NEW hi \in Int,
           \A x \in S : lo <= x /\ x <= hi
    PROVE  /\ Min(S) \in S /\ \A x \in S : Min(S) <= x
           /\ Max(S) \in S /\ \A x \in S : x <= Max(S)
<1> DEFINE Up == {x - lo : x \in S}
           Down == {hi - x : x \in S}
<1>1. Up \in SUBSET Nat /\ Up # {}
  <2>1. \A x \in S : x - lo \in Nat
    OBVIOUS
  <2> QED
    BY <2>1
<1>2. Down \in SUBSET Nat /\ Down # {}
  <2>1. \A x \in S : hi - x \in Nat
    OBVIOUS
  <2> QED
    BY <2>1
<1>3. PICK m \in Up : \A n \in Up : m <= n
  BY <1>1, LeastNatural
<1>4. PICK x \in S : m = x - lo
  BY <1>3
<1>5. ASSUME NEW y \in S PROVE x <= y
  <2>1. y - lo \in Up
    OBVIOUS
  <2>2. x - lo <= y - lo
    BY <1>3, <1>4, <2>1
  <2>3. x \in Int /\ y \in Int
    BY <1>4
  <2> QED
    BY <2>2, <2>3
<1>6. PICK k \in Down : \A n \in Down : k <= n
  BY <1>2, LeastNatural
<1>7. PICK z \in S : k = hi - z
  BY <1>6
<1>8. ASSUME NEW y \in S PROVE y <= z
  <2>1. hi - y \in Down
    OBVIOUS
  <2>2. hi - z <= hi - y
    BY <1>6, <1>7, <2>1
  <2>3. z \in Int /\ y \in Int
    BY <1>7
  <2> QED
    BY <2>2, <2>3
<1>9. Min(S) \in S /\ \A y \in S : Min(S) <= y
  BY <1>4, <1>5 DEF Min
<1>10. Max(S) \in S /\ \A y \in S : Max(S) >= y
  <2>1. \A y \in S : z >= y
    BY <1>7, <1>8
  <2> QED
    BY <1>7, <2>1 DEF Max
<1> QED
  BY <1>9, <1>10

\* Finitely many positions lie between two bounds
LEMMA Bounded ==
    ASSUME NEW n \in Nat, NEW f \in [1..n -> Int]
    PROVE  \E lo, hi \in Int : \A i \in 1..n : lo <= f[i] /\ f[i] <= hi
<1> DEFINE Unbounded == {k \in 0..n : ~ \E lo, hi \in Int : \A i \in 1..k : lo <= f[i] /\ f[i] <= hi}
<1>1. SUFFICES ASSUME Unbounded # {} PROVE FALSE
  BY n \in 0..n
<1>2. Unbounded \in SUBSET Nat
  OBVIOUS
<1>3. PICK k \in Unbounded : \A m \in Unbounded : k <= m
  BY <1>1, <1>2, LeastNatural
<1>4. k # 0
  <2>1. \A i \in 1..0 : 0 <= f[i] /\ f[i] <= 0
    OBVIOUS
  <2> QED
    BY <2>1, <1>3
<1>5. k - 1 \in 0..n /\ k - 1 \notin Unbounded
  <2>1. k \in Nat /\ k <= n
    BY <1>3
  <2>2. k - 1 \in Unbounded => k <= k - 1
    BY <1>3
  <2> HIDE DEF Unbounded
  <2> QED
    BY <2>1, <2>2, <1>4
<1>6. PICK lo \in Int, hi \in Int : \A i \in 1..(k - 1) : lo <= f[i] /\ f[i] <= hi
  BY <1>5
<1>7. k \in 1..n /\ f[k] \in Int
  BY <1>3, <1>4
<1> HIDE DEF Unbounded
<1>8. PICK low \in Int : low <= lo /\ low <= f[k]
  <2>1. CASE lo <= f[k]
    BY <2>1
  <2>2. CASE f[k] <= lo
    BY <2>2, <1>7
  <2> QED
    BY <1>7, <2>1, <2>2
<1>9. PICK high \in Int : hi <= high /\ f[k] <= high
  <2>1. CASE f[k] <= hi
    BY <2>1
  <2>2. CASE hi <= f[k]
    BY <2>2, <1>7
  <2> QED
    BY <1>7, <2>1, <2>2
<1>10. ASSUME NEW i \in 1..k PROVE low <= f[i] /\ f[i] <= high
  <2>1. CASE i = k
    BY <2>1, <1>7, <1>8, <1>9
  <2>2. CASE i # k
    <3>1. i \in 1..(k - 1) /\ i \in 1..n
      BY <2>2, <1>7
    <3>2. f[i] \in Int /\ lo <= f[i] /\ f[i] <= hi
      BY <3>1, <1>6
    <3> QED
      BY <3>2, <1>8, <1>9
  <2> QED
    BY <2>1, <2>2
<1> QED
  BY <1>3, <1>10 DEF Unbounded

\* The telemetry of a flight is a sequence of positions, and there is some
LEMMA TrackType ==
    ASSUME track \in Tracks, NEW p \in ProviderSet
    PROVE  /\ Len(track[p]) \in Nat /\ Len(track[p]) > 0
           /\ track[p] \in [1..Len(track[p]) -> Int]
           /\ Positions(p) \in SUBSET Int /\ Positions(p) # {}
           /\ \A n \in 1..Len(track[p]) : track[p][n] \in Positions(p)
<1>1. track[p] \in Seq(Int) /\ Len(track[p]) > 0
  BY ConstantsAssumption
<1>2. Len(track[p]) \in Nat /\ track[p] \in [1..Len(track[p]) -> Int] /\ DOMAIN track[p] = 1..Len(track[p])
  BY <1>1
<1>3. 1 \in 1..Len(track[p])
  BY <1>1, <1>2
<1> QED
  BY <1>1, <1>2, <1>3 DEF Positions, ToSet

\* What is between two times are positions of the flight
LEMMA BetweenPositions ==
    ASSUME track \in Tracks, NEW p \in ProviderSet, NEW t0, NEW t1
    PROVE  Between(p, t0, t1) \subseteq Positions(p)
BY TrackType DEF Between

\* A flight has a position at every time from its first to its last
LEMMA PositionAt ==
    ASSUME track \in Tracks, start \in Nat, NEW p \in ProviderSet,
           NEW t \in Int, FirstTime(p) <= t, t <= LastTime(p)
    PROVE  \E x \in Positions(p) : \A a, b \in Int : a <= t /\ t <= b => x \in Between(p, a, b)
<1> DEFINE n == t - start + 1
<1>1. Len(track[p]) \in Nat
  BY TrackType
<1>2. n \in 1..Len(track[p]) /\ start + n - 1 = t
  BY <1>1 DEF FirstTime, LastTime
<1>3. track[p][n] \in Positions(p)
  BY <1>2, TrackType
<1>4. ASSUME NEW a \in Int, NEW b \in Int, a <= t, t <= b
      PROVE  track[p][n] \in Between(p, a, b)
  <2>1. start + n - 1 \in a..b
    BY <1>2, <1>4
  <2> HIDE DEF n
  <2> QED
    BY <1>2, <2>1 DEF Between
<1> QED
  BY <1>3, <1>4

\* The last time of a flight is not before its first
LEMMA Times ==
    ASSUME track \in Tracks, start = StartDelay, NEW p \in ProviderSet
    PROVE  /\ FirstTime(p) = start /\ start \in Nat
           /\ LastTime(p) \in Nat /\ FirstTime(p) <= LastTime(p)
BY TrackType, Constant DEF FirstTime, LastTime

\* All positions of all flights lie between two bounds
LEMMA TrackBounds ==
    ASSUME track \in Tracks
    PROVE  \E lo, hi \in Int : \A p \in ProviderSet : \A x \in Positions(p) : lo <= x /\ x <= hi
<1> DEFINE Lowest(p) == CHOOSE lo \in Int : \A x \in Positions(p) : lo <= x
           Highest(p) == CHOOSE hi \in Int : \A x \in Positions(p) : x <= hi
           L == [n \in 1..Len(Providers) |-> Lowest(Providers[n])]
           H == [n \in 1..Len(Providers) |-> Highest(Providers[n])]
<1>1. ASSUME NEW p \in ProviderSet
      PROVE  /\ Lowest(p) \in Int /\ \A x \in Positions(p) : Lowest(p) <= x
             /\ Highest(p) \in Int /\ \A x \in Positions(p) : x <= Highest(p)
  <2>1. PICK lo \in Int, hi \in Int : \A n \in 1..Len(track[p]) : lo <= track[p][n] /\ track[p][n] <= hi
    BY TrackType, Bounded
  <2>2. \A x \in Positions(p) : \E n \in 1..Len(track[p]) : x = track[p][n]
    <3>1. DOMAIN track[p] = 1..Len(track[p])
      BY TrackType
    <3> QED
      BY <3>1 DEF Positions, ToSet
  <2>3. \A x \in Positions(p) : lo <= x /\ x <= hi
    BY <2>1, <2>2
  <2> QED
    BY <2>3
<1> HIDE DEF Lowest, Highest
<1>2. L \in [1..Len(Providers) -> Int] /\ H \in [1..Len(Providers) -> Int] /\ Len(Providers) \in Nat
  BY <1>1, Listed
<1>3. PICK lo \in Int, lo2 \in Int : \A n \in 1..Len(Providers) : lo <= L[n] /\ L[n] <= lo2
  BY <1>2, Bounded
<1>4. PICK hi2 \in Int, hi \in Int : \A n \in 1..Len(Providers) : hi2 <= H[n] /\ H[n] <= hi
  BY <1>2, Bounded
<1>5. ASSUME NEW p \in ProviderSet, NEW x \in Positions(p) PROVE lo <= x /\ x <= hi
  <2>1. PICK n \in 1..Len(Providers) : Providers[n] = p
    BY Listed
  <2>2. lo <= Lowest(p) /\ Highest(p) <= hi
    BY <1>3, <1>4, <2>1
  <2>3. Lowest(p) \in Int /\ Lowest(p) <= x /\ Highest(p) \in Int /\ x <= Highest(p) /\ x \in Int
    BY <1>1, TrackType
  <2> QED
    BY <2>2, <2>3
<1> QED
  BY <1>5

\* The bounds that Min and Max of positions give
LEMMA PositionExtremes ==
    ASSUME track \in Tracks, NEW S \in SUBSET Everywhere, S # {}
    PROVE  /\ S \in SUBSET Int
           /\ Min(S) \in S /\ \A x \in S : Min(S) <= x
           /\ Max(S) \in S /\ \A x \in S : x <= Max(S)
<1>1. PICK lo \in Int, hi \in Int : \A p \in ProviderSet : \A x \in Positions(p) : lo <= x /\ x <= hi
  BY TrackBounds
<1>2. ASSUME NEW x \in S PROVE x \in Int /\ lo <= x /\ x <= hi
  <2>1. PICK p \in ProviderSet : x \in Positions(p)
    BY DEF Everywhere
  <2> QED
    BY <2>1, <1>1, TrackType
<1>3. S \in SUBSET Int /\ \A x \in S : lo <= x /\ x <= hi
  BY <1>2
<1> QED
  BY <1>3, Extremes

\* The flights are compact when all their positions fit into a detailed view
LEMMA CompactBounds ==
    ASSUME track \in Tracks, Compact
    PROVE  /\ MinDiagonal + 1 <= DetailsDiagonal
           /\ \A x, y \in Everywhere : y - x <= DetailsDiagonal
<1> DEFINE a == MinDiagonal + 1
           b == Max(Everywhere) - Min(Everywhere)
<1>1. PICK p \in ProviderSet : TRUE
  BY Listed, 1 \in 1..Len(Providers)
<1>2. Everywhere # {}
  <2>1. PICK x \in Positions(p) : TRUE
    BY TrackType
  <2> QED
    BY <2>1 DEF Everywhere
<1>3. /\ Everywhere \in SUBSET Int
      /\ Min(Everywhere) \in Everywhere /\ \A x \in Everywhere : Min(Everywhere) <= x
      /\ Max(Everywhere) \in Everywhere /\ \A x \in Everywhere : x <= Max(Everywhere)
  BY <1>2, PositionExtremes
<1>4. a \in Int /\ b \in Int
  <2>1. Max(Everywhere) \in Int /\ Min(Everywhere) \in Int
    BY <1>3
  <2> QED
    BY <2>1, Constant
<1>5. Max({a, b}) <= DetailsDiagonal
  BY DEF Compact
<1> HIDE DEF a, b
<1>6. \E z \in {a, b} : \A y \in {a, b} : z >= y
  <2>1. CASE a >= b
    BY <2>1, <1>4
  <2>2. CASE b >= a
    BY <2>2, <1>4
  <2> QED
    BY <2>1, <2>2, <1>4
<1>7. Max({a, b}) \in {a, b} /\ \A y \in {a, b} : Max({a, b}) >= y
  BY <1>6 DEF Max
<1>8. a <= DetailsDiagonal /\ b <= DetailsDiagonal
  BY <1>4, <1>5, <1>7, Constant
<1>9. ASSUME NEW x \in Everywhere, NEW y \in Everywhere PROVE y - x <= DetailsDiagonal
  <2>1. /\ x \in Int /\ y \in Int /\ Min(Everywhere) \in Int /\ Max(Everywhere) \in Int
        /\ Min(Everywhere) <= x /\ y <= Max(Everywhere)
    BY <1>3
  <2>2. Max(Everywhere) - Min(Everywhere) <= DetailsDiagonal
    BY <1>8 DEF b
  <2> QED
    BY <2>1, <2>2, Constant
<1> QED
  BY <1>8, <1>9 DEF a

(***************************************************************************)
(* The centre of all positions is a position                               *)
(***************************************************************************)

\* FlattenSeq's function for the first of some sequences
Flattens(f, s, m) == f = [i \in 1..m |-> IF i = 1 THEN s[i] ELSE f[i - 1] \o s[i]]

\* There is such a function
LEMMA FlattenEnds ==
    ASSUME NEW s, NEW m \in Nat
    PROVE  \E f : Flattens(f, s, m)
<1> DEFINE Bad == {k \in Nat : ~\E f : Flattens(f, s, k)}
<1>1. SUFFICES ASSUME Bad # {} PROVE FALSE
  OBVIOUS
<1>2. PICK k \in Bad : \A j \in Bad : k <= j
  BY <1>1, LeastNatural
<1>3. k \in Nat /\ ~\E f : Flattens(f, s, k)
  OBVIOUS
<1>4. CASE k = 0
  <2>1. Flattens([i \in 1..0 |-> {}], s, 0)
    BY DEF Flattens
  <2> QED
    BY <1>3, <1>4, <2>1
<1>5. CASE k # 0
  <2>1. k - 1 \in Nat /\ ~(k <= k - 1)
    BY <1>3, <1>5
  <2>2. k - 1 \notin Bad
    BY <1>2, <2>1
  <2>3. PICK g : Flattens(g, s, k - 1)
    BY <2>1, <2>2
  <2> DEFINE f == [i \in 1..k |-> IF i < k THEN g[i] ELSE IF i = 1 THEN s[i] ELSE g[i - 1] \o s[i]]
  <2>4. ASSUME NEW i \in 1..k
        PROVE  f[i] = IF i = 1 THEN s[i] ELSE f[i - 1] \o s[i]
    <3>1. i # 1 => i - 1 \in 1..k /\ i - 1 < k
      BY <1>3
    <3>2. i # 1 => f[i - 1] = g[i - 1]
      BY <3>1
    <3>3. f[i] = IF i = 1 THEN s[i] ELSE g[i - 1] \o s[i]
      <4>1. CASE i < k
        <5>1. i \in 1..(k - 1) /\ f[i] = g[i]
          BY <1>3, <4>1
        <5> HIDE DEF f
        <5> QED
          BY <2>3, <5>1 DEF Flattens
      <4>2. CASE i = k
        BY <1>3, <4>2
      <4> QED
        BY <1>3, <4>1, <4>2
    <3> HIDE DEF f
    <3> QED
      BY <3>2, <3>3
  <2>5. f = [i \in 1..k |-> f[i]]
    OBVIOUS
  <2> HIDE DEF f
  <2>6. Flattens(f, s, k)
    BY <2>4, <2>5 DEF Flattens
  <2> QED
    BY <1>3, <2>6
<1> QED
  BY <1>4, <1>5

\* Tracks one after the other are a track
LEMMA FlattenTyped ==
    ASSUME NEW s, Len(s) \in Nat, Len(s) > 0,
           \A i \in 1..Len(s) : s[i] \in Seq(Int) /\ Len(s[i]) > 0
    PROVE  FlattenSeq(s) \in Seq(Int) /\ Len(FlattenSeq(s)) > 0
<1> DEFINE n == Len(s)
           f == CHOOSE g : Flattens(g, s, n)
<1>1. FlattenSeq(s) = f[n] /\ n \in 1..n
  BY DEF FlattenSeq, Flattens
<1>2. Flattens(f, s, n)
  BY FlattenEnds
<1> HIDE DEF f
<1> DEFINE Bad == {i \in 1..n : ~(f[i] \in Seq(Int) /\ Len(f[i]) > 0)}
<1>3. SUFFICES ASSUME Bad # {} PROVE FALSE
  BY <1>1
<1>4. PICK i \in Bad : \A j \in Bad : i <= j
  <2>1. Bad \in SUBSET Nat
    OBVIOUS
  <2> QED
    BY <1>3, <2>1, LeastNatural
<1>5. i \in 1..n /\ ~(f[i] \in Seq(Int) /\ Len(f[i]) > 0)
  OBVIOUS
<1>6. s[i] \in Seq(Int) /\ Len(s[i]) > 0
  BY <1>5
<1>7. f[i] = IF i = 1 THEN s[i] ELSE f[i - 1] \o s[i]
  BY <1>2, <1>5 DEF Flattens
<1>8. CASE i = 1
  BY <1>5, <1>6, <1>7, <1>8
<1>9. CASE i # 1
  <2>1. i - 1 \in 1..n /\ ~(i <= i - 1)
    BY <1>5, <1>9
  <2>2. PICK t \in Seq(Int) : t = f[i - 1] /\ Len(t) > 0
    BY <1>4, <2>1
  <2>3. PICK u \in Seq(Int) : u = s[i] /\ Len(u) > 0
    BY <1>6
  <2>4. t \o u \in Seq(Int) /\ Len(t \o u) = Len(t) + Len(u) /\ Len(t) \in Nat /\ Len(u) \in Nat
    OBVIOUS
  <2>5. Len(t \o u) > 0
    <3>1. PICK x \in Nat, y \in Nat : x = Len(t) /\ y = Len(u)
      BY <2>4
    <3>2. x > 0 /\ y > 0 /\ Len(t \o u) = x + y
      BY <2>2, <2>3, <2>4, <3>1
    <3> QED
      BY <3>2
  <2> QED
    BY <1>5, <1>7, <1>9, <2>2, <2>3, <2>4, <2>5
<1> QED
  BY <1>8, <1>9

\* The function that adds up the first of some positions
Adds(f, s, m) == f = [i \in 0..m |-> IF i = 0 THEN 0 ELSE f[i - 1] + s[i]]

\* There is such a function, of integers
LEMMA AddingEnds ==
    ASSUME NEW s, NEW m \in Nat
    PROVE  \E f : Adds(f, s, m)
<1> DEFINE Bad == {k \in Nat : ~\E f : Adds(f, s, k)}
<1>1. SUFFICES ASSUME Bad # {} PROVE FALSE
  OBVIOUS
<1>2. PICK k \in Bad : \A j \in Bad : k <= j
  BY <1>1, LeastNatural
<1>3. k \in Nat /\ ~\E f : Adds(f, s, k)
  OBVIOUS
<1>4. CASE k = 0
  <2> DEFINE f == [i \in 0..0 |-> 0]
  <2>1. \A i \in 0..0 : i = 0
    OBVIOUS
  <2>2. Adds(f, s, 0)
    BY <2>1 DEF Adds
  <2> QED
    BY <1>3, <1>4, <2>2
<1>5. CASE k # 0
  <2>1. k - 1 \in Nat /\ ~(k <= k - 1)
    BY <1>3, <1>5
  <2>2. k - 1 \notin Bad
    BY <1>2, <2>1
  <2>3. PICK g : Adds(g, s, k - 1)
    BY <2>1, <2>2
  <2> DEFINE f == [i \in 0..k |-> IF i < k THEN g[i] ELSE g[i - 1] + s[i]]
  <2>4. ASSUME NEW i \in 0..k
        PROVE  f[i] = IF i = 0 THEN 0 ELSE f[i - 1] + s[i]
    <3>1. i # 0 => i - 1 \in 0..k /\ i - 1 < k
      BY <1>3
    <3>2. i # 0 => f[i - 1] = g[i - 1]
      BY <3>1
    <3>3. f[i] = IF i = 0 THEN 0 ELSE g[i - 1] + s[i]
      <4>1. CASE i < k
        <5>1. i \in 0..(k - 1) /\ f[i] = g[i]
          BY <1>3, <4>1
        <5> HIDE DEF f
        <5> QED
          BY <2>3, <5>1 DEF Adds
      <4>2. CASE i = k
        BY <1>3, <1>5, <4>2
      <4> QED
        BY <1>3, <4>1, <4>2
    <3> HIDE DEF f
    <3> QED
      BY <3>2, <3>3
  <2>5. f = [i \in 0..k |-> f[i]]
    OBVIOUS
  <2> HIDE DEF f
  <2>6. Adds(f, s, k)
    BY <2>4, <2>5 DEF Adds
  <2> QED
    BY <1>3, <2>6
<1> QED
  BY <1>4, <1>5

\* The sum of positions is an integer
LEMMA TotalTyped ==
    ASSUME NEW s \in Seq(Int)
    PROVE  Total(s) \in Int
<1> DEFINE n == Len(s)
           f == CHOOSE g : Adds(g, s, n)
<1>1. n \in Nat /\ n \in 0..n
  OBVIOUS
<1>2. Total(s) = f[n]
  BY DEF Total, Adds
<1>3. Adds(f, s, n)
  BY <1>1, AddingEnds
<1> HIDE DEF f
<1> DEFINE Bad == {i \in 0..n : f[i] \notin Int}
<1>4. SUFFICES ASSUME Bad # {} PROVE FALSE
  BY <1>1, <1>2
<1>5. PICK i \in Bad : \A j \in Bad : i <= j
  <2>1. Bad \in SUBSET Nat
    OBVIOUS
  <2> QED
    BY <1>4, <2>1, LeastNatural
<1>6. i \in 0..n /\ f[i] \notin Int
  OBVIOUS
<1>7. f[i] = IF i = 0 THEN 0 ELSE f[i - 1] + s[i]
  BY <1>3, <1>6 DEF Adds
<1>8. CASE i = 0
  BY <1>6, <1>7, <1>8
<1>9. CASE i # 0
  <2>1. i - 1 \in 0..n /\ ~(i <= i - 1) /\ i \in 1..n
    BY <1>6, <1>9
  <2>2. f[i - 1] \in Int
    BY <1>5, <2>1
  <2>3. s[i] \in Int
    BY <2>1
  <2> QED
    BY <1>6, <1>7, <1>9, <2>2, <2>3
<1> QED
  BY <1>8, <1>9

\* The centre that get_query_rect looks at before there is data
LEMMA CentreTyped ==
    ASSUME track \in Tracks, injected \in Seq(ProviderSet), injected # <<>>
    PROVE  Centre \in Int
<1> DEFINE s == [i \in DOMAIN injected |-> track[injected[i]]]
<1>1. DOMAIN injected = 1..Len(injected) /\ Len(injected) \in Nat /\ Len(injected) > 0
  OBVIOUS
<1>2. Len(s) = Len(injected)
  BY <1>1
<1>3. \A i \in 1..Len(injected) : s[i] \in Seq(Int) /\ Len(s[i]) > 0
  <2>1. \A i \in 1..Len(injected) : injected[i] \in ProviderSet
    BY <1>1
  <2>2. \A i \in 1..Len(injected) : s[i] = track[injected[i]]
    BY <1>1
  <2> HIDE DEF s
  <2> QED
    BY <2>1, <2>2, ConstantsAssumption
<1> HIDE DEF s
<1>4. FlattenSeq(s) \in Seq(Int) /\ Len(FlattenSeq(s)) > 0
  BY <1>1, <1>2, <1>3, FlattenTyped
<1>5. Telemetry \in Seq(Int) /\ Len(Telemetry) > 0
  BY <1>4 DEF Telemetry, s
<1>6. Total(Telemetry) \in Int /\ Len(Telemetry) \in Nat
  BY <1>5, TotalTyped
<1>7. \A a \in Int, b \in Nat : b > 0 => a \div b \in Int
  OBVIOUS
<1> QED
  BY <1>5, <1>6, <1>7 DEF Centre

-----------------------------------------------------------------------------
\* get_query_rect gives a view of everything that may be visible, which is
\* not above the limit for details when all positions fit into one below it
LEMMA QueryRect ==
    ASSUME track \in Tracks, injected \in Seq(ProviderSet), Flights = ProviderSet
    PROVE  /\ get_query_rect \in View
           /\ Covers(get_query_rect, now)
           /\ Compact => Detailed(get_query_rect)
<1> DEFINE points == UNION {Between(p, now - (Realtime + Latency), now) : p \in Flights}
           short == MinDiagonal - Diagonal(Bounds)
           more == IF short <= 0 THEN 0 ELSE (short + 1) \div 2
<1>1. points \in SUBSET Everywhere
  BY BetweenPositions DEF Everywhere
<1>2. /\ Bounds[1] \in Int /\ Bounds[2] \in Int
      /\ Bounds[1] <= Bounds[2]
      /\ \A x \in points : Bounds[1] <= x /\ x <= Bounds[2]
      /\ Compact => Bounds[2] - Bounds[1] <= DetailsDiagonal
  <2>1. CASE points = {}
    <3>1. Bounds = <<Centre, Centre>>
      BY <2>1 DEF Bounds
    <3>2. ProviderSet # {}
      BY Listed, 1 \in 1..Len(Providers)
    <3>3. injected # <<>>
      BY <3>2 DEF Flights, ToSet
    <3>4. Centre \in Int
      BY <3>3, CentreTyped
    <3> HIDE DEF points
    <3> QED
      BY <2>1, <3>1, <3>4, Constant
  <2>2. CASE points # {}
    <3>1. Bounds = <<Min(points), Max(points)>>
      BY <2>2 DEF Bounds
    <3> HIDE DEF points
    <3>2. /\ points \in SUBSET Int
          /\ Min(points) \in points /\ \A x \in points : Min(points) <= x
          /\ Max(points) \in points /\ \A x \in points : x <= Max(points)
      BY <1>1, <2>2, PositionExtremes
    <3>3. Bounds[1] = Min(points) /\ Bounds[2] = Max(points)
      BY <3>1
    <3>4. Compact => Max(points) - Min(points) <= DetailsDiagonal
      BY <1>1, <3>2, CompactBounds
    <3> QED
      BY <3>2, <3>3, <3>4
  <2> QED
    BY <2>1, <2>2
<1>3. get_query_rect = <<Bounds[1] - more, Bounds[2] + more>>
  BY DEF get_query_rect
<1>4. short \in Int /\ short = MinDiagonal - (Bounds[2] - Bounds[1])
  BY <1>2, Constant DEF Diagonal
<1>5. more \in Nat /\ (more = 0 \/ 2 * more <= short + 1)
  <2> HIDE DEF short
  <2>1. CASE short <= 0
    BY <2>1, <1>4
  <2>2. CASE ~(short <= 0)
    BY <2>2, <1>4
  <2> QED
    BY <2>1, <2>2
<1> HIDE DEF more, short
<1>6. get_query_rect[1] = Bounds[1] - more /\ get_query_rect[2] = Bounds[2] + more
  BY <1>3
<1>7. get_query_rect \in View
  BY <1>2, <1>3, <1>5 DEF View
<1>8. ASSUME NEW p \in ProviderSet, NEW x \in Between(p, now - (Realtime + Latency), now)
      PROVE  Inside(x, get_query_rect)
  <2>1. x \in points
    OBVIOUS
  <2>2. x \in Int
    BY <2>1, <1>1, BetweenPositions, TrackType
  <2>3. Bounds[1] <= x /\ x <= Bounds[2]
    BY <2>1, <1>2
  <2> HIDE DEF points
  <2> QED
    BY <2>2, <2>3, <1>2, <1>5, <1>6 DEF Inside
<1>9. ASSUME Compact PROVE Detailed(get_query_rect)
  <2> HIDE DEF points
  <2>1. Diagonal(get_query_rect) = (Bounds[2] - Bounds[1]) + 2 * more
    BY <1>2, <1>5, <1>6 DEF Diagonal
  <2>2. Bounds[2] - Bounds[1] <= DetailsDiagonal /\ MinDiagonal + 1 <= DetailsDiagonal
    BY <1>2, <1>9, CompactBounds
  <2>3. (Bounds[2] - Bounds[1]) + 2 * more <= DetailsDiagonal
    BY <2>2, <1>2, <1>4, <1>5, Constant
  <2> QED
    BY <2>1, <2>3 DEF Detailed
<1> QED
  BY <1>7, <1>8, <1>9 DEF Covers

-----------------------------------------------------------------------------
(***************************************************************************)
(* The invariant holds in every step                                       *)
(***************************************************************************)

\* An observation is a record of what the scenario asks and is answered
LEMMA ObservationFields ==
    ASSUME NEW o \in Observation
    PROVE  /\ o.end \in Int /\ o.rect \in View /\ o.initiated \in Nat /\ o.code \in {0, 200, 412, 413}
           /\ o.asks \in SUBSET ProviderSet /\ o.shown \in SUBSET ProviderSet
           /\ o = [end |-> o.end, rect |-> o.rect, initiated |-> o.initiated,
                   asks |-> o.asks, shown |-> o.shown, code |-> o.code]
BY DEF Observation

\* The scenario begins with the first injection, with nothing served or seen
LEMMA InitIInv == Init => IInv
<1> SUFFICES ASSUME Init PROVE IInv
  OBVIOUS
<1> USE DEF Init
<1>1. TypeInv
  <2>1. isas \in [ProviderSet -> {None} \cup [from : Int, to : Int]]
    OBVIOUS
  <2>2. obs \in Observation
    BY DEF NoObservation, Observation, View
  <2>3. start = StartDelay
    BY Constant DEF get_test_flights
  <2>4. injected \in Seq(ProviderSet)
    OBVIOUS
  <2>5. error \in BOOLEAN
    OBVIOUS
  <2>6. now <= limit
    BY Constant
  <2> QED
    BY <2>1, <2>2, <2>3, <2>4, <2>5, <2>6, Constant DEF TypeInv, Scenario
<1>2. Served
  BY Listed DEF Served, Polling, Flights, ToSet
<1>3. Clocks
  <2>1. Calls(1) = MaxDelay
    BY Constant DEF Calls
  <2> QED
    BY <2>1, Constant DEF Clocks, Observing
<1>4. Rectangle /\ End /\ Answer /\ FindingsJustified
  BY DEF Rectangle, End, Answer, FindingsJustified, Observing, Polling
<1>5. Awaited
  BY DEF Awaited, Overdue, Observing
<1> QED
  BY <1>1, <1>2, <1>3, <1>4, <1>5 DEF IInv

\* A step that changes nothing keeps the invariant
LEMMA StutteringKeepsIInv ==
    ASSUME IInv, UNCHANGED vars
    PROVE  IInv'
<1> USE DEF IInv, vars, setup, network, report
<1>1. TypeInv'
  BY DEF TypeInv
<1>2. Served' /\ Clocks'
  BY DEF Served, Clocks, Flights, IsaOf, FirstTime, LastTime
<1>3. Rectangle' /\ End'
  BY DEF Rectangle, End, Covers, Between, LastTime
<1>4. Answer' /\ FindingsJustified'
  BY DEF Answer, FindingsJustified, Working, ShouldBeObserved, FirstTime, LastTime
<1>5. Awaited'
  BY DEF Awaited, Unblamed, Overdue, SoonAfter, RoundEnd, Due, Compact, Everywhere, Positions, Frequent
<1> QED
  BY <1>1, <1>2, <1>3, <1>4, <1>5

\* The clock ticks while a call is under way, or the loop sleeps
LEMMA TickKeepsIInv ==
    ASSUME IInv, Tick
    PROVE  IInv'
<1> USE DEF IInv, setup, network, report
<1>0. UNCHANGED <<limit, track, start, hidden, isas, tests, pc, turn, injected, obs, next,
                  findings, error, observed, faults>>
  BY DEF Tick
<1>1. now \in Nat /\ limit \in Nat /\ now < limit /\ now' = now + 1
  BY DEF Tick, TypeInv
<1>2. pc \notin {"loop", "wait"}
  BY <1>1 DEF Clocks
<1>3. TypeInv'
  BY <1>0, <1>1 DEF TypeInv
<1>4. Served'
  BY <1>0 DEF Served, Flights, IsaOf, FirstTime, LastTime
<1>5. Clocks'
  <2>1. obs.initiated \in Nat /\ next \in Nat
    BY DEF TypeInv, Observation
  <2> QED
    BY <1>0, <1>1, <1>2, <2>1, Constant DEF Clocks
<1>6. Rectangle'
  <2>1. 0..now \subseteq 0..now'
    BY <1>1
  <2> QED
    BY <1>0, <2>1 DEF Rectangle, Covers, Between
<1>7. End' /\ FindingsJustified'
  BY <1>0 DEF End, FindingsJustified, LastTime
<1>8. Answer'
  <2>1. \A p \in ProviderSet : LastTime(p)' = LastTime(p) /\ FirstTime(p)' = FirstTime(p)
                               /\ ShouldBeObserved(p)' = ShouldBeObserved(p)
    BY <1>0 DEF ShouldBeObserved, FirstTime, LastTime
  <2>2. \A p \in ProviderSet : LastTime(p) \in Nat /\ FirstTime(p) \in Nat
    BY Times DEF TypeInv
  <2> QED
    BY <1>0, <1>1, <2>1, <2>2, Constant DEF Answer, Working
<1>9. Awaited'
  BY <1>0, <1>2 DEF Awaited, Unblamed, Overdue, SoonAfter, RoundEnd, Due, Compact, Everywhere, Positions, Frequent
<1> QED
  BY <1>3, <1>4, <1>5, <1>6, <1>7, <1>8, <1>9

\* A call that fails is a failed check or an error, and nothing is claimed of a
\* system in which one fails
LEMMA FaultBlamed ==
    ASSUME IInv, Fault
    PROVE  faults' \in Nat /\ ~Working' /\ FindingsJustified' /\ Answer'
<1>1. faults' \in Nat /\ faults' # 0
  BY DEF IInv, TypeInv, Fault
<1>2. ~Working'
  BY <1>1 DEF Working
<1> QED
  BY <1>1, <1>2 DEF FindingsJustified, Answer

\* A test is created with the provider whose turn it is, or the scenario goes
\* on with its cleanup
LEMMA InjectKeepsIInv ==
    ASSUME IInv, NEW p \in ProviderSet, Inject(p)
    PROVE  IInv'
<1> USE DEF IInv, setup, network
<1>0. UNCHANGED <<now, track, start, hidden, obs, next, error, observed>> /\ pc = "inject" /\ Providers[turn] = p
  BY DEF Inject
<1>1. now \in Nat /\ limit \in Nat /\ now <= limit /\ turn \in 1..Len(Providers)
  BY <1>0 DEF TypeInv, Served
<1>2. LastTime(p) \in Nat /\ FirstTime(p) \in Nat
  BY Times DEF TypeInv
<1>3. CASE /\ NoFault
           /\ create_test(p)
           /\ injected' = Append(injected, p)
           /\ IF turn < Len(Providers) THEN turn' = turn + 1 /\ Call("inject")
              ELSE turn' = 0 /\ Call("poll")
           /\ UNCHANGED findings
  <2>0. /\ pc' = (IF turn < Len(Providers) THEN "inject" ELSE "poll") /\ limit' = now + MaxDelay
        /\ turn' = (IF turn < Len(Providers) THEN turn + 1 ELSE 0)
        /\ faults' = faults
    BY <1>3 DEF Call, NoFault
  <2>1. isas' = [isas EXCEPT ![p] = IsaOf(p)] /\ tests' = tests \cup {p}
    BY <1>3 DEF create_test, put_isa
  <2>2. IsaOf(p) \in [from : Int, to : Int]
    BY <1>2, Constant DEF IsaOf
  <2>3. injected' \in Seq(ProviderSet) /\ Flights' = Flights \cup {p}
    <3>1. injected \in Seq(ProviderSet) /\ injected' = Append(injected, p)
      BY <1>3 DEF TypeInv
    <3>2. injected' \in Seq(ProviderSet) /\ Len(injected') = Len(injected) + 1
          /\ DOMAIN injected = 1..Len(injected) /\ DOMAIN injected' = 1..Len(injected')
          /\ injected'[Len(injected) + 1] = p /\ Len(injected) \in Nat
          /\ \A n \in 1..Len(injected) : injected'[n] = injected[n]
      BY <3>1
    <3>3. \A n \in DOMAIN injected' : n \in DOMAIN injected \/ n = Len(injected) + 1
      BY <3>2
    <3>4. DOMAIN injected \subseteq DOMAIN injected' /\ Len(injected) + 1 \in DOMAIN injected'
      BY <3>2
    <3> QED
      BY <3>2, <3>3, <3>4 DEF Flights, ToSet
  <2>4. TypeInv'
    BY <1>0, <1>1, <1>3, <2>0, <2>1, <2>2, <2>3, Constant DEF TypeInv, Scenario
  <2>5. \A n \in 1..turn : Providers[n] \in Flights'
    <3>1. \A n \in 1..turn : n \in 1..(turn - 1) \/ n = turn
      BY <1>1
    <3> QED
      BY <3>1, <1>0, <2>3 DEF Served
  <2>6. pc' = "inject" => turn' \in 1..Len(Providers) /\ \A n \in 1..(turn' - 1) : Providers[n] \in Flights'
    BY <1>1, <2>0, <2>5, Listed
  <2>7. pc' \in Polling => Flights' = ProviderSet
    <3>1. pc' \in Polling => turn = Len(Providers)
      BY <1>1, <2>0, Listed DEF Polling
    <3>2. Flights' \subseteq ProviderSet
      BY <2>3 DEF Flights, ToSet
    <3> QED
      BY <3>1, <3>2, <2>5, Listed
  <2>8. \A q \in Flights' : isas'[q] = IsaOf(q)' /\ q \in tests'
    <3>1. \A q \in ProviderSet : IsaOf(q)' = IsaOf(q)
      BY <1>0 DEF IsaOf, FirstTime, LastTime
    <3>2. \A q \in Flights : isas[q] = IsaOf(q) /\ q \in tests /\ q \in ProviderSet
      BY <1>0 DEF Served, TypeInv, Flights, ToSet
    <3> QED
      BY <2>1, <2>3, <3>1, <3>2 DEF TypeInv
  <2>9. Served'
    BY <2>6, <2>7, <2>8 DEF Served
  <2>10. Clocks'
    <3>1. limit <= Calls(turn) /\ turn \in Nat
      BY <1>0, <1>1 DEF Clocks
    <3>2. Calls(turn + 1) = Calls(turn) + MaxDelay /\ Calls(turn) \in Nat
      BY <3>1, MoreCalls
    <3>3. limit' <= Calls(turn + 1)
      BY <1>1, <2>0, <3>1, <3>2, Constant
    <3>4. turn = Len(Providers) => limit' <= InjectionTime
      BY <3>2, <3>3, RoundTimes
    <3> QED
      BY <1>1, <2>0, <3>3, <3>4, Listed DEF Clocks, Observing, Calls
  <2>11. Rectangle' /\ End' /\ Answer'
    BY <2>0 DEF Rectangle, End, Answer, Observing, Polling
  <2>12. FindingsJustified'
    BY <1>0, <1>3, <2>0 DEF FindingsJustified, LastTime
  <2>13. Awaited'
    BY <2>0 DEF Awaited, Overdue, Observing
  <2> QED
    BY <2>4, <2>9, <2>10, <2>11, <2>12, <2>13
<1>4. CASE /\ Fault /\ findings' = findings \cup {Found("Successful injection", p)}
           /\ GoToCleanup /\ UNCHANGED injected
           /\ (create_test(p) \/ (put_isa(p) /\ UNCHANGED tests) \/ UNCHANGED <<isas, tests>>)
  <2>0. pc' = "cleanup" /\ limit' = now + MaxDelay /\ turn' = 0
    BY <1>4 DEF GoToCleanup, Call
  <2>1. isas' \in [ProviderSet -> {None} \cup [from : Int, to : Int]] /\ tests' \in SUBSET ProviderSet
    <3>1. IsaOf(p) \in [from : Int, to : Int]
      BY <1>2, Constant DEF IsaOf
    <3> QED
      BY <1>4, <3>1 DEF TypeInv, create_test, put_isa
  <2>2. Found("Successful injection", p) \in Finding
    BY <1>1 DEF Found, Finding, Checks
  <2>3. TypeInv'
    <3>1. faults' \in Nat
      BY <1>4, FaultBlamed
    <3>2. findings' \in SUBSET Finding
      BY <1>4, <2>2 DEF TypeInv
    <3>3. injected' = injected
      BY <1>4
    <3>4. limit' \in Nat /\ turn' \in Nat /\ now' <= limit'
      BY <1>0, <1>1, <2>0, Constant
    <3> QED
      BY <1>0, <1>1, <2>0, <2>1, <3>1, <3>2, <3>3, <3>4 DEF TypeInv, Scenario
  <2>4. Served' /\ Clocks' /\ Rectangle' /\ End'
    BY <2>0 DEF Served, Clocks, Rectangle, End, Observing, Polling
  <2>5. Awaited'
    BY <1>4 DEF Awaited, Unblamed
  <2> QED
    BY <2>3, <2>4, <2>5, <1>4, FaultBlamed
<1> QED
  BY <1>3, <1>4 DEF Inject

\* The end of the polling loop is late enough for every flight
LEMMA LastTimeOfInterest ==
    ASSUME IInv, pc = "poll"
    PROVE  /\ get_last_time_of_interest \in Int
           /\ \A p \in ProviderSet : LastTime(p) + Realtime + Latency <= get_last_time_of_interest
<1> DEFINE Ends == [n \in 1..Len(Providers) |-> LastTime(Providers[n])]
           S == {now} \cup {LastTime(p) : p \in Flights}
<1>1. Flights = ProviderSet /\ now \in Nat
  BY DEF IInv, TypeInv, Served, Polling
<1>2. \A p \in ProviderSet : LastTime(p) \in Nat
  BY Times DEF IInv, TypeInv
<1>3. Ends \in [1..Len(Providers) -> Int] /\ Len(Providers) \in Nat
  BY <1>2, Listed
<1>4. PICK lo \in Int, hi \in Int : \A n \in 1..Len(Providers) : lo <= Ends[n] /\ Ends[n] <= hi
  BY <1>3, Bounded
<1>5. \A p \in ProviderSet : lo <= LastTime(p) /\ LastTime(p) <= hi
  BY <1>4, Listed
<1>6. PICK low \in Int : low <= lo /\ low <= now
  BY <1>1, lo <= now \/ now <= lo
<1>7. PICK high \in Int : hi <= high /\ now <= high
  BY <1>1, hi <= now \/ now <= hi
<1>8. ASSUME NEW x \in S PROVE x \in Int /\ low <= x /\ x <= high
  <2>1. CASE x = now
    BY <2>1, <1>1, <1>6, <1>7
  <2>2. CASE \E p \in ProviderSet : x = LastTime(p)
    BY <2>2, <1>2, <1>5, <1>6, <1>7
  <2> QED
    BY <2>1, <2>2, <1>1
<1>9. S \in SUBSET Int /\ S # {} /\ \A p \in ProviderSet : LastTime(p) \in S
  BY <1>1, <1>8
<1> HIDE DEF S
<1>10. Max(S) \in S /\ \A x \in S : x <= Max(S)
  BY <1>8, <1>9, Extremes
<1>11. get_last_time_of_interest = Max(S) + Realtime + Latency
  BY DEF get_last_time_of_interest, S
<1>12. Max(S) \in Int /\ \A p \in ProviderSet : LastTime(p) <= Max(S)
  BY <1>9, <1>10
<1> QED
  BY <1>2, <1>11, <1>12, Constant

\* The loop begins when all flights have been injected
LEMMA BeginPollingKeepsIInv ==
    ASSUME IInv, BeginPolling
    PROVE  IInv'
<1> USE DEF IInv, setup, network, report
<1>0. /\ pc = "poll" /\ pc' = "loop" /\ turn' = 1 /\ limit' = now /\ next' = now
      /\ obs' = [obs EXCEPT !.end = get_last_time_of_interest]
      /\ UNCHANGED <<now, track, start, hidden, isas, tests, injected, findings, error, observed, faults>>
  BY DEF BeginPolling
<1>1. now \in Nat /\ now <= limit /\ limit <= InjectionTime /\ limit \in Nat
  BY <1>0 DEF TypeInv, Clocks
<1>2. obs' \in Observation /\ obs'.end = get_last_time_of_interest
  <2>1. obs \in Observation /\ get_last_time_of_interest \in Int
    BY <1>0, LastTimeOfInterest DEF TypeInv
  <2> QED
    BY <1>0, <2>1 DEF Observation
<1>3. TypeInv'
  BY <1>0, <1>1, <1>2 DEF TypeInv, Scenario
<1>4. Served'
  BY <1>0 DEF Served, Flights, Polling, IsaOf, FirstTime, LastTime
<1>5. Clocks'
  BY <1>0, <1>1 DEF Clocks, Observing
<1>6. End'
  <2>1. \A p \in ProviderSet : LastTime(p)' = LastTime(p)
    BY <1>0 DEF LastTime
  <2> QED
    BY <1>0, <1>2, <2>1, LastTimeOfInterest DEF End
<1>7. Rectangle' /\ Answer'
  BY <1>0 DEF Rectangle, Answer, Observing
<1>8. FindingsJustified'
  BY <1>0 DEF FindingsJustified, LastTime
<1>9. Awaited'
  <2>1. now' <= InjectionTime + Turns(0)
    BY <1>0, <1>1, NoTurns, RoundTimes
  <2>2. \A k \in 1..Len(Observers) : Overdue(k)'
    BY <1>0, <2>1 DEF Overdue, SoonAfter, Observing
  <2> QED
    BY <1>0, <2>2 DEF Awaited, Observing
<1> QED
  BY <1>3, <1>4, <1>5, <1>6, <1>7, <1>8, <1>9

\* An observation that begins soon after the last one that was too early
\* begins while the flight has to be seen, and ends before it has to be gone
LEMMA InTime ==
    ASSUME track \in Tracks, start = StartDelay, Frequent, NEW p \in ProviderSet,
           NEW k \in 1..Len(Observers), NEW n \in 0..(k - 1), NEW t \in Nat, SoonAfter(t, k, n)
    PROVE  t < LastTime(p) + Realtime /\ t + 2 * MaxDelay <= LastTime(p) + Realtime + Latency
<1> DEFINE seen == Len(track[p]) - 1 + Realtime
           N == Len(Observers)
<1>1. /\ RoundTime + PollInterval < seen - Latency
      /\ RoundTime + PollInterval + 2 * MaxDelay <= seen
      /\ InjectionTime + RoundTime < StartDelay + seen
  BY DEF Frequent
<1>2. LastTime(p) + Realtime = start + seen /\ seen \in Nat /\ LastTime(p) \in Nat /\ start \in Nat
  <2>1. Len(track[p]) \in Nat /\ Len(track[p]) > 0
    BY TrackType
  <2> QED
    BY <2>1, Constant DEF LastTime
<1>3. N \in Nat /\ N - k \in Nat /\ n \in Nat /\ k - 1 - n \in Nat /\ N - k + 1 \in Nat
      /\ (N - k + 1) + n \in Nat
  BY Listed
<1>4. RoundTime = Turns(N - k + 1) + Turns(n) + Turns(k - 1 - n)
  <2>1. ((N - k + 1) + n) + (k - 1 - n) = N
    BY <1>3
  <2>2. Turns(N) = Turns((N - k + 1) + n) + Turns(k - 1 - n)
    BY <1>3, <2>1, SumOfTurns
  <2>3. Turns((N - k + 1) + n) = Turns(N - k + 1) + Turns(n)
    BY <1>3, SumOfTurns
  <2> QED
    BY <2>2, <2>3, RoundTimes
<1>5. Turns(N - k + 1) \in Nat /\ Turns(n) \in Nat /\ Turns(k - 1 - n) \in Nat
  BY <1>3, MoreTurns
<1>6. n + 1 \in Nat /\ N - (n + 1) \in Nat /\ (n + 1) + (N - (n + 1)) = N
  BY <1>3
<1>7. RoundTime = Turns(n) + 2 * MaxDelay + Turns(N - (n + 1)) /\ Turns(N - (n + 1)) \in Nat
  <2>1. Turns(N) = Turns(n + 1) + Turns(N - (n + 1)) /\ Turns(n + 1) = Turns(n) + 2 * MaxDelay
    BY <1>3, <1>6, SumOfTurns, MoreTurns
  <2>2. Turns(N - (n + 1)) \in Nat
    BY <1>6, MoreTurns
  <2> QED
    BY <2>1, <2>2, RoundTimes
<1>8. RoundTime \in Nat /\ InjectionTime \in Nat
  BY RoundTimes
<1> HIDE DEF N, seen
<1>9. CASE t <= RoundEnd(k) + PollInterval + Turns(n)
  <2>1. t <= start + Latency + Turns(N - k + 1) + PollInterval + Turns(n)
    BY <1>9 DEF RoundEnd, Due, N
  <2>2. t <= start + Latency + RoundTime + PollInterval
    <3>1. Turns(N - k + 1) + Turns(n) <= RoundTime
      BY <1>4, <1>5
    <3>2. PICK x \in Nat, y \in Nat : x = Turns(N - k + 1) /\ y = Turns(n)
      BY <1>5
    <3>3. t <= start + Latency + x + PollInterval + y /\ x + y <= RoundTime /\ start \in Nat
      BY <2>1, <3>1, <3>2, <1>2
    <3> QED
      BY <3>3, <1>8, Constant
  <2>3. t < start + seen
    BY <2>2, <1>1, <1>2, <1>8, Constant
  <2>4. t + 2 * MaxDelay <= start + seen + Latency
    BY <2>2, <1>1, <1>2, <1>8, Constant
  <2> QED
    BY <2>3, <2>4, <1>2
<1>10. CASE t <= InjectionTime + Turns(n)
  <2>1. t + 2 * MaxDelay <= InjectionTime + RoundTime
    <3>1. Turns(n) + 2 * MaxDelay <= RoundTime
      BY <1>5, <1>7, Constant
    <3> QED
      BY <1>10, <1>5, <1>8, <3>1, Constant
  <2>2. t + 2 * MaxDelay < start + seen
    BY <2>1, <1>1, <1>2, <1>8, Constant
  <2>3. t < start + seen /\ t + 2 * MaxDelay <= start + seen + Latency
    BY <2>2, <1>2, Constant
  <2> QED
    BY <2>3, <1>2
<1> QED
  BY <1>9, <1>10 DEF SoonAfter

\* The loop ends only when it is past every time of interest
LEMMA PollKeepsIInv ==
    ASSUME IInv, Poll
    PROVE  IInv'
<1> USE DEF IInv, setup, network, report
<1>0. /\ pc = "loop"
      /\ UNCHANGED <<now, track, start, hidden, isas, tests, injected, next, findings, error, observed, faults>>
  BY DEF Poll
<1>1. /\ now \in Nat /\ limit = now /\ turn = 1 /\ next <= now /\ Flights = ProviderSet
      /\ track \in Tracks /\ start = StartDelay /\ next \in Nat
      /\ injected \in Seq(ProviderSet)
  BY <1>0 DEF TypeInv, Clocks, Served, Polling
<1>2. obs.end \in Int /\ \A p \in ProviderSet : LastTime(p) + Realtime + Latency <= obs.end
  BY <1>0 DEF TypeInv, Observation, End, Polling
<1>3. FindingsJustified'
  BY <1>0 DEF FindingsJustified, LastTime
<1>4. CASE now < obs.end
  <2>0. /\ pc' = "observe" /\ limit' = now + MaxDelay /\ turn' = turn
        /\ obs' = [obs EXCEPT !.rect = get_query_rect, !.initiated = now]
    BY <1>4 DEF Poll, Call
  <2>1. /\ obs' \in Observation /\ obs'.rect = get_query_rect /\ obs'.initiated = now
        /\ obs'.end = obs.end
    <3>1. obs \in Observation /\ get_query_rect \in View
      BY <1>1, QueryRect DEF TypeInv
    <3>2. obs' = [end |-> obs.end, rect |-> get_query_rect, initiated |-> now,
                  asks |-> obs.asks, shown |-> obs.shown, code |-> obs.code]
      BY <2>0, <3>1 DEF Observation
    <3>3. obs' \in Observation
      BY <1>1, <3>1, <3>2, ObservationFields DEF Observation
    <3> QED
      BY <3>2, <3>3
  <2>2. TypeInv'
    <3>1. limit' \in Nat /\ now <= limit'
      BY <1>1, <2>0, Constant
    <3> QED
      BY <1>0, <1>1, <2>0, <2>1, <3>1 DEF TypeInv, Scenario
  <2>3. Served'
    BY <1>0, <2>0 DEF Served, Flights, Polling, IsaOf, FirstTime, LastTime
  <2>4. Clocks'
    BY <1>0, <1>1, <2>0, <2>1, Constant, Listed DEF Clocks, Observing
  <2>5. Rectangle'
    <3>1. Covers(get_query_rect, now)
      BY <1>1, QueryRect
    <3>2. Covers(obs'.rect, now)
      BY <2>1, <3>1
    <3>3. now \in 0..now' /\ now <= obs'.initiated /\ obs'.initiated <= now + Turns(turn' - 1)
      BY <1>0, <1>1, <2>0, <2>1, NoTurns
    <3> QED
      BY <1>0, <3>2, <3>3 DEF Rectangle, Covers, Between
  <2>6. End'
    BY <1>0, <1>2, <2>1 DEF End, LastTime
  <2>7. Answer'
    BY <2>0 DEF Answer
  <2>8. Awaited'
    <3>1. Compact' = Compact /\ Frequent' = Frequent
      BY <1>0 DEF Compact, Frequent, Everywhere, Positions
    <3>2. Unblamed' => Detailed(obs'.rect)
      BY <1>1, <2>1, <3>1, QueryRect DEF Unblamed
    <3>3. ASSUME Unblamed', NEW k \in 1..Len(Observers), NEW p \in ProviderSet,
                 <<Observers[k], p>> \notin observed'
          PROVE  Overdue(k)'
      <4>1. SoonAfter(now, k, 0)
        BY <1>0, <3>1, <3>3 DEF Awaited, Unblamed, Overdue
      <4>2. turn' = 1 /\ turn' - 1 = 0 /\ ~(k < turn')
        BY <1>1, <2>0
      <4>3. SoonAfter(obs.initiated, k, turn - 1)'
        BY <1>0, <2>1, <4>1, <4>2 DEF SoonAfter, RoundEnd, Due
      <4> QED
        BY <2>0, <4>2, <4>3 DEF Overdue
    <3> QED
      BY <3>2, <3>3 DEF Awaited, Detailed, Diagonal
  <2> QED
    BY <1>3, <2>2, <2>3, <2>4, <2>5, <2>6, <2>7, <2>8
<1>5. CASE ~(now < obs.end)
  <2>0. pc' = "cleanup" /\ limit' = now + MaxDelay /\ turn' = 0 /\ obs' = obs
    BY <1>5 DEF Poll, GoToCleanup, Call
  <2>1. TypeInv'
    BY <1>0, <1>1, <2>0, Constant DEF TypeInv, Scenario
  <2>2. Served' /\ Clocks' /\ Rectangle' /\ End' /\ Answer'
    BY <2>0 DEF Served, Clocks, Rectangle, End, Answer, Observing, Polling
  <2>3. Awaited'
    <3>1. Compact' = Compact /\ Frequent' = Frequent
      BY <1>0 DEF Compact, Frequent, Everywhere, Positions
    <3>2. ASSUME Unblamed', NEW k \in 1..Len(Observers), NEW p \in ProviderSet,
                 <<Observers[k], p>> \notin observed'
          PROVE  FALSE
      <4>1. SoonAfter(now, k, 0) /\ Frequent
        BY <1>0, <3>1, <3>2 DEF Awaited, Unblamed, Overdue
      <4>2. 0 \in 0..(k - 1)
        OBVIOUS
      <4>3. now < LastTime(p) + Realtime
        BY <1>1, <4>1, <4>2, InTime
      <4>4. LastTime(p) \in Nat
        BY <1>1, Times
      <4> QED
        BY <1>1, <1>2, <1>5, <4>3, <4>4, Constant
    <3> QED
      BY <2>0, <3>2 DEF Awaited, Observing
  <2> QED
    BY <1>3, <2>1, <2>2, <2>3
<1> QED
  BY <1>4, <1>5

\* The loop sleeps until a time that is soon after the round, and ends
\* instead only when that is past every time of interest
LEMMA WaitKeepsIInv ==
    ASSUME IInv, Wait
    PROVE  IInv'
<1> USE DEF IInv, setup, network, report
<1>0. /\ pc = "wait" /\ next' = NextPoll
      /\ UNCHANGED <<now, track, start, hidden, isas, tests, injected, obs, findings, error, observed, faults>>
  BY DEF Wait
<1>1. /\ now \in Nat /\ next \in Nat /\ next <= now /\ turn \in Nat
      /\ track \in Tracks /\ start = StartDelay
  BY <1>0 DEF TypeInv, Clocks
<1>2. obs.end \in Int /\ \A p \in ProviderSet : LastTime(p) + Realtime + Latency <= obs.end
  BY <1>0 DEF TypeInv, Observation, End, Polling
<1>3. next' \in Nat /\ next' > now /\ next' <= now + PollInterval
  BY <1>0, <1>1, NextPollBounds
<1>4. FindingsJustified'
  BY <1>0 DEF FindingsJustified, LastTime
<1>5. Compact' = Compact /\ Frequent' = Frequent /\ (\A k \in 1..Len(Observers) : RoundEnd(k)' = RoundEnd(k))
  BY <1>0 DEF Compact, Frequent, Everywhere, Positions, RoundEnd, Due
<1>6. ASSUME Unblamed', NEW k \in 1..Len(Observers), NEW p \in ProviderSet,
             <<Observers[k], p>> \notin observed'
      PROVE  next' <= RoundEnd(k) + PollInterval /\ Frequent
  <2>1. now <= RoundEnd(k) /\ Frequent
    BY <1>0, <1>5, <1>6 DEF Awaited, Unblamed, Overdue
  <2>2. RoundEnd(k) \in Nat
    BY <1>1, RoundEndType
  <2> QED
    BY <1>1, <1>3, <2>1, <2>2, Constant
<1>7. CASE next' > obs.end
  <2>0. pc' = "cleanup" /\ limit' = now + MaxDelay /\ turn' = 0
    BY <1>7 DEF Wait, GoToCleanup, Call
  <2>1. TypeInv'
    BY <1>0, <1>1, <1>3, <2>0, Constant DEF TypeInv, Scenario
  <2>2. Served' /\ Clocks' /\ Rectangle' /\ End' /\ Answer'
    BY <2>0 DEF Served, Clocks, Rectangle, End, Answer, Observing, Polling
  <2>3. ASSUME Unblamed', NEW k \in 1..Len(Observers), NEW p \in ProviderSet,
               <<Observers[k], p>> \notin observed'
        PROVE  FALSE
    <3>1. next' <= RoundEnd(k) + PollInterval + Turns(0) /\ Frequent
      <4>1. next' <= RoundEnd(k) + PollInterval /\ Frequent
        BY <1>6, <2>3
      <4>2. RoundEnd(k) \in Nat
        BY <1>1, RoundEndType
      <4> QED
        BY <4>1, <4>2, NoTurns, Constant
    <3>2. 0 \in 0..(k - 1) /\ SoonAfter(next', k, 0)
      BY <3>1 DEF SoonAfter
    <3>3. next' < LastTime(p) + Realtime
      BY <1>1, <1>3, <3>1, <3>2, InTime
    <3>4. LastTime(p) \in Nat
      BY <1>1, Times
    <3> QED
      BY <1>2, <1>3, <1>7, <3>3, <3>4, Constant
  <2>4. Awaited'
    BY <2>0, <2>3 DEF Awaited, Observing
  <2> QED
    BY <1>4, <2>1, <2>2, <2>4
<1>8. CASE ~(next' > obs.end)
  <2>0. pc' = "asleep" /\ limit' = next' /\ turn' = turn
    BY <1>8 DEF Wait
  <2>1. TypeInv'
    BY <1>0, <1>1, <1>3, <2>0 DEF TypeInv, Scenario
  <2>2. Served'
    BY <1>0, <2>0 DEF Served, Flights, Polling, IsaOf, FirstTime, LastTime
  <2>3. Clocks' /\ Rectangle' /\ Answer'
    BY <2>0 DEF Clocks, Rectangle, Answer, Observing
  <2>4. End'
    BY <1>0, <1>2 DEF End, LastTime
  <2>5. ASSUME Unblamed', NEW k \in 1..Len(Observers), NEW p \in ProviderSet,
               <<Observers[k], p>> \notin observed'
        PROVE  Overdue(k)'
    <3>1. next' <= RoundEnd(k)' + PollInterval
      BY <1>5, <1>6, <2>5
    <3> QED
      BY <2>0, <3>1 DEF Overdue, Observing
  <2>6. Awaited'
    BY <2>0, <2>5 DEF Awaited, Observing
  <2> QED
    BY <1>4, <2>1, <2>2, <2>3, <2>4, <2>6
<1> QED
  BY <1>7, <1>8

\* The loop wakes up at the time it was to sleep to
LEMMA WakeUpKeepsIInv ==
    ASSUME IInv, WakeUp
    PROVE  IInv'
<1> USE DEF IInv, setup, network, report
<1>0. /\ pc = "asleep" /\ now >= next /\ pc' = "loop" /\ turn' = 1
      /\ UNCHANGED <<now, limit, track, start, hidden, isas, tests, injected, obs, next,
                     findings, error, observed, faults>>
  BY DEF WakeUp
<1>1. now \in Nat /\ next \in Nat /\ limit = next /\ now = next
  BY <1>0 DEF TypeInv, Clocks
<1>2. TypeInv'
  BY <1>0 DEF TypeInv, Scenario
<1>3. Served'
  BY <1>0 DEF Served, Flights, Polling, IsaOf, FirstTime, LastTime
<1>4. Clocks'
  BY <1>0, <1>1 DEF Clocks, Observing
<1>5. Rectangle' /\ Answer'
  BY <1>0 DEF Rectangle, Answer, Observing
<1>6. End' /\ FindingsJustified'
  BY <1>0 DEF End, FindingsJustified, LastTime, Polling
<1>7. Awaited'
  <2>1. Compact' = Compact /\ Frequent' = Frequent
    BY <1>0 DEF Compact, Frequent, Everywhere, Positions
  <2>2. ASSUME Unblamed', NEW k \in 1..Len(Observers), NEW p \in ProviderSet,
               <<Observers[k], p>> \notin observed'
        PROVE  Overdue(k)'
    <3>1. next <= RoundEnd(k) + PollInterval
      BY <1>0, <2>1, <2>2 DEF Awaited, Unblamed, Overdue
    <3>2. RoundEnd(k) \in Nat
      BY RoundEndType DEF TypeInv
    <3>3. now <= RoundEnd(k) + PollInterval + Turns(0)
      BY <1>1, <3>1, <3>2, NoTurns, Constant
    <3>4. SoonAfter(now, k, 0)'
      BY <1>0, <3>3 DEF SoonAfter, RoundEnd, Due
    <3> QED
      BY <1>0, <3>4 DEF Overdue, Observing
  <2> QED
    BY <1>0, <2>2 DEF Awaited, Observing
<1> QED
  BY <1>2, <1>3, <1>4, <1>5, <1>6, <1>7

-----------------------------------------------------------------------------
(***************************************************************************)
(* Observations                                                            *)
(***************************************************************************)

\* A flight that has to be observed has been visible since the rectangle of
\* the round was made, and at any later time of the observation at which its
\* data has not expired: it has a position then that the rectangle covers
LEMMA VisibleInRect ==
    ASSUME IInv, Working, pc \in Observing, NEW p \in ProviderSet, ShouldBeObserved(p),
           NEW a \in Int, obs.initiated <= a, a <= obs.initiated + 2 * MaxDelay,
           a <= LastTime(p) + Realtime
    PROVE  \E x \in Between(p, a - Realtime, a) : Inside(x, obs.rect)
<1>1. PICK t \in 0..now : /\ Covers(obs.rect, t)
                          /\ t <= obs.initiated /\ obs.initiated <= t + Turns(turn - 1)
  BY DEF IInv, Rectangle
<1>2. /\ track \in Tracks /\ start = StartDelay /\ start \in Nat /\ obs.initiated \in Nat
      /\ turn \in 1..Len(Observers)
  BY Constant DEF IInv, TypeInv, Observation, Clocks
<1>3. /\ FirstTime(p) = start /\ LastTime(p) \in Nat /\ start <= LastTime(p)
      /\ start + Latency < obs.initiated /\ obs.initiated < LastTime(p) + Realtime
  BY <1>2, Times DEF ShouldBeObserved
<1>4. Turns(turn - 1) \in Nat /\ Turns(turn - 1) <= LastTurn
  BY <1>2, FewerTurns
<1>5. LastTurn <= Latency /\ LastTurn + 2 * MaxDelay <= Realtime /\ LastTurn \in Nat
  BY RoundTimes, Constant DEF Working
<1>6. t \in Nat /\ start <= t /\ a - Realtime <= t
  <2>1. t \in Nat
    BY <1>1 DEF IInv, TypeInv
  <2>2. obs.initiated <= t + LastTurn
    BY <1>1, <1>2, <1>4, <1>5, <2>1
  <2> QED
    BY <1>2, <1>3, <1>5, <2>1, <2>2, Constant
<1>7. PICK m \in Int : /\ a - Realtime <= m /\ t - (Realtime + Latency) <= m /\ start <= m
                       /\ m <= a /\ m <= t /\ m <= LastTime(p)
  <2>1. /\ t - (Realtime + Latency) <= LastTime(p) /\ t - (Realtime + Latency) <= t
        /\ t - (Realtime + Latency) <= a /\ start <= a /\ a - Realtime <= a
        /\ a - Realtime <= LastTime(p)
    BY <1>1, <1>2, <1>3, <1>6, Constant
  <2>2. CASE start >= a - Realtime /\ start >= t - (Realtime + Latency)
    BY <2>1, <2>2, <1>2, <1>3, <1>6
  <2>3. CASE a - Realtime >= start /\ a - Realtime >= t - (Realtime + Latency)
    BY <2>1, <2>3, <1>2, <1>3, <1>6, Constant
  <2>4. CASE t - (Realtime + Latency) >= start /\ t - (Realtime + Latency) >= a - Realtime
    BY <2>1, <2>4, <1>2, <1>3, <1>6, Constant
  <2> QED
    BY <2>2, <2>3, <2>4, <1>2, <1>6, Constant
<1>8. PICK x \in Positions(p) : \A lo, hi \in Int : lo <= m /\ m <= hi => x \in Between(p, lo, hi)
  BY <1>2, <1>3, <1>7, PositionAt
<1>9. x \in Between(p, a - Realtime, a) /\ x \in Between(p, t - (Realtime + Latency), t)
  BY <1>6, <1>7, <1>8, Constant
<1> QED
  BY <1>1, <1>9 DEF Covers

\* Such a flight is found by a search of the DSS, unless its data has expired
LEMMA FoundBySearch ==
    ASSUME IInv, Working, pc = "observe", NEW p \in ProviderSet, ShouldBeObserved(p),
           now <= LastTime(p) + Realtime
    PROVE  p \in Searched(obs.rect)
<1>1. /\ track \in Tracks /\ start = StartDelay /\ start \in Nat /\ obs.initiated \in Nat /\ now \in Nat
      /\ obs.initiated <= now /\ now <= obs.initiated + 2 * MaxDelay
      /\ obs.rect[1] \in Int /\ obs.rect[2] \in Int
  <2>1. obs.rect \in View
    BY DEF IInv, TypeInv, Observation
  <2>2. now <= limit /\ limit <= obs.initiated + MaxDelay /\ obs.initiated <= now
    BY DEF IInv, TypeInv, Clocks, Observing
  <2> QED
    BY <2>1, <2>2, Constant DEF IInv, TypeInv, Observation, View
<1>2. PICK x \in Between(p, now - Realtime, now) : Inside(x, obs.rect)
  BY <1>1, VisibleInRect DEF Observing
<1>3. x \in Positions(p) /\ Positions(p) \in SUBSET Everywhere /\ Positions(p) # {}
  BY <1>1, BetweenPositions, TrackType DEF Everywhere
<1>4. /\ Positions(p) \in SUBSET Int
      /\ Min(Positions(p)) \in Positions(p) /\ Max(Positions(p)) \in Positions(p)
      /\ Min(Positions(p)) <= x /\ x <= Max(Positions(p))
  BY <1>1, <1>3, PositionExtremes
<1>5. Min(Positions(p)) <= obs.rect[2] /\ obs.rect[1] <= Max(Positions(p))
  <2>1. x \in Int /\ Min(Positions(p)) \in Int /\ Max(Positions(p)) \in Int
    BY <1>3, <1>4
  <2> QED
    BY <1>1, <1>2, <1>4, <2>1 DEF Inside
<1>6. isas[p] = IsaOf(p)
  BY DEF IInv, Served, Polling
<1>7. IsaOf(p) \in [from : Int, to : Int] /\ IsaOf(p).from <= now /\ now <= IsaOf(p).to
  <2>1. FirstTime(p) = start /\ LastTime(p) \in Nat /\ start + Latency < obs.initiated
    BY <1>1, Times DEF ShouldBeObserved
  <2> QED
    BY <1>1, <2>1, Constant DEF IsaOf
<1>8. IsaOf(p) # None
  BY <1>7, ConstantsAssumption
<1> QED
  BY <1>5, <1>6, <1>7, <1>8 DEF Searched

\* An observation that has failed shows nothing
LEMMA FailedType ==
    ASSUME obs \in Observation, obs' = [obs EXCEPT !.asks = {}, !.shown = {}, !.code = 412]
    PROVE  obs' \in Observation /\ obs'.rect = obs.rect /\ obs'.initiated = obs.initiated /\ obs'.end = obs.end
<1>1. obs' = [end |-> obs.end, rect |-> obs.rect, initiated |-> obs.initiated,
              asks |-> {}, shown |-> {}, code |-> 412]
  <2>1. obs = [end |-> obs.end, rect |-> obs.rect, initiated |-> obs.initiated,
               asks |-> obs.asks, shown |-> obs.shown, code |-> obs.code]
    BY ObservationFields
  <2> QED
    BY <2>1
<1>2. obs' \in Observation
  BY <1>1, ObservationFields DEF Observation
<1> QED
  BY <1>1, <1>2

\* A step of an observation that is not evaluated yet
InObservation ==
    /\ pc \in Observing /\ pc' = "flights"
    /\ obs' \in Observation /\ obs'.rect = obs.rect /\ obs'.initiated = obs.initiated /\ obs'.end = obs.end
    /\ UNCHANGED <<now, track, start, hidden, isas, tests, turn, injected, next, findings, error, observed>>

\* In such a step only the answer changes, and the time it may take
LEMMA ObservationKeeps ==
    ASSUME IInv, InObservation, faults' \in Nat, faults' = 0 => faults = 0,
           limit' \in Nat, now <= limit', limit' <= obs.initiated + 2 * MaxDelay, limit' <= now + MaxDelay
    PROVE  /\ TypeInv' /\ Served' /\ Clocks' /\ Rectangle' /\ End' /\ FindingsJustified' /\ Awaited'
<1> USE DEF IInv, InObservation
<1>1. TypeInv'
  BY DEF TypeInv, Scenario
<1>2. Served'
  BY DEF Served, Flights, Polling, Observing, IsaOf, FirstTime, LastTime
<1>3. Clocks'
  BY DEF Clocks, Observing
<1>4. Rectangle'
  BY DEF Rectangle, Observing, Covers, Between
<1>5. End'
  BY DEF End, LastTime, Polling, Observing
<1>6. FindingsJustified'
  BY DEF FindingsJustified, LastTime
<1>7. Awaited'
  <2>1. Compact' = Compact /\ Frequent' = Frequent
    BY DEF Compact, Frequent, Everywhere, Positions
  <2>2. Unblamed' => Unblamed
    BY <2>1 DEF Unblamed
  <2>3. Unblamed' => Detailed(obs'.rect)
    BY <2>2 DEF Awaited
  <2>4. ASSUME Unblamed', NEW k \in 1..Len(Observers), NEW p \in ProviderSet,
               <<Observers[k], p>> \notin observed'
        PROVE  Overdue(k)'
    <3>1. Overdue(k)
      BY <2>2, <2>4 DEF Awaited
    <3> QED
      BY <3>1 DEF Overdue, SoonAfter, RoundEnd, Due, Observing
  <2> QED
    BY <2>3, <2>4 DEF Awaited, Detailed, Diagonal
<1> QED
  BY <1>1, <1>2, <1>3, <1>4, <1>5, <1>6, <1>7

\* The Display Provider searches the DSS: a flight it does not find does not
\* have to be shown any more
LEMMA SearchKeepsIInv ==
    ASSUME IInv, SearchISAs
    PROVE  IInv'
<1> USE DEF IInv, setup, network
<1>0. /\ pc = "observe"
      /\ UNCHANGED <<now, track, start, hidden, isas, tests, turn, injected, next, findings, observed>>
  BY DEF SearchISAs
<1>1. /\ now \in Nat /\ obs \in Observation /\ obs.initiated \in Nat
      /\ now <= obs.initiated + MaxDelay /\ turn \in 1..Len(Observers)
  <2>1. now \in Nat /\ limit \in Nat /\ now <= limit /\ obs \in Observation
    BY DEF TypeInv
  <2>2. obs.initiated \in Nat
    BY <2>1 DEF Observation
  <2> QED
    BY <1>0, <2>1, <2>2, Constant DEF Clocks, Observing
<1>2. /\ now + MaxDelay \in Nat /\ now <= now + MaxDelay /\ now + MaxDelay <= obs.initiated + 2 * MaxDelay
      /\ now + MaxDelay <= now + MaxDelay
  BY <1>1, Constant
<1>3. CASE /\ NoFault
           /\ obs' = [obs EXCEPT !.shown = {},
                                 !.asks = IF TooLarge(obs.rect) THEN {}
                                          ELSE Searched(obs.rect) \ hidden[Observer],
                                 !.code = IF TooLarge(obs.rect) THEN 413 ELSE 200]
           /\ pc' = "flights" /\ UNCHANGED error
           /\ limit' = now + MaxDelay
  <2>1. Searched(obs.rect) \in SUBSET ProviderSet
    BY DEF Searched
  <2>2. /\ obs' \in Observation /\ obs'.rect = obs.rect /\ obs'.initiated = obs.initiated /\ obs'.end = obs.end
        /\ obs'.shown = {} /\ obs'.code = (IF TooLarge(obs.rect) THEN 413 ELSE 200)
        /\ ~TooLarge(obs.rect) => obs'.asks = Searched(obs.rect) \ hidden[Observer]
    <3>1. PICK a \in SUBSET ProviderSet : a = IF TooLarge(obs.rect) THEN {} ELSE Searched(obs.rect) \ hidden[Observer]
      BY <2>1
    <3>2. PICK c \in {0, 200, 412, 413} : c = IF TooLarge(obs.rect) THEN 413 ELSE 200
      OBVIOUS
    <3>3. PICK s \in SUBSET ProviderSet : s = {}
      OBVIOUS
    <3>4. obs' = [obs EXCEPT !.shown = s, !.asks = a, !.code = c]
      BY <1>3, <3>1, <3>2, <3>3
    <3>5. /\ obs' \in Observation /\ obs'.rect = obs.rect /\ obs'.initiated = obs.initiated /\ obs'.end = obs.end
          /\ obs'.shown = {} /\ obs'.asks = a /\ obs'.code = c
      <4>1. obs' = [end |-> obs.end, rect |-> obs.rect, initiated |-> obs.initiated,
                    asks |-> a, shown |-> s, code |-> c]
        BY <1>1, <3>4 DEF Observation
      <4>2. obs' \in Observation
        BY <1>1, <4>1, ObservationFields DEF Observation
      <4> QED
        BY <4>1, <4>2, <3>3
    <3> QED
      BY <3>1, <3>2, <3>5
  <2>3. InObservation /\ faults' = faults /\ faults' \in Nat /\ limit' = now + MaxDelay
    BY <1>0, <1>3, <2>2 DEF InObservation, Observing, NoFault, TypeInv
  <2>4. TypeInv' /\ Served' /\ Clocks' /\ Rectangle' /\ End' /\ FindingsJustified' /\ Awaited'
    BY <1>2, <2>3, ObservationKeeps
  <2>5. ASSUME Working', NEW p \in ProviderSet, ~TooLarge(obs'.rect), ShouldBeObserved(p)',
               p \notin obs'.shown, p \notin obs'.asks
        PROVE  now' > LastTime(p)' + Realtime
    <3>1. Working
      BY <1>0, <2>3, <2>5 DEF Working
    <3>2. hidden[Observer] = {}
      BY <1>1, <3>1, Listed DEF Working, Observer
    <3>3. p \notin Searched(obs.rect)
      BY <2>2, <2>5, <3>2
    <3>4. ShouldBeObserved(p)
      BY <1>0, <2>2, <2>5 DEF ShouldBeObserved, FirstTime, LastTime
    <3>5. ~(now <= LastTime(p) + Realtime)
      BY <1>0, <3>1, <3>3, <3>4, FoundBySearch
    <3>6. LastTime(p) \in Nat /\ LastTime(p)' = LastTime(p)
      <4>1. LastTime(p) \in Nat
        BY Times DEF TypeInv
      <4> QED
        BY <1>0, <4>1 DEF LastTime
    <3> QED
      BY <1>0, <1>1, <3>5, <3>6, Constant
  <2>6. Answer'
    BY <2>2, <2>5 DEF Answer, TooLarge, Diagonal
  <2> QED
    BY <2>4, <2>6
<1>4. CASE Fault /\ obs' = Failed /\ pc' = "flights" /\ UNCHANGED error /\ limit' = now + MaxDelay
  <2>1. obs' \in Observation /\ obs'.rect = obs.rect /\ obs'.initiated = obs.initiated /\ obs'.end = obs.end
    BY <1>1, <1>4, FailedType DEF Failed
  <2>2. InObservation
    BY <1>0, <1>4, <2>1 DEF InObservation, Observing
  <2>3. faults' \in Nat /\ (faults' = 0 => faults = 0)
    BY <1>4 DEF Fault, TypeInv
  <2>4. TypeInv' /\ Served' /\ Clocks' /\ Rectangle' /\ End' /\ FindingsJustified' /\ Awaited'
    BY <1>2, <1>4, <2>2, <2>3, ObservationKeeps
  <2> QED
    BY <1>4, <2>4, FaultBlamed
<1>5. CASE Fault /\ ExecutionError /\ UNCHANGED obs
  <2>0. error' = TRUE /\ pc' = "complete" /\ limit' = now /\ obs' = obs
    BY <1>5 DEF ExecutionError
  <2>1. TypeInv'
    <3>1. faults' \in Nat
      BY <1>5, FaultBlamed
    <3>2. error' \in BOOLEAN
      BY <2>0
    <3> QED
      BY <1>0, <1>1, <2>0, <3>1, <3>2 DEF TypeInv, Scenario
  <2>2. Served' /\ Clocks' /\ Rectangle' /\ End'
    BY <2>0 DEF Served, Clocks, Rectangle, End, Observing, Polling
  <2>3. Awaited'
    BY <2>0 DEF Awaited, Unblamed
  <2> QED
    BY <1>5, <2>1, <2>2, <2>3, FaultBlamed
<1> QED
  BY <1>3, <1>4, <1>5 DEF SearchISAs

\* A provider is asked: a flight it does not report does not have to be shown
\* any more, and one it reports will not be gone when the answer is evaluated
LEMMA AskKeepsIInv ==
    ASSUME IInv, NEW p \in ProviderSet, AskProvider(p)
    PROVE  IInv'
<1> USE DEF IInv, setup, network, report
<1>0. /\ pc = "flights" /\ p \in obs.asks
      /\ UNCHANGED <<now, limit, track, start, hidden, isas, tests, pc, turn, injected, next,
                     findings, error, observed>>
  BY DEF AskProvider
<1>1. /\ now \in Nat /\ limit \in Nat /\ now <= limit /\ obs \in Observation /\ obs.initiated \in Nat
      /\ limit <= obs.initiated + 2 * MaxDelay /\ limit <= now + MaxDelay /\ obs.initiated <= now
  BY <1>0 DEF TypeInv, Clocks, Observation, Observing
<1>2. CASE NoFault /\ obs' = [obs EXCEPT !.asks = @ \ {p}, !.shown = @ \cup flights(p, obs.rect)]
  <2>1. flights(p, obs.rect) \in SUBSET {p}
    BY DEF flights
  <2>2. /\ obs' \in Observation /\ obs'.rect = obs.rect /\ obs'.initiated = obs.initiated /\ obs'.end = obs.end
        /\ obs'.shown = obs.shown \cup flights(p, obs.rect) /\ obs'.asks = obs.asks \ {p}
        /\ obs'.code = obs.code
    <3>1. PICK a : a = obs.asks \ {p}
      OBVIOUS
    <3>2. PICK s : s = obs.shown \cup flights(p, obs.rect)
      OBVIOUS
    <3>3. a \in SUBSET ProviderSet /\ s \in SUBSET ProviderSet
      BY <1>1, <2>1, <3>1, <3>2 DEF Observation
    <3>4. obs' = [obs EXCEPT !.asks = a, !.shown = s]
      BY <1>2, <3>1, <3>2
    <3>5. /\ obs' \in Observation /\ obs'.rect = obs.rect /\ obs'.initiated = obs.initiated /\ obs'.end = obs.end
          /\ obs'.shown = s /\ obs'.asks = a /\ obs'.code = obs.code
      <4>1. obs' = [end |-> obs.end, rect |-> obs.rect, initiated |-> obs.initiated,
                    asks |-> a, shown |-> s, code |-> obs.code]
        BY <1>1, <3>4 DEF Observation
      <4>2. obs' \in Observation
        BY <1>1, <3>3, <4>1, ObservationFields DEF Observation
      <4> QED
        BY <4>1, <4>2
    <3> QED
      BY <3>1, <3>2, <3>5
  <2>3. InObservation /\ faults' = faults /\ faults' \in Nat
    BY <1>0, <1>2, <2>2 DEF InObservation, Observing, NoFault, TypeInv
  <2>4. TypeInv' /\ Served' /\ Clocks' /\ Rectangle' /\ End' /\ FindingsJustified' /\ Awaited'
    BY <1>0, <1>1, <2>3, ObservationKeeps
  <2>5. \A q \in ProviderSet : /\ LastTime(q)' = LastTime(q) /\ FirstTime(q)' = FirstTime(q)
                               /\ ShouldBeObserved(q)' = ShouldBeObserved(q)
                               /\ LastTime(q) \in Nat /\ FirstTime(q) \in Nat
    <3>1. \A q \in ProviderSet : LastTime(q) \in Nat /\ FirstTime(q) \in Nat
      BY Times DEF TypeInv
    <3> QED
      BY <1>0, <2>2, <3>1 DEF ShouldBeObserved, FirstTime, LastTime
  <2>6. ASSUME Working', ~TooLarge(obs.rect), ShouldBeObserved(p), p \notin flights(p, obs.rect)
        PROVE  now > LastTime(p) + Realtime
    <3>1. Working
      BY <1>0, <2>3, <2>6 DEF Working
    <3>2. ~Reported(p, obs.rect)
      BY <2>6 DEF flights
    <3>3. p \in tests
      BY <1>0 DEF Served, Polling
    <3>4. get_details(p)
      BY <1>1, <2>5, <2>6, Constant DEF get_details, ShouldBeObserved
    <3>5. SUFFICES ASSUME now <= LastTime(p) + Realtime PROVE FALSE
      BY <1>1, <2>5, Constant
    <3>6. now <= obs.initiated + 2 * MaxDelay
      BY <1>1, Constant
    <3>7. \E x \in Between(p, now - Realtime, now) : Inside(x, obs.rect)
      BY <1>0, <1>1, <2>6, <3>1, <3>5, <3>6, VisibleInRect DEF Observing
    <3> QED
      BY <3>2, <3>3, <3>4, <3>7 DEF Reported
  <2>7. ASSUME Working', p \in flights(p, obs.rect)
        PROVE  FirstTime(p) <= now /\ limit <= LastTime(p) + Realtime + Latency
    <3>1. Reported(p, obs.rect)
      BY <2>7 DEF flights
    <3>2. FirstTime(p) <= now
      BY <1>1, <2>5, <3>1 DEF Reported, get_details
    <3>3. PICK n \in 1..Len(track[p]) : start + n - 1 \in (now - Realtime)..now
      BY <3>1 DEF Reported, Between
    <3>4. now - Realtime <= LastTime(p)
      <4>1. Len(track[p]) \in Nat /\ start \in Nat
        BY TrackType, Constant DEF TypeInv
      <4> QED
        BY <1>1, <3>3, <4>1, Constant DEF LastTime
    <3>5. MaxDelay <= Latency
      BY <2>7 DEF Working
    <3> QED
      BY <1>1, <2>5, <3>2, <3>4, <3>5, Constant
  <2>8. Answer'
    <3>1. SUFFICES ASSUME Working'
                   PROVE  /\ obs'.code = IF TooLarge(obs.rect) THEN 413 ELSE 200
                          /\ ~TooLarge(obs.rect) =>
                                \A q \in ProviderSet :
                                    /\ ShouldBeObserved(q) /\ q \notin obs'.shown /\ q \notin obs'.asks
                                          => now > LastTime(q) + Realtime
                                    /\ q \in obs'.shown => FirstTime(q) <= now /\ limit <= LastTime(q) + Realtime + Latency
      BY <1>0, <2>2, <2>5 DEF Answer, TooLarge, Diagonal
    <3>2. Working
      BY <1>0, <2>3, <3>1 DEF Working
    <3>3. obs.code = IF TooLarge(obs.rect) THEN 413 ELSE 200
      BY <1>0, <3>2 DEF Answer
    <3>4. ASSUME ~TooLarge(obs.rect), NEW q \in ProviderSet, ShouldBeObserved(q), q \notin obs'.shown, q \notin obs'.asks
          PROVE  now > LastTime(q) + Realtime
      <4>1. CASE q = p
        BY <4>1, <2>2, <2>6, <3>1, <3>4
      <4>2. CASE q # p
        BY <4>2, <1>0, <2>2, <3>2, <3>4 DEF Answer
      <4> QED
        BY <4>1, <4>2
    <3>5. ASSUME ~TooLarge(obs.rect), NEW q \in ProviderSet, q \in obs'.shown
          PROVE  FirstTime(q) <= now /\ limit <= LastTime(q) + Realtime + Latency
      <4>1. CASE q \in obs.shown
        BY <4>1, <1>0, <3>2, <3>5 DEF Answer
      <4>2. CASE q \in flights(p, obs.rect)
        BY <4>2, <2>1, <2>7, <3>1
      <4> QED
        BY <4>1, <4>2, <2>2, <3>5
    <3> QED
      BY <2>2, <3>3, <3>4, <3>5
  <2> QED
    BY <2>4, <2>8
<1>3. CASE Fault /\ obs' = Failed
  <2>1. obs' \in Observation /\ obs'.rect = obs.rect /\ obs'.initiated = obs.initiated /\ obs'.end = obs.end
    BY <1>1, <1>3, FailedType DEF Failed
  <2>2. InObservation
    BY <1>0, <2>1 DEF InObservation, Observing
  <2>3. faults' \in Nat /\ (faults' = 0 => faults = 0)
    BY <1>3 DEF Fault, TypeInv
  <2>4. TypeInv' /\ Served' /\ Clocks' /\ Rectangle' /\ End' /\ FindingsJustified' /\ Awaited'
    BY <1>0, <1>1, <2>2, <2>3, ObservationKeeps
  <2> QED
    BY <1>3, <2>4, FaultBlamed
<1> QED
  BY <1>2, <1>3 DEF AskProvider

\* An evaluated observation begins the next one
LEMMA EvaluatedType ==
    ASSUME obs \in Observation, now \in Nat, obs' = [obs EXCEPT !.shown = {}, !.code = 0, !.initiated = now]
    PROVE  obs' \in Observation /\ obs'.rect = obs.rect /\ obs'.initiated = now /\ obs'.end = obs.end
<1>1. obs' = [end |-> obs.end, rect |-> obs.rect, initiated |-> now,
              asks |-> obs.asks, shown |-> {}, code |-> 0]
  <2>1. obs = [end |-> obs.end, rect |-> obs.rect, initiated |-> obs.initiated,
               asks |-> obs.asks, shown |-> obs.shown, code |-> obs.code]
    BY ObservationFields
  <2> QED
    BY <2>1
<1>2. obs' \in Observation
  BY <1>1, ObservationFields DEF Observation
<1> QED
  BY <1>1, <1>2

\* What the evaluation of an observation reports are findings
LEMMA EvaluateType ==
    ASSUME now \in Nat, Flights \subseteq ProviderSet
    PROVE  Evaluate \in SUBSET Finding
<1>1. \A c \in Checks : \A p \in ProviderSet \cup {None} : Found(c, p) \in Finding
  BY DEF Found, Finding
<1>2. \A p \in ProviderSet : FlightCheck(p) \in SUBSET Finding
  <2>1. \A p \in ProviderSet : /\ Found("Premature flight", p) \in Finding
                               /\ Found("Lingering flight", p) \in Finding
                               /\ Found("Missing flight", p) \in Finding
    BY <1>1 DEF Checks
  <2> QED
    BY <2>1 DEF FlightCheck
<1>3. AreaTooLargeCheck \in SUBSET Finding /\ Found("Successful observation", None) \in Finding
  BY <1>1 DEF AreaTooLargeCheck, Checks
<1> QED
  BY <1>2, <1>3 DEF Evaluate

\* Findings in a system that works are of flights whose data had expired
LEMMA EvaluateJustified ==
    ASSUME IInv, Working, pc = "flights", obs.asks = {}, NEW f \in Evaluate
    PROVE  f.check = "Missing flight" /\ f.at > LastTime(f.provider) + Realtime
<1>1. /\ now \in Nat /\ limit \in Nat /\ now <= limit /\ Flights = ProviderSet
  BY DEF IInv, TypeInv, Served, Polling
<1>2. obs.code = IF TooLarge(obs.rect) THEN 413 ELSE 200
  BY DEF IInv, Answer
<1>3. ~TooLarge(obs.rect)
  <2>1. TooLarge(obs.rect) => Evaluate = AreaTooLargeCheck
    BY DEF Evaluate
  <2>2. TooLarge(obs.rect) => AreaTooLargeCheck = {}
    BY <1>2 DEF AreaTooLargeCheck
  <2> QED
    BY <2>1, <2>2
<1>4. PICK p \in ProviderSet : f \in FlightCheck(p)
  <2>1. obs.code = 200
    BY <1>2, <1>3
  <2> QED
    BY <1>1, <1>3, <2>1 DEF Evaluate
<1>5. LastTime(p) \in Nat /\ FirstTime(p) \in Nat
  BY Times DEF IInv, TypeInv
<1>6. p \in obs.shown => FirstTime(p) <= now /\ limit <= LastTime(p) + Realtime + Latency
  BY <1>3 DEF IInv, Answer
<1>7. p \in obs.shown => ~(now < FirstTime(p)) /\ ~Gone(p)
  BY <1>1, <1>5, <1>6, Constant DEF Gone
<1>8. ShouldBeObserved(p) /\ p \notin obs.shown /\ f = Found("Missing flight", p)
  BY <1>4, <1>7 DEF FlightCheck
<1>9. now > LastTime(p) + Realtime
  BY <1>3, <1>8 DEF IInv, Answer
<1> QED
  BY <1>8, <1>9 DEF Found

\* An observation without findings that does not show a flight was too early for it
LEMMA MissedEarly ==
    ASSUME IInv, Unblamed, pc = "flights", Evaluate = {}, NEW p \in ProviderSet, p \notin obs.shown,
           obs.initiated < LastTime(p) + Realtime,
           obs.initiated + 2 * MaxDelay <= LastTime(p) + Realtime + Latency
    PROVE  obs.initiated <= Due
<1>1. /\ now \in Nat /\ limit \in Nat /\ now <= limit /\ Flights = ProviderSet /\ obs.initiated \in Nat
      /\ limit <= obs.initiated + 2 * MaxDelay /\ obs.initiated <= now /\ start \in Nat
      /\ obs.rect[1] \in Int /\ obs.rect[2] \in Int
  BY Constant DEF IInv, TypeInv, Served, Polling, Observation, Clocks, Observing, View
<1>2. Detailed(obs.rect)
  BY DEF IInv, Awaited, Observing
<1>3. ~TooLarge(obs.rect)
  BY <1>1, <1>2, Constant DEF TooLarge, Detailed, Diagonal
<1>4. obs.code = 200
  BY <1>2, <1>3 DEF Evaluate
<1>5. FlightCheck(p) = {}
  BY <1>1, <1>2, <1>3, <1>4 DEF Evaluate
<1>6. LastTime(p) \in Nat /\ FirstTime(p) = start
  BY Times DEF IInv, TypeInv
<1>7. ~Gone(p)
  BY <1>1, <1>6, Constant DEF Gone
<1>8. CASE now < FirstTime(p)
  BY <1>1, <1>6, <1>8, Constant DEF Due
<1>9. CASE ~(now < FirstTime(p))
  <2>1. ~ShouldBeObserved(p)
    BY <1>5, <1>7, <1>9 DEF FlightCheck
  <2> QED
    BY <1>1, <1>6, <2>1, Constant DEF ShouldBeObserved, Due
<1> QED
  BY <1>8, <1>9

\* A flight that an observer has still not displayed after its turn has not
\* been due for longer than the turns since then
LEMMA StillAwaited ==
    ASSUME IInv, EvaluateObservation, Unblamed', NEW k \in 1..Len(Observers), NEW p \in ProviderSet,
           <<Observers[k], p>> \notin observed'
    PROVE  /\ Unblamed /\ <<Observers[k], p>> \notin observed
           /\ k <= turn => now <= Due + Turns(turn - k + 1)
<1>0. /\ pc = "flights" /\ findings' = findings \cup Evaluate
      /\ observed' = IF Detailed(obs.rect) THEN observed \cup ({Observer} \X obs.shown) ELSE observed
      /\ UNCHANGED <<track, start, error>>
  BY DEF EvaluateObservation, setup
<1>1. Unblamed /\ Evaluate = {} /\ <<Observers[k], p>> \notin observed
  <2>1. Compact' = Compact /\ Frequent' = Frequent
    BY <1>0 DEF Compact, Frequent, Everywhere, Positions
  <2>2. findings = {} /\ Evaluate = {}
    BY <1>0 DEF Unblamed
  <2> QED
    BY <1>0, <2>1, <2>2 DEF Unblamed
<1>2. Overdue(k) /\ Detailed(obs.rect)
  BY <1>0, <1>1 DEF IInv, Awaited, Observing
<1>3. /\ now \in Nat /\ limit \in Nat /\ now <= limit /\ obs.initiated \in Nat
      /\ limit <= obs.initiated + 2 * MaxDelay /\ turn \in 1..Len(Observers)
      /\ track \in Tracks /\ start = StartDelay
  BY <1>0 DEF IInv, TypeInv, Observation, Clocks, Observing
<1>4. Due \in Nat
  BY <1>3, Constant DEF Due
<1>5. CASE k < turn
  <2>1. obs.initiated <= Due + Turns(turn - k)
    BY <1>0, <1>2, <1>5 DEF Overdue, Observing
  <2>2. turn - k \in Nat
    BY <1>3, <1>5
  <2>3. Turns(turn - k) \in Nat /\ Turns(turn - k + 1) = Turns(turn - k) + 2 * MaxDelay
    BY <2>2, MoreTurns
  <2> QED
    BY <1>1, <1>3, <1>4, <2>1, <2>3, Constant
<1>6. CASE k = turn
  <2>1. SoonAfter(obs.initiated, k, turn - 1) /\ turn - 1 \in 0..(k - 1)
    BY <1>0, <1>2, <1>3, <1>6 DEF Overdue, Observing
  <2>2. obs.initiated < LastTime(p) + Realtime /\ obs.initiated + 2 * MaxDelay <= LastTime(p) + Realtime + Latency
    BY <1>1, <1>3, <2>1, InTime DEF Unblamed
  <2>3. p \notin obs.shown
    BY <1>0, <1>2, <1>6 DEF Observer
  <2>4. obs.initiated <= Due
    BY <1>0, <1>1, <2>2, <2>3, MissedEarly
  <2>5. turn - k + 1 = 0 + 1 /\ Turns(0 + 1) = Turns(0) + 2 * MaxDelay
    BY <1>3, <1>6, MoreTurns
  <2>6. Turns(turn - k + 1) = 2 * MaxDelay
    BY <2>5, NoTurns, Constant
  <2> QED
    BY <1>1, <1>3, <1>4, <2>4, <2>6, Constant
<1> QED
  BY <1>1, <1>3, <1>5, <1>6

\* An observation is evaluated, and the next observer asked, or the round ends
LEMMA EvaluateKeepsIInv ==
    ASSUME IInv, EvaluateObservation
    PROVE  IInv'
<1> USE DEF IInv, setup, network
<1>0. /\ pc = "flights" /\ obs.asks = {}
      /\ findings' = findings \cup Evaluate
      /\ obs' = [obs EXCEPT !.shown = {}, !.code = 0, !.initiated = now]
      /\ observed' = IF Detailed(obs.rect) THEN observed \cup ({Observer} \X obs.shown) ELSE observed
      /\ UNCHANGED <<now, track, start, hidden, isas, tests, injected, next, error, faults>>
  BY DEF EvaluateObservation
<1>1. /\ now \in Nat /\ limit \in Nat /\ now <= limit /\ obs \in Observation /\ obs.initiated \in Nat
      /\ limit <= obs.initiated + 2 * MaxDelay /\ obs.initiated <= now /\ turn \in 1..Len(Observers)
      /\ next <= now /\ next \in Nat /\ turn \in Nat
  BY <1>0 DEF TypeInv, Observation, Clocks, Observing
<1>2. obs' \in Observation /\ obs'.rect = obs.rect /\ obs'.initiated = now /\ obs'.end = obs.end
  BY <1>0, <1>1, EvaluatedType
<1>3. /\ pc' = (IF turn < Len(Observers) THEN "observe" ELSE "wait")
      /\ turn' = (IF turn < Len(Observers) THEN turn + 1 ELSE turn)
      /\ limit' = (IF turn < Len(Observers) THEN now + MaxDelay ELSE now)
  BY DEF EvaluateObservation, Call
<1>4. TypeInv'
  <2>1. findings' \in SUBSET Finding
    BY <1>0, <1>1, EvaluateType DEF Served, Polling, TypeInv
  <2>2. observed' \in SUBSET (ObserverSet \X ProviderSet)
    <3>1. Observer \in ObserverSet /\ obs.shown \in SUBSET ProviderSet
      BY <1>1, Listed DEF Observer, Observation
    <3> QED
      BY <1>0, <3>1 DEF TypeInv
  <2>3. limit' \in Nat /\ turn' \in Nat /\ now <= limit' /\ pc' \in Scenario
    BY <1>1, <1>3, Constant DEF Scenario
  <2> QED
    BY <1>0, <1>1, <1>2, <2>1, <2>2, <2>3 DEF TypeInv
<1>5. Served'
  BY <1>0, <1>3 DEF Served, Flights, Polling, IsaOf, FirstTime, LastTime
<1>6. Clocks'
  <2>1. CASE turn < Len(Observers)
    <3>1. pc' = "observe" /\ turn' \in 1..Len(Observers) /\ limit' = obs'.initiated + MaxDelay /\ now' = obs'.initiated
      BY <1>0, <1>1, <1>2, <1>3, <2>1
    <3>2. obs'.initiated <= now' /\ next' <= now'
      BY <1>0, <1>1, <1>2
    <3>3. limit' <= obs'.initiated + MaxDelay
      <4>1. limit' = now + MaxDelay /\ obs'.initiated = now
        BY <1>2, <1>3, <2>1
      <4> QED
        BY <1>1, <4>1, Constant
    <3> QED
      BY <3>1, <3>2, <3>3 DEF Clocks, Observing
  <2>2. CASE ~(turn < Len(Observers))
    BY <1>0, <1>1, <1>3, <2>2 DEF Clocks, Observing
  <2> QED
    BY <2>1, <2>2
<1>7. Rectangle'
  <2>1. SUFFICES ASSUME turn < Len(Observers) PROVE Rectangle'
    BY <1>3 DEF Rectangle, Observing
  <2>2. PICK t \in 0..now : /\ Covers(obs.rect, t)
                            /\ t <= obs.initiated /\ obs.initiated <= t + Turns(turn - 1)
    BY <1>0 DEF Rectangle, Observing
  <2>3. t \in Nat /\ t <= now
    BY <1>1
  <2>4. turn - 1 \in Nat /\ turn' - 1 = (turn - 1) + 1
    BY <1>1, <1>3, <2>1
  <2>5. Turns(turn - 1) \in Nat /\ Turns((turn - 1) + 1) = Turns(turn - 1) + 2 * MaxDelay
    BY <2>4, MoreTurns
  <2>6. now <= t + Turns(turn' - 1)
    BY <1>1, <2>2, <2>3, <2>4, <2>5, Constant
  <2>7. Covers(obs'.rect, t)
    BY <1>2, <2>2
  <2> QED
    BY <1>0, <1>2, <2>3, <2>6, <2>7 DEF Rectangle, Covers, Between
<1>8. End'
  BY <1>0, <1>2 DEF End, LastTime, Polling
<1>9. Answer'
  BY <1>3 DEF Answer
<1>10. FindingsJustified'
  <2>1. SUFFICES ASSUME Working', NEW f \in findings'
                 PROVE  f.check = "Missing flight" /\ f.at > LastTime(f.provider) + Realtime
    BY <1>0 DEF FindingsJustified, Working, LastTime
  <2>2. Working
    BY <1>0, <2>1 DEF Working
  <2>3. CASE f \in findings
    BY <2>2, <2>3 DEF FindingsJustified, Working
  <2>4. CASE f \in Evaluate
    BY <1>0, <2>2, <2>4, EvaluateJustified
  <2> QED
    BY <1>0, <2>1, <2>3, <2>4
<1>11. Awaited'
  <2>1. Unblamed' /\ pc' \in Observing => Detailed(obs'.rect)
    <3>1. Unblamed' => Unblamed
      <4>1. Compact' = Compact /\ Frequent' = Frequent
        BY <1>0 DEF Compact, Frequent, Everywhere, Positions
      <4> QED
        BY <1>0, <4>1 DEF Unblamed
    <3> QED
      BY <1>0, <1>2, <3>1 DEF Awaited, Observing
  <2>2. ASSUME Unblamed', NEW k \in 1..Len(Observers), NEW p \in ProviderSet,
               <<Observers[k], p>> \notin observed'
        PROVE  Overdue(k)'
    <3>1. /\ Unblamed /\ <<Observers[k], p>> \notin observed
          /\ k <= turn => now <= Due + Turns(turn - k + 1)
      BY <2>2, StillAwaited
    <3>2. Overdue(k)
      BY <3>1 DEF Awaited
    <3>3. Due' = Due /\ RoundEnd(k)' = RoundEnd(k)
      BY <1>0 DEF Due, RoundEnd
    <3>4. CASE turn < Len(Observers) /\ k <= turn
      <4>1. turn' - k = turn - k + 1 /\ k < turn' /\ ~(turn' <= k) /\ pc' = "observe"
        BY <1>1, <1>3, <3>4
      <4>2. obs'.initiated <= Due' + Turns(turn' - k)
        BY <1>2, <3>1, <3>3, <3>4, <4>1
      <4> QED
        BY <4>1, <4>2 DEF Overdue, Observing
    <3>5. CASE turn < Len(Observers) /\ ~(k <= turn)
      <4>1. turn - 1 \in Nat /\ turn' - 1 = (turn - 1) + 1 /\ turn <= k /\ ~(k < turn') /\ pc' = "observe"
        BY <1>1, <1>3, <3>5
      <4>2. Turns(turn - 1) \in Nat /\ Turns(turn' - 1) = Turns(turn - 1) + 2 * MaxDelay
        BY <4>1, MoreTurns
      <4>3. SoonAfter(obs.initiated, k, turn - 1)
        BY <1>0, <3>2, <4>1 DEF Overdue, Observing
      <4>4. RoundEnd(k) \in Nat
        BY RoundEndType DEF TypeInv
      <4>5. now <= obs.initiated + 2 * MaxDelay
        BY <1>1, Constant
      <4>6. SoonAfter(now, k, turn' - 1)
        <5>1. InjectionTime \in Nat
          BY RoundTimes
        <5>2. CASE obs.initiated <= RoundEnd(k) + PollInterval + Turns(turn - 1)
          <6>1. now <= RoundEnd(k) + PollInterval + Turns(turn' - 1)
            BY <1>1, <4>2, <4>4, <4>5, <5>2, Constant
          <6> QED
            BY <6>1 DEF SoonAfter
        <5>3. CASE obs.initiated <= InjectionTime + Turns(turn - 1)
          <6>1. now <= InjectionTime + Turns(turn' - 1)
            BY <1>1, <4>2, <4>5, <5>1, <5>3, Constant
          <6> QED
            BY <6>1 DEF SoonAfter
        <5> QED
          BY <4>3, <5>2, <5>3 DEF SoonAfter
      <4>7. SoonAfter(obs.initiated, k, turn - 1)'
        BY <1>2, <3>3, <4>6 DEF SoonAfter
      <4> QED
        BY <4>1, <4>7 DEF Overdue, Observing
    <3>6. CASE ~(turn < Len(Observers))
      <4>1. turn = Len(Observers) /\ k <= turn /\ pc' = "wait"
        BY <1>1, <1>3, <3>6, Listed
      <4>2. now <= RoundEnd(k)
        BY <3>1, <4>1 DEF RoundEnd
      <4> QED
        BY <1>0, <3>3, <4>1, <4>2 DEF Overdue, Observing
    <3> QED
      BY <3>4, <3>5, <3>6
  <2> QED
    BY <2>1, <2>2 DEF Awaited, Detailed, Diagonal
<1> QED
  BY <1>4, <1>5, <1>6, <1>7, <1>8, <1>9, <1>10, <1>11

-----------------------------------------------------------------------------
(***************************************************************************)
(* The cleanup, and what follows                                           *)
(***************************************************************************)

\* Once the scenario cleans up, only a failed deletion is reported
LEMMA CleanupStays ==
    ASSUME IInv, pc \in {"cleanup", "complete"}, pc' \in {"cleanup", "complete"},
           UNCHANGED <<track, start, hidden, error, observed>>, faults' \in Nat, findings \subseteq findings',
           findings' # {} => (findings' = findings /\ faults' = faults) \/ faults' # 0
    PROVE  Served' /\ Clocks' /\ Rectangle' /\ End' /\ Answer' /\ FindingsJustified' /\ Awaited'
<1> USE DEF IInv
<1>1. Served' /\ Clocks' /\ Rectangle' /\ End' /\ Answer'
  BY DEF Served, Clocks, Rectangle, End, Answer, Observing, Polling
<1>2. FindingsJustified'
  BY DEF FindingsJustified, LastTime
<1>3. Awaited'
  <2>1. Compact' = Compact /\ Frequent' = Frequent
    BY DEF Compact, Frequent, Everywhere, Positions
  <2>2. Unblamed' => Unblamed
    BY <2>1 DEF Unblamed
  <2>3. Unblamed => \A k \in 1..Len(Observers), p \in ProviderSet : <<Observers[k], p>> \in observed
    BY DEF Awaited, Overdue
  <2> QED
    BY <2>2, <2>3 DEF Awaited, Observing
<1> QED
  BY <1>1, <1>2, <1>3

\* The last injected flight is deleted, or its deletion fails
LEMMA CleanupKeepsIInv ==
    ASSUME IInv, Cleanup
    PROVE  IInv'
<1> DEFINE p == injected[Len(injected)]
<1>0. /\ pc = "cleanup" /\ injected # <<>> /\ injected' = Front(injected)
      /\ pc' = "cleanup" /\ limit' = now + MaxDelay
      /\ UNCHANGED <<now, track, start, hidden, turn, obs, next, error, observed>>
  BY DEF Cleanup, Call, setup
<1>1. now \in Nat /\ injected \in Seq(ProviderSet) /\ faults \in Nat /\ findings \in SUBSET Finding
  BY DEF IInv, TypeInv
<1>2. Len(injected) \in Nat /\ Len(injected) > 0 /\ p \in ProviderSet
  BY <1>0, <1>1
<1>3. injected' \in Seq(ProviderSet)
  <2>1. injected' = SubSeq(injected, 1, Len(injected) - 1)
    BY <1>0 DEF Front
  <2> QED
    BY <1>1, <1>2, <2>1
<1>4. Found("Successful test deletion", p) \in Finding
  BY <1>1, <1>2 DEF Found, Finding, Checks
<1>5. /\ (findings' = findings /\ faults' = faults)
         \/ (faults' = faults + 1 /\ findings' = findings \cup {Found("Successful test deletion", p)})
      /\ isas' = [isas EXCEPT ![p] = None] \/ isas' = isas
      /\ tests' = tests \ {p} \/ tests' = tests
  BY DEF Cleanup, NoFault, Fault, delete_test, delete_isa, network
<1> HIDE DEF p
<1>6. isas' \in [ProviderSet -> {None} \cup [from : Int, to : Int]] /\ tests' \in SUBSET ProviderSet
  BY <1>2, <1>5 DEF IInv, TypeInv
<1>7. faults' \in Nat /\ findings' \in SUBSET Finding /\ findings \subseteq findings'
      /\ ((findings' = findings /\ faults' = faults) \/ faults' # 0)
  <2>1. CASE findings' = findings /\ faults' = faults
    BY <1>1, <2>1
  <2>2. CASE faults' = faults + 1 /\ findings' = findings \cup {Found("Successful test deletion", p)}
    <3>1. faults' \in Nat /\ faults' # 0
      <4>1. faults \in Nat /\ faults' = faults + 1
        BY <1>1, <2>2
      <4> QED
        BY <4>1
    <3>2. findings' \in SUBSET Finding /\ findings \subseteq findings'
      BY <1>1, <1>4, <2>2
    <3> QED
      BY <3>1, <3>2
  <2> QED
    BY <1>5, <2>1, <2>2
<1>8. TypeInv'
  <2>1. limit' \in Nat /\ now <= limit'
    BY <1>0, <1>1, Constant
  <2> QED
    BY <1>0, <1>3, <1>6, <1>7, <2>1 DEF IInv, TypeInv, Scenario
<1>9. Served' /\ Clocks' /\ Rectangle' /\ End' /\ Answer' /\ FindingsJustified' /\ Awaited'
  BY <1>0, <1>7, CleanupStays
<1> QED
  BY <1>8, <1>9 DEF IInv

\* The scenario is complete when nothing is injected any more
LEMMA EndCleanupKeepsIInv ==
    ASSUME IInv, EndCleanup
    PROVE  IInv'
<1>0. /\ pc = "cleanup" /\ pc' = "complete" /\ limit' = now
      /\ UNCHANGED <<now, track, start, hidden, isas, tests, turn, injected, obs, next, findings, error,
                     observed, faults>>
  BY DEF EndCleanup, setup, network, report
<1>1. TypeInv'
  BY <1>0 DEF IInv, TypeInv, Scenario
<1>2. faults' \in Nat
  BY <1>0 DEF IInv, TypeInv
<1>3. Served' /\ Clocks' /\ Rectangle' /\ End' /\ Answer' /\ FindingsJustified' /\ Awaited'
  BY <1>0, <1>2, CleanupStays
<1> QED
  BY <1>1, <1>3 DEF IInv

\* Every step of the scenario keeps the invariant
LEMMA NextKeepsIInv ==
    ASSUME IInv, [Next]_vars
    PROVE  IInv'
<1>1. ASSUME NEW p \in ProviderSet, Inject(p) PROVE IInv'
  BY <1>1, InjectKeepsIInv
<1>2. ASSUME NEW p \in ProviderSet, AskProvider(p) PROVE IInv'
  BY <1>2, AskKeepsIInv
<1>3. CASE BeginPolling
  BY <1>3, BeginPollingKeepsIInv
<1>4. CASE Poll
  BY <1>4, PollKeepsIInv
<1>5. CASE Wait
  BY <1>5, WaitKeepsIInv
<1>6. CASE WakeUp
  BY <1>6, WakeUpKeepsIInv
<1>7. CASE SearchISAs
  BY <1>7, SearchKeepsIInv
<1>8. CASE EvaluateObservation
  BY <1>8, EvaluateKeepsIInv
<1>9. CASE Cleanup
  BY <1>9, CleanupKeepsIInv
<1>10. CASE EndCleanup
  BY <1>10, EndCleanupKeepsIInv
<1>11. CASE Tick
  BY <1>11, TickKeepsIInv
<1>12. CASE Complete \/ UNCHANGED vars
  BY <1>12, StutteringKeepsIInv DEF Complete
<1> QED
  BY <1>1, <1>2, <1>3, <1>4, <1>5, <1>6, <1>7, <1>8, <1>9, <1>10, <1>11, <1>12 DEF Next, Step

\* The invariant is an invariant of the scenario
LEMMA Invariance == Spec => []IInv
BY InitIInv, NextKeepsIInv, PTL DEF Spec

\* The nominal behaviour scenario does not blame a system that works, however
\* many providers and observers there are and whatever the flights, as long as
\* calls and rounds are as fast as the evaluator takes for granted
\* (display_data_evaluator.py:62-77, 139-219)
THEOREM FindingsAlwaysJustified == Spec => []FindingsJustified
BY Invariance, PTL DEF IInv

\* A nominal behaviour scenario that succeeds has had every flight displayed by
\* every observer, if the flights are compact and the polling is frequent
\* enough, whatever calls fail and whatever the observers withhold
\* (nominal_behavior.py:149-177, display_data_evaluator.py:85-105, 192-213)
THEOREM SuccessAlwaysMeansObserved == Spec => []SuccessMeansObserved
<1>1. ASSUME IInv PROVE SuccessMeansObserved
  <2>1. SUFFICES ASSUME successful, Compact, Frequent, NEW o \in ObserverSet, NEW p \in ProviderSet
                 PROVE  <<o, p>> \in observed
    BY DEF SuccessMeansObserved
  <2>2. PICK k \in 1..Len(Observers) : Observers[k] = o
    BY Listed
  <2>3. Unblamed /\ ~Overdue(k)
    BY <2>1 DEF successful, Unblamed, Overdue
  <2> QED
    BY <1>1, <2>2, <2>3 DEF IInv, Awaited
<1> QED
  BY <1>1, Invariance, PTL
=============================================================================
