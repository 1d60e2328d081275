------------------------------ MODULE Interop ------------------------------
(***************************************************************************)
(* The interoperability test suite for a DSS region                        *)
(* (src/monitoring/interoperability).  startTest runs one round per        *)
(* permutation of the DSS instances, the first of which is the primary.  A *)
(* round runs testStep1 .. testStep17, one request after the other, until  *)
(* an assertion fails, and then cleans up what its context remembers.      *)
(* A test context maps the name of an entity to its identifier, and the    *)
(* identifier to the version the DSS answered with: here one entry         *)
(* [name, version], in the order in which the names are entered.           *)
(*                                                                         *)
(* The DSS instances answer as those of src/pkg/rid do.  They share a      *)
(* store, unless an instance was never joined to the region; `fault` says  *)
(* what an instance does wrong, once and for all.  A request can also fail *)
(* once in a while (`glitches`), and time passes between requests.         *)
(***************************************************************************)
EXTENDS Integers, Sequences, FiniteSets, SequencesExt, TLC

CONSTANTS DSSs,          \* the DSS instances under test
          Region,        \* the store the instances of the region share
          Second,        \* ticks of the clock per second
          Short,         \* SHORT_WAIT_SEC
          Long,          \* ten minutes
          Limit,         \* maxSubscriptionsPerArea
          MaxOld,        \* bound on the subscriptions an earlier run left behind
          MaxFaulty,     \* bound on the instances that are at fault
          MaxDelay,      \* bound on the time a round loses between two requests
          MaxGlitches    \* bound on the requests that fail

ASSUME ConstantsAssumption ==
    /\ IsFiniteSet(DSSs) /\ Cardinality(DSSs) >= 2 /\ Region \notin DSSs
    /\ Short \in Nat \ {0} /\ MaxFaulty \in Nat /\ MaxDelay \in Nat /\ MaxGlitches \in Nat
    /\ Long \in Nat

ASSUME TimesAssumption ==
    /\ Second \in Nat \ {0} /\ Second <= Short
    /\ Long > 2 * Short + MaxDelay + Second

ASSUME LimitAssumption == Limit \in Nat /\ MaxOld \in 0..Cardinality(DSSs)

VARIABLES
    fault,      \* what each instance does wrong
    store,      \* the entities of each store, by identifier
    now,        \* the time
    round,      \* the number of the round
    mode,       \* "test", "cleanUp", "done" or "aborted"
    step,       \* the test step of the round
    index,      \* the request within the test step or within cleanUp
    slept,      \* the step's time.sleep has returned
    timeEnd,    \* time_end of the step
    context,    \* TestSteps.context
    passes,     \* calls of cleanUp still to make
    results,    \* the step each round failed at, 0 if it passed
    why,        \* the exception that ended the suite
    delay,      \* time lost in this round
    glitches,   \* failed requests so far
    bumpy,      \* a request of this round failed
    missed      \* identifiers whose last deletion failed in transit

vars == <<fault, store, now, round, mode, step, index, slept, timeEnd, context, passes, results,
          why, delay, glitches, bumpy, missed>>

Faults == {"none",          \* nothing
           "apart",         \* was never joined to the region
           "deaf",          \* names no subscription to notify
           "stale_isa",     \* returns deleted and expired ISAs
           "fixed_isa",     \* answers an update of an ISA, and changes nothing
           "expired_sub",   \* returns and notifies expired subscriptions
           "deleted_sub",   \* returns and notifies deleted subscriptions
           "misnotified"}   \* notifies deleted and expired subscriptions, and does not return them
Glitch == {"none", "error", "late"}
NoVersion == 0

n == Cardinality(DSSs)
Numbers == 0..n
ISANames == {<<"isa", k, 0>> : k \in 1..3}
SubNames == {<<"sub", k, i>> : k \in 1..3, i \in 1..n}
Names == ISANames \cup SubNames
IsISA(name) == name[1] = "isa"

----------------------------------------------------------------------------
(* The DSS instances: what the suite expects of them, and the ways in      *)
(* which an instance can disappoint it.  Requests take time: an entity     *)
(* whose end is now has ended when the request arrives.                    *)

Pool(d) == IF fault[d] = "apart" THEN d ELSE Region
Held(d) == store[Pool(d)]
Live(d, id) == id \in DOMAIN Held(d) /\ Held(d)[id].live

\* Entities an instance returns for the area: those that are neither deleted nor expired.
Found(d, deleted, expired) ==
    {id \in DOMAIN Held(d) : /\ Held(d)[id].live \/ fault[d] \in deleted
                             /\ Held(d)[id].ends > now \/ fault[d] \in expired}
SubsInArea(d) == {id \in Found(d, {"deleted_sub"}, {"expired_sub"}) : ~IsISA(id[2])}
ISAsInArea(d) == {id \in Found(d, {"stale_isa"}, {"stale_isa"}) : IsISA(id[2])}

\* The subscriptions it names in the answer to a change of an ISA
Notified(d) ==
    IF fault[d] = "deaf" THEN {}
    ELSE {id \in Found(d, {"deleted_sub", "misnotified"}, {"expired_sub", "misnotified"}) :
              ~IsISA(id[2])}

\* The subscriptions of the suite that count against the limit of one client in one area
Counted(d) == {id \in Found(d, {}, {}) : ~IsISA(id[2])}

\* An entity can be created, or updated by who knows its version, to end in the future; it can be
\* deleted by who knows its version.
Stored(d, id, version, ends) ==
    [store EXCEPT ![Pool(d)] =
        [i \in DOMAIN @ \cup {id} |->
            IF i = id THEN [version |-> version, ends |-> ends, live |-> TRUE] ELSE @[i]]]
Deletable(d, id, version) == Live(d, id) /\ Held(d)[id].version = version
Deleted(d, id) == [store EXCEPT ![Pool(d)][id].live = FALSE]

\* One request: it is accepted or refused by the instance, and it may fail without effect
\* ("error") or after it took effect ("late").
Request(g, accepted, effect) ==
    /\ g # "none" => glitches < MaxGlitches
    /\ glitches' = IF g = "none" THEN glitches ELSE glitches + 1
    /\ bumpy' = (bumpy \/ g # "none")
    /\ store' = IF accepted /\ g # "error" THEN effect ELSE store

----------------------------------------------------------------------------
(* startTest: the rounds, and the end of a test step.                      *)

permutations == SetToSeq(SetToSeqs(DSSs))
all_dss == permutations[round]
primary == all_dss[1]
Id(name) == <<round, name>>

Entered(name) == \E k \in DOMAIN context : context[k].name = name
Version(name) == context[CHOOSE k \in DOMAIN context : context[k].name = name].version
Named(k) == {Id(<<"sub", k, i>>) : i \in {j \in 1..n : Entered(<<"sub", k, j>>)}}

Testing(k) == mode = "test" /\ step = k

NextStep ==
    /\ step' = IF step = 17 THEN step ELSE step + 1
    /\ mode' = IF step = 17 THEN "cleanUp" ELSE mode
    /\ results' = IF step = 17 THEN Append(results, 0) ELSE results
    /\ passes' = IF step = 17 THEN 1 ELSE passes
    /\ index' = 1 /\ slept' = FALSE

\* A failed assertion: the round's cleanUp is called in the except clause and again after the loop.
AssertionFails ==
    /\ mode' = "cleanUp" /\ index' = 1 /\ passes' = 2 /\ results' = Append(results, step)
    /\ UNCHANGED <<step, slept>>

Asserted(passed, last) ==
    IF ~passed THEN AssertionFails
    ELSE IF last THEN NextStep
    ELSE index' = index + 1 /\ UNCHANGED <<step, mode, results, passes, slept>>

\* What no test step changes.
Steady == UNCHANGED <<fault, now, round, why, delay, missed>>

----------------------------------------------------------------------------
(* The requests the test steps are made of.                                *)

\* The instance that is asked, what it returns for the area, and the subscriptions that the primary
\* instance names as to be notified.
asked == all_dss[index]
isas == ISAsInArea(asked)
subs == SubsInArea(asked)
notified == Notified(primary)

\* The version saved for an entity that was created.
Saved(passed) == IF passed THEN 1 ELSE NoVersion

\* time_end.strftime(DATE_FORMAT): the time in whole seconds.
WholeSeconds(t) == t - (t % Second)

\* dss.put of a new ISA with ten minutes to live; the name is entered in the context before the
\* request, the version after the last assertion.
PutISA(name, expected) ==
    \E g \in Glitch :
        LET passed == g = "none" /\ expected IN
        /\ Request(g, TRUE, Stored(primary, Id(name), 1, WholeSeconds(now + Long)))
        /\ context' = Append(context, [name |-> name, version |-> Saved(passed)])
        /\ Asserted(passed, TRUE)
        /\ UNCHANGED timeEnd /\ Steady

\* dss.put of one subscription per instance, all with the end computed before the first.  The
\* instance refuses it when the end is past or the client has Limit subscriptions in the area.
PutSub(k, ttl, expected) ==
    \E g \in Glitch :
        LET name == <<"sub", k, index>>
            ends == IF index = 1 THEN WholeSeconds(now + ttl) ELSE timeEnd
            accepted == ends > now /\ Cardinality(Counted(asked)) < Limit
            passed == g = "none" /\ accepted /\ expected
        IN
        /\ Request(g, accepted, Stored(asked, Id(name), 1, ends))
        /\ timeEnd' = ends
        /\ context' = Append(context, [name |-> name, version |-> Saved(passed)])
        /\ Asserted(passed, index = n)
        /\ Steady

\* dss.get, from every instance in turn.
GetFromAll(expected) ==
    \E g \in Glitch :
        /\ Request(g, FALSE, store)
        /\ Asserted(g = "none" /\ expected, index = n)
        /\ UNCHANGED <<timeEnd, context>> /\ Steady

\* dss.delete at the primary instance.
DeleteAtPrimary(name, last, expected) ==
    \E g \in Glitch :
        LET accepted == Deletable(primary, Id(name), Version(name)) IN
        /\ Request(g, accepted, Deleted(primary, Id(name)))
        /\ Asserted(g = "none" /\ accepted /\ expected, last)
        /\ UNCHANGED <<timeEnd, context>> /\ Steady

----------------------------------------------------------------------------
(* The test steps.                                                         *)

testStep1 == Testing(1) /\ PutISA(<<"isa", 1, 0>>, TRUE)

testStep2 == Testing(2) /\ PutSub(1, Long, Id(<<"isa", 1, 0>>) \in isas)

testStep3 == Testing(3) /\ GetFromAll(Live(asked, Id(<<"sub", 1, 1>>)))

testStep4 == Testing(4) /\ GetFromAll(Named(1) \subseteq subs)

\* ISA_1 is read (index 1) and then updated with the version that was read (index 2) to end soon;
\* the answer has to have the new end.  The version of the update is not saved.
testStep5 ==
    LET id == Id(<<"isa", 1, 0>>)
        ends == WholeSeconds(now + Short)
        updates == fault[primary] # "fixed_isa"
    IN
    /\ Testing(5)
    /\ \E g \in Glitch :
          \/ /\ index = 1
             /\ Request(g, FALSE, store)
             /\ Asserted(g = "none" /\ Live(primary, id), FALSE)
          \/ /\ index = 2
             /\ Request(g, updates, Stored(primary, id, Held(primary)[id].version + 1, ends))
             /\ Asserted(g = "none" /\ (updates \/ Held(primary)[id].ends = ends), TRUE)
    /\ UNCHANGED <<timeEnd, context>> /\ Steady

testStep6 == Testing(6) /\ DeleteAtPrimary(<<"sub", 1, index>>, index = n, TRUE)

testStep7 == Testing(7) /\ GetFromAll(~Live(asked, Id(<<"sub", 1, index>>)))

\* The identifiers returned are compared with the names of the subscriptions, none of which is an
\* identifier: whatever is returned passes.
testStep8 == Testing(8) /\ GetFromAll(subs \cap SubNames = {})

testStep9 == Testing(9) /\ slept /\ PutSub(2, Short, Id(<<"isa", 1, 0>>) \notin isas)

testStep10 == Testing(10) /\ PutISA(<<"isa", 2, 0>>, Named(2) \subseteq notified)

testStep11 == Testing(11) /\ DeleteAtPrimary(<<"isa", 2, 0>>, TRUE, Named(2) \subseteq notified)

\* As in testStep8, identifiers are compared with names.
testStep12 == Testing(12) /\ slept /\ PutISA(<<"isa", 3, 0>>, notified \cap SubNames = {})

\* Mutant: testStep13 compares identifiers with names, as testStep8 does.
testStep13Names == Testing(13) /\ GetFromAll(subs \cap SubNames = {})

testStep13 == Testing(13) /\ GetFromAll(subs \cap Named(2) = {})

testStep14 == Testing(14) /\ GetFromAll(Live(asked, Id(<<"sub", 2, index>>)))

\* As in testStep8, identifiers are compared with names.
testStep15 == Testing(15) /\ DeleteAtPrimary(<<"isa", 3, 0>>, TRUE, notified \cap SubNames = {})

testStep16 == Testing(16) /\ PutSub(3, Long, Id(<<"isa", 3, 0>>) \notin isas)

testStep17 == Testing(17) /\ DeleteAtPrimary(<<"sub", 3, index>>, index = n, TRUE)

\* Mutant: the wait is shorter than the time to live it waits for.
SleepLess ==
    /\ mode = "test" /\ step \in {9, 12} /\ index = 1 /\ ~slept
    /\ slept' = TRUE /\ now' = now + Short - 1
    /\ UNCHANGED <<fault, store, round, mode, step, index, timeEnd, context, passes, results, why,
                   delay, glitches, bumpy, missed>>

\* time.sleep(SHORT_WAIT_SEC) at the start of testStep9 and testStep12.
Sleep ==
    /\ mode = "test" /\ step \in {9, 12} /\ index = 1 /\ ~slept
    /\ slept' = TRUE /\ now' = now + Short
    /\ UNCHANGED <<fault, store, round, mode, step, index, timeEnd, context, passes, results, why,
                   delay, glitches, bumpy, missed>>

----------------------------------------------------------------------------
(* cleanUp                                                                 *)

\* The next round, with a new TestSteps, or the end of the suite.
RoundEnds ==
    /\ mode' = IF round = Len(permutations) THEN "done" ELSE "test"
    /\ round' = IF round = Len(permutations) THEN round ELSE round + 1
    /\ IF round = Len(permutations)
       THEN UNCHANGED <<step, context, delay, bumpy, missed>>
       ELSE step' = 1 /\ context' = <<>> /\ delay' = 0 /\ bumpy' = FALSE /\ missed' = {}
    /\ index' = 1 /\ slept' = FALSE /\ passes' = 0
    /\ UNCHANGED <<glitches, store, why>>

\* Mutant: the branch for subscriptions is missing.
cleanUpISAsOnly ==
    LET entry == context[index] IN
    /\ index <= Len(context)
    /\ IF IsISA(entry.name) /\ entry.version = NoVersion
       THEN /\ mode' = "aborted" /\ why' = "KeyError"
            /\ UNCHANGED <<glitches, bumpy, store, missed, index>>
       ELSE /\ Request("none", IsISA(entry.name) /\ Deletable(primary, Id(entry.name), entry.version),
                       Deleted(primary, Id(entry.name)))
            /\ index' = index + 1
            /\ UNCHANGED <<missed, mode, why>>
    /\ UNCHANGED <<round, step, context, passes, slept, delay>>

\* One entity of the context: its version is looked up by its identifier, which raises KeyError
\* when the version was never saved.  The answer to the deletion is not looked at.
cleanUpEntity ==
    LET entry == context[index] IN
    /\ index <= Len(context)
    /\ IF entry.version = NoVersion
       THEN /\ mode' = "aborted" /\ why' = "KeyError"
            /\ UNCHANGED <<glitches, bumpy, store, missed, index>>
       ELSE \E g \in Glitch :
               /\ Request(g, Deletable(primary, Id(entry.name), entry.version),
                          Deleted(primary, Id(entry.name)))
               /\ missed' = IF g = "error" THEN missed \cup {Id(entry.name)}
                            ELSE missed \ {Id(entry.name)}
               /\ index' = index + 1
               /\ UNCHANGED <<mode, why>>
    /\ UNCHANGED <<round, step, context, passes, slept, delay>>


cleanUp ==
    /\ mode = "cleanUp"
    /\ \/ cleanUpEntity
       \/ /\ index > Len(context)
          /\ IF passes = 1 THEN RoundEnds
             ELSE /\ passes' = passes - 1 /\ index' = 1
                  /\ UNCHANGED <<mode, round, step, context, delay, bumpy, missed, slept, glitches,
                                 store, why>>
    /\ UNCHANGED <<fault, now, timeEnd, results>>

\* A request raises something other than an AssertionError: nothing catches it.
Raises ==
    /\ mode \in {"test", "cleanUp"} /\ glitches < MaxGlitches
    /\ glitches' = glitches + 1 /\ mode' = "aborted" /\ why' = "raised"
    /\ UNCHANGED <<fault, store, now, round, step, index, slept, timeEnd, context, passes, results,
                   delay, bumpy, missed>>

\* Once in a round, time is lost between two requests.
Delay ==
    /\ mode = "test" /\ delay = 0
    /\ \E d \in 1..MaxDelay : now' = now + d /\ delay' = d
    /\ UNCHANGED <<fault, store, round, mode, step, index, slept, timeEnd, context, passes, results,
                   why, glitches, bumpy, missed>>

----------------------------------------------------------------------------
\* What an earlier run of the suite left behind when an exception ended it
OldSubs(k) == [id \in {<<0, <<"sub", 1, i>>>> : i \in 1..k} |->
                  [version |-> 1, ends |-> Long, live |-> TRUE]]

Init ==
    /\ fault \in {f \in [DSSs -> Faults] : Cardinality({d \in DSSs : f[d] # "none"}) <= MaxFaulty}
    /\ \E k \in 0..MaxOld :
          store = [p \in DSSs \cup {Region} |-> IF p = Region THEN OldSubs(k) ELSE <<>>]
    /\ now = 0 /\ round = 1 /\ mode = "test" /\ step = 1 /\ index = 1 /\ slept = FALSE
    /\ timeEnd = 0 /\ context = <<>> /\ passes = 0 /\ results = <<>> /\ why = "none"
    /\ delay = 0 /\ glitches = 0 /\ bumpy = FALSE /\ missed = {}

startTest ==
    \/ testStep1 \/ testStep2 \/ testStep3 \/ testStep4 \/ testStep5 \/ testStep6 \/ testStep7
    \/ testStep8 \/ testStep9 \/ testStep10 \/ testStep11 \/ testStep12 \/ testStep13
    \/ testStep14 \/ testStep15 \/ testStep16 \/ testStep17 \/ Sleep \/ cleanUp

Next == startTest \/ Raises \/ Delay

Spec == Init /\ [][Next]_vars

----------------------------------------------------------------------------
(* Properties                                                              *)

\* What a round does not notice in an instance, whether it is the primary or not: that it returns
\* or notifies deleted subscriptions, or notifies expired ones (testStep8, testStep12 and testStep15
\* compare identifiers with names); and what a round does not notice in the other instances.
Unnoticed == {"none", "deleted_sub", "misnotified"}
UnnoticedInOthers == Unnoticed \cup {"deaf", "fixed_isa"}

\* A round that passes shows that every instance shares the region's store, returns neither deleted
\* nor expired ISAs and no expired subscriptions in a search, and that the primary instance updates
\* ISAs and names the subscriptions to notify.  It does not show that the primary instance names no
\* others, which testStep12 and testStep15 are for, nor that a search returns no deleted
\* subscription, which testStep8 is for.
PassMeansInteroperable ==
    \A r \in DOMAIN results :
        results[r] = 0 => /\ \A d \in DSSs : fault[d] \in UnnoticedInOthers
                          /\ fault[permutations[r][1]] \in Unnoticed

\* The subscriptions that earlier rounds and an earlier run left behind
LeftBehind == {id \in DOMAIN store[Region] : /\ id[1] < round /\ ~IsISA(id[2])
                                             /\ store[Region][id].live /\ store[Region][id].ends > now}

\* A round fails only if an instance is at fault, a request of the round failed, the round was held
\* up for longer than the shortest time to live it uses less the second that writing its end may
\* cut off, or its instances are so many that, with the subscriptions left behind, they exceed the
\* DSS's limit of subscriptions: the suite's own waits and versions never fail it.
FailuresExplained ==
    mode = "cleanUp" /\ results[round] # 0 =>
        \/ \E d \in DSSs : fault[d] \notin Unnoticed
        \/ bumpy
        \/ delay > Short - Second
        \/ Cardinality(LeftBehind) + n > Limit

\* When the last cleanUp of a round returns, what the round created is deleted, apart from ISA_1
\* (whose saved version testStep5 makes stale, and which then ends within SHORT_WAIT_SEC), what was
\* created at an instance outside the primary's region, and a deletion that failed in transit.
RoundCleansUp ==
    mode = "cleanUp" /\ index > Len(context) /\ passes = 1 =>
        \A k \in DOMAIN context :
            LET id == Id(context[k].name) IN
            \/ ~Live(primary, id)
            \/ id = Id(<<"isa", 1, 0>>) /\ step >= 5 /\ Held(primary)[id].ends <= now + Short
            \/ id \in missed

\* A failed assertion ends its round, and the next round follows: the message that startTest logs
\* says "Continuing to next round if any".  Only what is not an AssertionError of a test step ends
\* the suite.  (The code does otherwise: cleanUp looks up the version of an entity whose creation
\* failed, and the KeyError ends the suite.)
ContinuesToNextRound == mode = "aborted" => why = "raised"

============================================================================
