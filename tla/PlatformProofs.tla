------------------------------ MODULE PlatformProofs ------------------------------
(***************************************************************************)
(* What the packages every service shares promise (pkg/circuitbreaker with *)
(* pkg/retry, pkg/idempotency, pkg/ratelimit, pkg/servicetoken), for any   *)
(* number of concurrent calls and any limits: the probes of a half-open    *)
(* circuit, the request that is sent again, the window of the limiter and  *)
(* the migration of the service keys. And what auth-service promises about *)
(* one account, for any number of requests, administrators, sessions and   *)
(* tokens: the lockout bounds the guesses, a password reset revokes what   *)
(* came before it, and rights that were taken away are gone.               *)
(***************************************************************************)
EXTENDS Resilience, RequestGuards, ServiceIdentity, AuditTrail, LoginLockout, AuthSessions,
        AccessRights, SequenceTheorems, FiniteSetTheorems, TLAPS

-----------------------------------------------------------------------------
(* Counting *)

\* Taking part of a finite set: how many are left, and how many there may be.
LEMMA PartOfFinite ==
    ASSUME NEW S, IsFiniteSet(S), NEW T \in SUBSET S
    PROVE  /\ IsFiniteSet(T) /\ Cardinality(T) \in Nat /\ Cardinality(S) \in Nat
           /\ Cardinality(T) <= Cardinality(S)
    BY FS_Subset, FS_CardinalityType

\* One element more or less.
LEMMA OneMore ==
    ASSUME NEW S, IsFiniteSet(S), NEW x, x \notin S
    PROVE  IsFiniteSet(S \union {x}) /\ Cardinality(S \union {x}) = Cardinality(S) + 1
    BY FS_AddElement
\* The same, one away.
LEMMA OneLess ==
    ASSUME NEW S, IsFiniteSet(S), NEW x \in S
    PROVE  IsFiniteSet(S \ {x}) /\ Cardinality(S \ {x}) = Cardinality(S) - 1
    BY FS_RemoveElement

-----------------------------------------------------------------------------
(* The circuit breaker *)

\* The fields of Breaker.
CircuitState == [state : {"closed", "open", "half_open"}, failures : 0..FailureThreshold,
                 cooled : BOOLEAN, inFlight : 0..HalfOpenMaxCalls, successes : Nat]
\* A call is outside, or at an attempt and let through in some half-open period (0: closed).
CallState == {Outside} \union [step : {"running"}, attempt : Nat, probe : Nat]
ResilienceTypes ==
    /\ circuit \in CircuitState
    /\ call \in [Calls -> CallState]
    /\ round \in Nat /\ stale \in Nat
    /\ \A c \in Running : call[c].attempt \in 1..Attempts(c)
\* No call was let through as a probe of a period that is still to come.
ProbesHaveBegun == \A c \in Running : call[c].probe <= round
\* The slots taken are held by probes of this period, but for those that answers of
\* earlier calls gave back.
SlotsAreHeld ==
    circuit.state = "half_open" =>
        /\ round > 0
        /\ circuit.inFlight <= Cardinality(Probes)
        /\ Cardinality(Probes) <= circuit.inFlight + stale
ResilienceInv == ResilienceTypes /\ ProbesHaveBegun /\ SlotsAreHeld

\* Somebody outside is not running.
LEMMA OutsideIsNot == \A s \in CallState : s # Outside => s \in [step : {"running"}, attempt : Nat, probe : Nat]
    BY DEF CallState

\* The running calls, and the probes among them, are finitely many.
LEMMA ProbesFinite == IsFiniteSet(Calls) => /\ IsFiniteSet(Running) /\ Cardinality(Running) \in Nat
                      /\ IsFiniteSet(Probes) /\ Cardinality(Probes) \in Nat
                      /\ Cardinality(Probes) <= Cardinality(Running)
<1>1. Running \in SUBSET Calls /\ Probes \in SUBSET Running
    BY DEF Running, Probes
<1> QED
    BY <1>1, PartOfFinite, ResilienceAssumption

\* The configuration's numbers.
LEMMA ResilienceConstants ==
    /\ FailureThreshold \in Nat \ {0} /\ HalfOpenMaxCalls \in Nat \ {0}
    /\ SuccessesToClose \in Nat \ {0} /\ MaxAttempts \in Nat \ {0}
    /\ MaxPeriods \in Nat /\ IsFiniteSet(Calls)
    /\ \A c \in Calls : Attempts(c) \in Nat \ {0}
    BY ResilienceAssumption DEF ResilienceAssumption, Attempts

\* Looking at the circuit may begin a period, in which no slot is taken yet.
LEMMA LookingIn ==
    ASSUME ResilienceTypes, CountPeriod
    PROVE  /\ Current \in CircuitState
           /\ round' \in Nat /\ stale' \in Nat
           /\ \/ /\ Current = circuit /\ round' = round /\ stale' = stale
              \/ /\ Current.inFlight = 0 /\ round' = round + 1 /\ stale' = 0
                 /\ Current.state = "half_open"
<1> USE ResilienceConstants DEF ResilienceTypes, CountPeriod, CircuitState
<1>1. CASE HalfOpens
  <2>1. /\ Current = [circuit EXCEPT !.state = "half_open", !.inFlight = 0, !.successes = 0]
        /\ round' = round + 1 /\ stale' = 0
    BY <1>1 DEF Current
  <2>2. 0 \in 0..HalfOpenMaxCalls
    OBVIOUS
  <2>3. Current \in CircuitState /\ Current.state = "half_open" /\ Current.inFlight = 0
    BY <2>1, <2>2
  <2>4. round' \in Nat /\ stale' \in Nat
    BY <2>1
  <2> QED
    BY <2>1, <2>3, <2>4
<1>2. CASE ~HalfOpens
    BY <1>2 DEF Current
<1> QED
    BY <1>1, <1>2

\* A circuit starts closed, with nobody in it.
LEMMA InitResilience == ResilienceInit => ResilienceInv
  BY ResilienceConstants DEF ResilienceInit, ResilienceInv, ResilienceTypes, ProbesHaveBegun,
     SlotsAreHeld, CallState, CircuitState, Running

\* What a call does to its own entry, and what a recorded answer does to the circuit.
LEMMA LateAnswer ==
    ASSUME ResilienceTypes, NEW failure \in BOOLEAN
    PROVE  /\ Recorded(failure) \in CircuitState
           /\ Recorded(failure).state = "half_open" =>
                 /\ circuit.state = "half_open"
                 /\ Recorded(failure).inFlight = IF circuit.inFlight > 0 THEN circuit.inFlight - 1 ELSE 0
<1> USE ResilienceConstants DEF ResilienceTypes, CircuitState
<1>1. Opened \in CircuitState /\ Opened.state = "open" /\ Opened.failures = circuit.failures
  <2>1. 0 \in 0..HalfOpenMaxCalls /\ FALSE \in BOOLEAN
    OBVIOUS
  <2>2. Opened \in CircuitState
    BY <2>1 DEF Opened
  <2> QED
    BY <2>2 DEF Opened
<1>2. CASE circuit.state = "half_open"
  <2>1. CASE failure
    BY <1>1, <1>2, <2>1 DEF Recorded
  <2>2. CASE ~failure /\ circuit.successes + 1 >= SuccessesToClose
    <3>1. Recorded(failure) = [circuit EXCEPT !.state = "closed", !.failures = 0,
                                              !.inFlight = 0, !.successes = 0]
        BY <1>2, <2>2 DEF Recorded
    <3>2. 0 \in 0..HalfOpenMaxCalls /\ 0 \in 0..FailureThreshold
        OBVIOUS
    <3>3. Recorded(failure) \in CircuitState
      <4>1. Recorded(failure) = [state |-> "closed", failures |-> 0, cooled |-> circuit.cooled,
                                 inFlight |-> 0, successes |-> 0]
        BY <3>1
      <4> QED
        BY <3>2, <4>1
    <3>4. Recorded(failure).state = "closed"
        BY <3>1
    <3> QED
        BY <3>3, <3>4
  <2>3. CASE ~failure /\ ~(circuit.successes + 1 >= SuccessesToClose)
    <3>1. Recorded(failure) = [circuit EXCEPT !.successes = @ + 1,
                                              !.inFlight = IF @ > 0 THEN @ - 1 ELSE 0]
        BY <1>2, <2>3 DEF Recorded
    <3>2. Recorded(failure) \in CircuitState
      <4> DEFINE left == IF circuit.inFlight > 0 THEN circuit.inFlight - 1 ELSE 0
      <4>1. left \in 0..HalfOpenMaxCalls
        OBVIOUS
      <4>2. Recorded(failure) = [state |-> circuit.state, failures |-> circuit.failures,
               cooled |-> circuit.cooled, inFlight |-> left, successes |-> circuit.successes + 1]
        BY <3>1
      <4> HIDE DEF left
      <4> QED
        BY <4>1, <4>2
    <3>3. Recorded(failure).inFlight = IF circuit.inFlight > 0 THEN circuit.inFlight - 1 ELSE 0
        BY <3>1
    <3> QED
        BY <1>2, <3>2, <3>3
  <2> QED
    BY <2>1, <2>2, <2>3
<1>3. CASE circuit.state # "half_open"
  <2>1. CASE failure /\ circuit.failures + 1 >= FailureThreshold
    <3>1. Recorded(failure) = [Opened EXCEPT !.failures = IF @ < FailureThreshold THEN @ + 1 ELSE @]
        BY <1>3, <2>1 DEF Recorded
    <3> QED
        BY <1>1, <3>1
  <2>2. CASE ~(failure /\ circuit.failures + 1 >= FailureThreshold)
    BY <1>3, <2>2 DEF Recorded
  <2> QED
    BY <2>1, <2>2
<1> QED
    BY <1>2, <1>3

\* A call that is let through while the circuit is half open is a probe of this period
\* and takes a slot.
LEMMA AllowKeeps ==
    ASSUME ResilienceInv, NEW c \in Calls, Allow(c)
    PROVE  ResilienceInv'
<1> DEFINE entry == [step |-> "running", attempt |-> 1,
                     probe |-> IF Current.state = "half_open" THEN round' ELSE 0]
<1> USE ResilienceConstants
<1>1. /\ Current \in CircuitState /\ round' \in Nat /\ stale' \in Nat
      /\ \/ /\ Current = circuit /\ round' = round /\ stale' = stale
         \/ /\ Current.inFlight = 0 /\ round' = round + 1 /\ stale' = 0
            /\ Current.state = "half_open"
    BY LookingIn DEF Allow, ResilienceInv
<1>2. c \notin Running /\ call' = [call EXCEPT ![c] = entry]
    BY DEF Allow, Running
<1>3. entry \in CallState /\ entry # Outside /\ entry.attempt = 1
    BY <1>1 DEF CallState, Outside
<1>4. Running' = Running \union {c}
    BY <1>2, <1>3 DEF Running, ResilienceInv, ResilienceTypes
<1>5. /\ circuit' \in CircuitState
      /\ circuit'.state = "half_open" => /\ Current.state = "half_open"
                                         /\ circuit'.inFlight = Current.inFlight + 1
    BY <1>1 DEF Allow, CircuitState
<1>6. ResilienceTypes'
  <2>1. \A d \in Running' : call'[d].attempt \in 1..Attempts(d)
    BY <1>2, <1>3, <1>4 DEF ResilienceInv, ResilienceTypes, Running
  <2> QED
    BY <1>1, <1>2, <1>3, <1>5, <2>1 DEF ResilienceInv, ResilienceTypes
<1>7. ProbesHaveBegun'
  <2>1. \A d \in Running : call[d].probe \in Nat /\ call[d].probe <= round
    BY OutsideIsNot DEF ResilienceInv, ResilienceTypes, ProbesHaveBegun, Running
  <2>2. round <= round' /\ round \in Nat
    BY <1>1 DEF ResilienceInv, ResilienceTypes
  <2> QED
    BY <1>1, <1>2, <1>4, <2>1, <2>2 DEF ProbesHaveBegun, ResilienceInv, ResilienceTypes, Running
<1>8. SlotsAreHeld'
  <2> SUFFICES ASSUME circuit'.state = "half_open"
               PROVE  /\ round' > 0 /\ circuit'.inFlight <= Cardinality(Probes')
                      /\ Cardinality(Probes') <= circuit'.inFlight + stale'
    BY DEF SlotsAreHeld
  <2>1. Current.state = "half_open" /\ circuit'.inFlight = Current.inFlight + 1 /\ entry.probe = round'
    BY <1>5
  <2>2. CASE Current = circuit /\ round' = round /\ stale' = stale
    <3>1. Probes' = Probes \union {c} /\ c \notin Probes
        BY <1>2, <1>4, <2>1, <2>2 DEF Probes, ResilienceInv, ResilienceTypes, Running
    <3>2. Cardinality(Probes') = Cardinality(Probes) + 1
        BY <3>1, ProbesFinite, OneMore
    <3> QED
        BY <2>1, <2>2, <3>2, ProbesFinite
           DEF ResilienceInv, SlotsAreHeld, ResilienceTypes, CircuitState
  <2>3. CASE Current.inFlight = 0 /\ round' = round + 1 /\ stale' = 0
    <3>1. \A d \in Running : call[d].probe \in Nat /\ call[d].probe <= round
        BY OutsideIsNot DEF ResilienceInv, ResilienceTypes, ProbesHaveBegun, Running
    <3>2. Probes' = {c}
        BY <1>2, <1>4, <2>1, <2>3, <3>1 DEF Probes, ResilienceInv, ResilienceTypes, Running
    <3> QED
        BY <2>1, <2>3, <3>2, FS_Singleton DEF ResilienceInv, ResilienceTypes
  <2> QED
    BY <1>1, <2>2, <2>3
<1> QED
    BY <1>6, <1>7, <1>8 DEF ResilienceInv

\* An answer gives back one slot at most: that of a probe, or one in place of a call that
\* began in an earlier period.
LEMMA EndCallKeeps ==
    ASSUME ResilienceInv, NEW c \in Calls, NEW failure \in BOOLEAN, EndCall(c, failure)
    PROVE  ResilienceInv'
<1> USE ResilienceConstants
<1>1. c \in Running /\ call' = [call EXCEPT ![c] = Outside] /\ circuit' = Recorded(failure)
      /\ round' = round
    BY DEF EndCall, Running, Outside
<1>2. Running' = Running \ {c}
    BY <1>1 DEF Running, ResilienceInv, ResilienceTypes
<1>3. /\ circuit' \in CircuitState
      /\ circuit'.state = "half_open" =>
            /\ circuit.state = "half_open"
            /\ circuit'.inFlight = IF circuit.inFlight > 0 THEN circuit.inFlight - 1 ELSE 0
    BY <1>1, LateAnswer DEF ResilienceInv
<1>4. stale' \in Nat
    BY DEF EndCall, ResilienceInv, ResilienceTypes
<1>5. ResilienceTypes'
  <2>1. call' \in [Calls -> CallState]
    BY <1>1 DEF ResilienceInv, ResilienceTypes, CallState
  <2>2. \A d \in Running' : call'[d] = call[d]
    BY <1>1, <1>2 DEF Running, ResilienceInv, ResilienceTypes
  <2> QED
    BY <1>1, <1>2, <1>3, <1>4, <2>1, <2>2 DEF ResilienceInv, ResilienceTypes
<1>6. \A d \in Running' : d \in Running /\ call'[d] = call[d]
    BY <1>1, <1>2 DEF Running, ResilienceInv, ResilienceTypes
<1>7. ProbesHaveBegun'
    BY <1>1, <1>6 DEF ProbesHaveBegun, ResilienceInv
<1>8. SlotsAreHeld'
  <2> SUFFICES ASSUME circuit'.state = "half_open"
               PROVE  /\ round' > 0 /\ circuit'.inFlight <= Cardinality(Probes')
                      /\ Cardinality(Probes') <= circuit'.inFlight + stale'
    BY DEF SlotsAreHeld
  <2>1. /\ circuit.state = "half_open" /\ circuit.inFlight \in Nat /\ stale \in Nat
        /\ circuit'.inFlight = IF circuit.inFlight > 0 THEN circuit.inFlight - 1 ELSE 0
        /\ round > 0 /\ circuit.inFlight <= Cardinality(Probes)
        /\ Cardinality(Probes) <= circuit.inFlight + stale
    BY <1>3 DEF ResilienceInv, SlotsAreHeld, ResilienceTypes, CircuitState
  <2>2. CASE call[c].probe = round
    <3>1. Probes' = Probes \ {c} /\ c \in Probes
        BY <1>1, <1>2, <1>6, <2>2 DEF Probes
    <3>2. Cardinality(Probes') = Cardinality(Probes) - 1 /\ Cardinality(Probes') \in Nat
        BY <3>1, ProbesFinite, OneLess, FS_CardinalityType
    <3>3. stale' = stale
        BY <2>2 DEF EndCall
    <3> QED
        BY <1>1, <2>1, <3>2, <3>3, ProbesFinite
  <2>3. CASE call[c].probe # round
    <3>1. Probes' = Probes
        BY <1>1, <1>2, <1>6, <2>3 DEF Probes
    <3>2. stale' = stale + 1
        BY <2>1, <2>3 DEF EndCall
    <3> QED
        BY <1>1, <2>1, <3>1, <3>2, ProbesFinite
  <2> QED
    BY <2>2, <2>3
<1> QED
    BY <1>5, <1>7, <1>8 DEF ResilienceInv

\* A call that is refused leaves the slots as they are.
LEMMA RefuseKeeps ==
    ASSUME ResilienceInv, NEW c \in Calls, Refuse(c)
    PROVE  ResilienceInv'
<1> USE ResilienceConstants
<1>1. /\ Current \in CircuitState /\ round' \in Nat /\ stale' \in Nat
      /\ \/ /\ Current = circuit /\ round' = round /\ stale' = stale
         \/ /\ Current.inFlight = 0 /\ round' = round + 1 /\ stale' = 0
            /\ Current.state = "half_open"
    BY LookingIn DEF Refuse, ResilienceInv
<1>2. circuit' = Current /\ call' = call
    BY DEF Refuse
<1>3. Running' = Running
    BY <1>2 DEF Running
<1>4. \A d \in Running : call[d].probe \in Nat /\ call[d].probe <= round
    BY OutsideIsNot DEF ResilienceInv, ResilienceTypes, ProbesHaveBegun, Running
<1>5. ResilienceTypes'
    BY <1>1, <1>2, <1>3 DEF ResilienceInv, ResilienceTypes
<1>6. ProbesHaveBegun'
    BY <1>1, <1>2, <1>3, <1>4 DEF ProbesHaveBegun, ResilienceInv, ResilienceTypes
<1>7. CASE Current = circuit /\ round' = round /\ stale' = stale
  <2>1. Probes' = Probes
    BY <1>2, <1>3, <1>7 DEF Probes
  <2> QED
    BY <1>2, <1>5, <1>6, <1>7, <2>1 DEF ResilienceInv, SlotsAreHeld
<1>8. CASE Current.inFlight = 0 /\ round' = round + 1 /\ stale' = 0
  <2>1. Probes' = {}
    BY <1>2, <1>3, <1>4, <1>8 DEF Probes, ResilienceInv, ResilienceTypes
  <2>2. Cardinality(Probes') = 0
    BY <2>1, FS_EmptySet
  <2> QED
    BY <1>2, <1>5, <1>6, <1>8, <2>2 DEF ResilienceInv, SlotsAreHeld, ResilienceTypes
<1> QED
    BY <1>1, <1>7, <1>8

\* Another attempt of the same call, and the passing of time, take and give no slot.
LEMMA OtherStepsKeep ==
    ASSUME ResilienceInv,
           CooldownPasses \/ (\E c \in Calls : TryAgain(c)) \/ UNCHANGED resilienceVars
    PROVE  ResilienceInv'
<1> USE ResilienceConstants
<1>1. CASE CooldownPasses
  <2>1. circuit' \in CircuitState /\ circuit'.state = "open"
    BY <1>1 DEF CooldownPasses, ResilienceInv, ResilienceTypes, CircuitState
  <2>2. call' = call /\ round' = round /\ stale' = stale /\ Running' = Running
    BY <1>1 DEF CooldownPasses, Running
  <2> QED
    BY <2>1, <2>2 DEF ResilienceInv, ResilienceTypes, ProbesHaveBegun, SlotsAreHeld
<1>2. ASSUME NEW c \in Calls, TryAgain(c) PROVE ResilienceInv'
  <2>1. c \in Running /\ call' = [call EXCEPT ![c].attempt = @ + 1]
    BY <1>2 DEF TryAgain, Running, Outside
  <2>2. call[c] \in [step : {"running"}, attempt : Nat, probe : Nat]
    BY <2>1, OutsideIsNot DEF ResilienceInv, ResilienceTypes, Running
  <2>3. /\ call' \in [Calls -> CallState]
        /\ call'[c] # Outside /\ call'[c].probe = call[c].probe
        /\ call'[c].attempt = call[c].attempt + 1
        /\ \A d \in Calls \ {c} : call'[d] = call[d]
    BY <2>1, <2>2 DEF ResilienceInv, ResilienceTypes, CallState, Outside, Running
  <2>4. Running' = Running /\ \A d \in Running : call'[d].probe = call[d].probe
    BY <2>1, <2>3 DEF Running
  <2>5. circuit' = circuit /\ round' = round /\ stale' = stale
    BY <1>2 DEF TryAgain
  <2>6. Probes' = Probes
    BY <2>4, <2>5 DEF Probes
  <2>7. \A d \in Running' : call'[d].attempt \in 1..Attempts(d)
    BY <1>2, <2>2, <2>3, <2>4 DEF TryAgain, ResilienceInv, ResilienceTypes, Running
  <2> QED
    BY <2>3, <2>4, <2>5, <2>6, <2>7
       DEF ResilienceInv, ResilienceTypes, ProbesHaveBegun, SlotsAreHeld
<1>3. CASE UNCHANGED resilienceVars
    BY <1>3 DEF resilienceVars, ResilienceInv, ResilienceTypes, ProbesHaveBegun, SlotsAreHeld,
                Running, Probes
<1> QED
    BY <1>1, <1>2, <1>3

\* A half-open circuit counts as taken only slots that calls still running hold, and lets
\* no more probes through than configured (pkg/circuitbreaker, allow and record), for any
\* number of calls, thresholds and attempts.
THEOREM SlotsAreAlwaysHeld == ResilienceSpec => []ProbeSlotsAreHeld
<1>1. ResilienceInv /\ [ResilienceNext]_resilienceVars => ResilienceInv'
    BY AllowKeeps, EndCallKeeps, RefuseKeeps, OtherStepsKeep DEF ResilienceNext
<1>2. ResilienceInv => ProbeSlotsAreHeld
    BY ProbesFinite, ResilienceConstants
       DEF ResilienceInv, SlotsAreHeld, ProbeSlotsAreHeld, ResilienceTypes, CircuitState
<1> QED
    BY InitResilience, <1>1, <1>2, PTL DEF ResilienceSpec

-----------------------------------------------------------------------------
(* The idempotency store *)

\* What a request may be doing, and what it was answered.
RetryState == {NotSent} \union [step : {"lookup"}] \union [step : {"run"}, owner : BOOLEAN]
              \union [step : {"save", "answered"}, with : SUBSET Retries]
IdemTypes ==
    /\ key \in Retries \union {"absent", "in_flight"} /\ effects \subseteq Retries
    /\ retry \in [Retries -> RetryState] /\ slipUps \in Nat
\* An answer that is kept or was given tells of something that happened.
AnswersHappened ==
    /\ key \in Retries => key \in effects
    /\ \A r \in Retries :
         /\ retry[r].step = "save" => r \in effects
         /\ retry[r].step \in {"save", "answered"} => retry[r].with \subseteq effects
\* Who executed or is about to: one holds the key, the others owe it to a slip.
Executing == {r \in Retries : retry[r].step = "run"}
OneHoldsTheKey ==
    Cardinality(effects \union Executing) <= slipUps + (IF key = "absent" THEN 0 ELSE 1)
IdemInv == IdemTypes /\ AnswersHappened /\ OneHoldsTheKey

\* The requests that execute are finitely many.
LEMMA ExecutingFinite ==
    ASSUME IdemTypes
    PROVE  IsFiniteSet(effects \union Executing) /\ Cardinality(effects \union Executing) \in Nat
<1>1. effects \union Executing \in SUBSET Retries
    BY DEF IdemTypes, Executing
<1> QED
    BY <1>1, PartOfFinite, GuardAssumption DEF GuardAssumption

\* One request more that may execute counts once at most.
LEMMA OneMoreExecutes ==
    ASSUME IdemTypes, NEW r \in Retries,
           effects' \union Executing' \subseteq (effects \union Executing) \union {r}
    PROVE  /\ Cardinality(effects' \union Executing') <= Cardinality(effects \union Executing) + 1
           /\ Cardinality(effects' \union Executing') \in Nat
           /\ Cardinality(effects \union Executing) \in Nat
<1> DEFINE before == effects \union Executing
           after == effects' \union Executing'
<1>1. IsFiniteSet(before) /\ Cardinality(before) \in Nat
    BY ExecutingFinite
<1>2. IsFiniteSet(before \union {r}) /\ Cardinality(before \union {r}) <= Cardinality(before) + 1
    BY <1>1, FS_AddElement
<1> HIDE DEF before, after
<1>3. Cardinality(after) <= Cardinality(before \union {r}) /\ Cardinality(after) \in Nat
      /\ Cardinality(before \union {r}) \in Nat
    BY <1>2, PartOfFinite DEF before, after
<1> QED
    BY <1>1, <1>2, <1>3 DEF before, after

\* Nobody more executes.
LEMMA NobodyMoreExecutes ==
    ASSUME IdemTypes, effects' \union Executing' \subseteq effects \union Executing
    PROVE  /\ Cardinality(effects' \union Executing') <= Cardinality(effects \union Executing)
           /\ Cardinality(effects' \union Executing') \in Nat
           /\ Cardinality(effects \union Executing) \in Nat
    BY ExecutingFinite, PartOfFinite

\* No request has been sent, and nothing is kept.
LEMMA InitIdem == GuardInit => IdemInv
<1> SUFFICES ASSUME GuardInit PROVE IdemInv
    OBVIOUS
<1>1. effects \union Executing = {}
    BY DEF GuardInit, Executing, NotSent
<1>2. Cardinality(effects \union Executing) = 0
    BY <1>1, FS_EmptySet
<1>3. key = "absent" /\ slipUps = 0 /\ effects = {} /\ \A r \in Retries : retry[r] = NotSent
    BY DEF GuardInit
<1>4. IdemTypes
    BY <1>3 DEF GuardInit, IdemTypes, RetryState
<1>5. AnswersHappened
    BY <1>3, GuardAssumption DEF AnswersHappened, NotSent, GuardAssumption
<1> QED
    BY <1>2, <1>3, <1>4, <1>5 DEF IdemInv, OneHoldsTheKey

\* Reserve: the key, a look at what it holds, or a slip of Redis.
LEMMA ReserveKeeps ==
    ASSUME IdemInv, NEW r \in Retries, Reserve(r)
    PROVE  IdemInv'
<1> USE DEF RetryState, NotSent
<1>1. effects' = effects /\ retry[r] = NotSent
    BY DEF Reserve
<1>2. PICK e \in RetryState : /\ retry' = [retry EXCEPT ![r] = e]
                              /\ e.step \in {"run", "lookup"}
                              /\ e.step = "lookup" => key' = key /\ slipUps' = slipUps
  <2> DEFINE run(own) == [step |-> "run", owner |-> own]
             look == [step |-> "lookup"]
  <2>1. run(TRUE) \in RetryState /\ run(FALSE) \in RetryState /\ look \in RetryState
        /\ run(TRUE).step = "run" /\ run(FALSE).step = "run" /\ look.step = "lookup"
    OBVIOUS
  <2>2. \/ retry' = [retry EXCEPT ![r] = run(TRUE)] \/ retry' = [retry EXCEPT ![r] = run(FALSE)]
        \/ retry' = [retry EXCEPT ![r] = look] /\ key' = key /\ slipUps' = slipUps
    BY DEF Reserve, Set
  <2> HIDE DEF run, look
  <2> QED
    BY <2>1, <2>2
<1>3. key' \in {key, "in_flight"} /\ slipUps' \in Nat
    BY DEF Reserve, RedisFails, IdemInv, IdemTypes
<1>4. IdemTypes'
    BY <1>1, <1>2, <1>3 DEF IdemInv, IdemTypes
<1>5. AnswersHappened'
  <2>1. \A s \in Retries \ {r} : retry'[s] = retry[s]
    BY <1>2 DEF IdemInv, IdemTypes
  <2>2. retry'[r] = e
    BY <1>2 DEF IdemInv, IdemTypes
  <2> QED
    BY <1>1, <1>2, <1>3, <2>1, <2>2, GuardAssumption
       DEF IdemInv, AnswersHappened, IdemTypes, GuardAssumption
<1>6. OneHoldsTheKey'
  <2>1. effects' \union Executing' \subseteq (effects \union Executing) \union {r}
    BY <1>1, <1>2 DEF Executing, IdemInv, IdemTypes
  <2>2. CASE e.step = "lookup"
    <3>1. effects' \union Executing' \subseteq effects \union Executing
        BY <1>1, <1>2, <2>2 DEF Executing, IdemInv, IdemTypes
    <3> QED
        BY <1>2, <2>2, <3>1, NobodyMoreExecutes DEF IdemInv, OneHoldsTheKey, IdemTypes
  <2>3. CASE e.step = "run"
    <3>1. \/ key = "absent" /\ key' = "in_flight" /\ slipUps' = slipUps
          \/ key' = key /\ slipUps' = slipUps + 1
        BY <1>2, <2>3 DEF Reserve, Set, RedisFails, IdemInv, IdemTypes
    <3>2. /\ Cardinality(effects' \union Executing') <= Cardinality(effects \union Executing) + 1
          /\ Cardinality(effects' \union Executing') \in Nat
          /\ Cardinality(effects \union Executing) \in Nat
        BY <2>1, OneMoreExecutes DEF IdemInv
    <3> QED
        BY <3>1, <3>2 DEF IdemInv, OneHoldsTheKey, IdemTypes
  <2> QED
    BY <1>2, <2>2, <2>3
<1> QED
    BY <1>4, <1>5, <1>6 DEF IdemInv

\* Lookup: the answer kept, 409, or through to the handler at the cost of a slip.
LEMMA LookupKeeps ==
    ASSUME IdemInv, NEW r \in Retries, Lookup(r)
    PROVE  IdemInv'
<1> USE DEF RetryState
<1>1. key' = key /\ effects' = effects /\ retry[r].step = "lookup"
    BY DEF Lookup
<1>2. PICK e \in RetryState :
         /\ retry' = [retry EXCEPT ![r] = e]
         /\ \/ e.step = "answered" /\ e.with \subseteq effects /\ slipUps' = slipUps
            \/ e.step = "run" /\ slipUps' = slipUps + 1
  <2> DEFINE run == [step |-> "run", owner |-> FALSE]
             busy == [step |-> "answered", with |-> {}]
             kept == [step |-> "answered", with |-> {key}]
  <2>1. /\ run \in RetryState /\ run.step = "run" /\ busy \in RetryState
        /\ busy.step = "answered" /\ busy.with \subseteq effects
    OBVIOUS
  <2>2. key \notin {"in_flight", "absent"} =>
           kept \in RetryState /\ kept.step = "answered" /\ kept.with \subseteq effects
    BY DEF IdemInv, IdemTypes, AnswersHappened
  <2>3. \/ retry' = [retry EXCEPT ![r] = busy] /\ slipUps' = slipUps
        \/ retry' = [retry EXCEPT ![r] = run] /\ slipUps' = slipUps + 1
        \/ /\ key \notin {"in_flight", "absent"}
           /\ retry' = [retry EXCEPT ![r] = kept] /\ slipUps' = slipUps
    BY DEF Lookup, Set, RedisFails
  <2> HIDE DEF run, busy, kept
  <2> QED
    BY <2>1, <2>2, <2>3
<1>3. /\ retry'[r] = e /\ \A s \in Retries \ {r} : retry'[s] = retry[s]
      /\ slipUps' \in Nat
    BY <1>2 DEF IdemInv, IdemTypes
<1>4. IdemTypes'
    BY <1>1, <1>2, <1>3 DEF IdemInv, IdemTypes
<1>5. AnswersHappened'
    BY <1>1, <1>2, <1>3 DEF IdemInv, AnswersHappened
<1>6. OneHoldsTheKey'
  <2>1. CASE e.step = "answered"
    <3>1. effects' \union Executing' \subseteq effects \union Executing
        BY <1>1, <1>3, <2>1 DEF Executing
    <3> QED
        BY <1>1, <1>2, <2>1, <3>1, NobodyMoreExecutes DEF IdemInv, OneHoldsTheKey, IdemTypes
  <2>2. CASE e.step = "run"
    <3>1. effects' \union Executing' \subseteq (effects \union Executing) \union {r}
        BY <1>1, <1>3 DEF Executing
    <3>2. slipUps' = slipUps + 1 /\ key' = key
        BY <1>1, <1>2, <2>2
    <3>3. /\ Cardinality(effects' \union Executing') <= Cardinality(effects \union Executing) + 1
          /\ Cardinality(effects' \union Executing') \in Nat
          /\ Cardinality(effects \union Executing) \in Nat
        BY <3>1, OneMoreExecutes DEF IdemInv
    <3> QED
        BY <3>2, <3>3 DEF IdemInv, OneHoldsTheKey, IdemTypes
  <2> QED
    BY <1>2, <2>1, <2>2
<1> QED
    BY <1>4, <1>5, <1>6 DEF IdemInv

\* The handler executes what was counted already; its answer tells of it.
LEMMA RunHandlerKeeps ==
    ASSUME IdemInv, NEW r \in Retries, RunHandler(r)
    PROVE  IdemInv'
<1> USE DEF RetryState
<1> DEFINE e == [step |-> IF retry[r].owner THEN "save" ELSE "answered", with |-> {r}]
<1>1. /\ key' = key /\ slipUps' = slipUps /\ effects' = effects \union {r} /\ r \in Executing
      /\ retry' = [retry EXCEPT ![r] = e]
    BY DEF RunHandler, Set, Executing
<1>2. e \in RetryState /\ e.step \in {"save", "answered"} /\ e.with = {r}
    OBVIOUS
<1> HIDE DEF e
<1>3. retry'[r] = e /\ \A s \in Retries \ {r} : retry'[s] = retry[s]
    BY <1>1 DEF IdemInv, IdemTypes
<1>4. IdemTypes'
    BY <1>1, <1>2 DEF IdemInv, IdemTypes
<1>5. AnswersHappened'
    BY <1>1, <1>2, <1>3 DEF IdemInv, AnswersHappened
<1>6. effects' \union Executing' \subseteq effects \union Executing
    BY <1>1, <1>2, <1>3 DEF Executing
<1> QED
    BY <1>1, <1>4, <1>5, <1>6, NobodyMoreExecutes DEF IdemInv, OneHoldsTheKey, IdemTypes

\* Save keeps the answer of a request that executed; a Save that fails, or a crash, tells
\* nobody anything.
LEMMA SaveKeeps ==
    ASSUME IdemInv, NEW r \in Retries, Save(r) \/ SaveFails(r)
    PROVE  IdemInv'
<1> USE DEF RetryState
<1>1. PICK e \in RetryState :
         /\ retry' = [retry EXCEPT ![r] = e] /\ e.step = "answered" /\ e.with \subseteq effects
  <2>1. CASE Save(r)
    <3> DEFINE given == [retry[r] EXCEPT !.step = "answered"]
    <3>1. retry[r] \in [step : {"save", "answered"}, with : SUBSET Retries]
        BY <2>1 DEF Save, IdemInv, IdemTypes, NotSent
    <3>2. given \in RetryState /\ given.step = "answered" /\ given.with \subseteq effects
        BY <2>1, <3>1 DEF Save, IdemInv, AnswersHappened
    <3> QED
        BY <2>1, <3>2 DEF Save, Set
  <2>2. CASE SaveFails(r)
    <3> DEFINE nothing == [step |-> "answered", with |-> {}]
    <3>1. nothing \in RetryState /\ nothing.step = "answered" /\ nothing.with \subseteq effects
        OBVIOUS
    <3> QED
        BY <2>2, <3>1 DEF SaveFails, Set
  <2> QED
    BY <2>1, <2>2
<1>2. effects' = effects /\ slipUps' = slipUps /\ key' \in {key, r} /\ (key' = r => key = r \/ r \in effects)
    BY DEF Save, SaveFails, IdemInv, AnswersHappened
<1>3. retry'[r] = e /\ \A s \in Retries \ {r} : retry'[s] = retry[s]
    BY <1>1 DEF IdemInv, IdemTypes
<1>4. IdemTypes'
    BY <1>1, <1>2 DEF IdemInv, IdemTypes
<1>5. AnswersHappened'
    BY <1>1, <1>2, <1>3 DEF IdemInv, AnswersHappened
<1>6. effects' \union Executing' \subseteq effects \union Executing
    BY <1>1, <1>2, <1>3 DEF Executing
<1>7. key' = "absent" => key = "absent"
    BY <1>2, GuardAssumption DEF GuardAssumption
<1> QED
    BY <1>2, <1>4, <1>5, <1>6, <1>7, NobodyMoreExecutes DEF IdemInv, OneHoldsTheKey, IdemTypes

\* A key that lapses is a slip, and lets one request more execute.
LEMMA KeyLapsesKeeps ==
    ASSUME IdemInv, KeyLapses
    PROVE  IdemInv'
<1>1. /\ key # "absent" /\ key' = "absent" /\ slipUps' = slipUps + 1
      /\ retry' = retry /\ effects' = effects /\ Executing' = Executing
    BY DEF KeyLapses, RedisFails, Executing
<1>2. "absent" \notin Retries
    BY GuardAssumption DEF GuardAssumption
<1> QED
    BY <1>1, <1>2, ExecutingFinite DEF IdemInv, IdemTypes, AnswersHappened, OneHoldsTheKey

\* Every step of the two guards keeps the store's invariant.
LEMMA IdemStep == IdemInv /\ [GuardNext]_guardVars => IdemInv'
<1> SUFFICES ASSUME IdemInv, [GuardNext]_guardVars PROVE IdemInv'
    OBVIOUS
<1>1. CASE IdemNext
    BY <1>1, ReserveKeeps, LookupKeeps, RunHandlerKeeps, SaveKeeps, KeyLapsesKeeps DEF IdemNext
<1>2. CASE LimitNext \/ UNCHANGED guardVars
  <2>1. UNCHANGED idemVars
    BY <1>2 DEF LimitNext, AllowRequest, LimitFailsOpen, AdvanceTick, guardVars
  <2> QED
    BY <2>1 DEF idemVars, IdemInv, IdemTypes, AnswersHappened, OneHoldsTheKey, Executing
<1> QED
    BY <1>1, <1>2 DEF GuardNext

\* A request sent any number of times is executed once, but for the slips of Redis, and
\* nobody is answered with something that did not happen (pkg/idempotency).
THEOREM RetriesHappenOnce == GuardSpec => []ARetryHappensOnce
<1>1. IdemInv => ARetryHappensOnce
  <2> SUFFICES ASSUME IdemInv PROVE ARetryHappensOnce
    OBVIOUS
  <2>1. effects \in SUBSET (effects \union Executing) /\ IsFiniteSet(effects \union Executing)
    BY ExecutingFinite DEF IdemInv
  <2>2. Cardinality(effects) <= Cardinality(effects \union Executing) /\ Cardinality(effects) \in Nat
        /\ Cardinality(effects \union Executing) \in Nat
    BY <2>1, PartOfFinite
  <2> QED
    BY <2>2 DEF IdemInv, IdemTypes, OneHoldsTheKey, AnswersHappened, ARetryHappensOnce
<1> QED
    BY InitIdem, IdemStep, <1>1, PTL DEF GuardSpec

-----------------------------------------------------------------------------
(* The rate limiter *)

\* The requests let through on the counter's word.
CountedHits == admitted \ Blind
\* Those of them since a tick.
CountedSince(start) == {p \in CountedHits : p.at >= start}
\* The same in one window.
CountedFrom(from) == {p \in CountedHits : p.at \in from..(from + LimitWindow - 1)}
LimitTypes ==
    /\ tick \in 0..LastTick /\ counter \in [hits : Nat, until : Nat]
    /\ IsFiniteSet(admitted)
    /\ \A p \in admitted : p.at \in 0..tick /\ p.blind \in BOOLEAN
\* The key outlives every request it let through by a window.
KeyOutlives == \A p \in CountedHits : p.at + LimitWindow <= counter.until
\* The key counts from some tick on, and what went before is out of every window that
\* reaches that far.
CountsFrom(start) ==
    /\ Cardinality(CountedSince(start)) <= counter.hits
    /\ Cardinality(CountedSince(start)) <= LimitMax
    /\ \A p \in CountedHits : p.at < start => p.at + LimitWindow <= start
\* No window holds more counted requests than the limit.
CountedBurst == \A from \in 0..LastTick : Cardinality(CountedFrom(from)) <= LimitMax
LimitInv == /\ LimitTypes /\ KeyOutlives /\ CountedBurst
            /\ \E start \in 0..tick : CountsFrom(start)

\* The limits, as the arithmetic needs them.
LEMMA LimitNumbers == LimitMax \in Nat /\ LimitWindow \in Nat \ {0} /\ LastTick \in Nat
    BY GuardAssumption DEF GuardAssumption

\* Any part of what was let through is finite.
LEMMA AdmittedFinite ==
    ASSUME IsFiniteSet(admitted), NEW part \in SUBSET admitted
    PROVE  IsFiniteSet(part) /\ Cardinality(part) \in Nat
BY PartOfFinite

\* A window that begins after the key does holds what the key counted; an earlier one too,
\* unless it ends before the key begins.
LEMMA WindowsOfAKey ==
    ASSUME NEW through, IsFiniteSet(through), NEW start \in Nat, NEW from \in 0..LastTick,
           Cardinality({p \in through : p.at >= start}) <= LimitMax,
           \A p \in through : p.at \in Nat /\ (p.at < start => p.at + LimitWindow <= start)
    PROVE  \/ Cardinality({p \in through : p.at \in from..(from + LimitWindow - 1)}) <= LimitMax
           \/ from + LimitWindow <= start
<1> DEFINE window == {p \in through : p.at \in from..(from + LimitWindow - 1)}
           chain == {p \in through : p.at >= start}
<1> SUFFICES ASSUME ~(from + LimitWindow <= start)
             PROVE  Cardinality(window) <= LimitMax
    OBVIOUS
<1>1. ASSUME NEW p \in window
      PROVE  p \in chain
  <2>1. p \in through /\ p.at \in from..(from + LimitWindow - 1) /\ p.at \in Nat
    OBVIOUS
  <2>2. ~(p.at < start)
    BY <2>1, LimitNumbers
  <2> QED
    BY <2>1, <2>2
<1>2. window \in SUBSET chain /\ chain \in SUBSET through
    BY <1>1
<1>3. Cardinality(chain) <= LimitMax
    OBVIOUS
<1> HIDE DEF window, chain
<1>4. IsFiniteSet(chain) /\ Cardinality(chain) \in Nat
    BY <1>2, PartOfFinite
<1>5. Cardinality(window) <= Cardinality(chain) /\ Cardinality(window) \in Nat
    BY <1>2, <1>4, PartOfFinite
<1> QED
    BY <1>3, <1>4, <1>5, LimitNumbers

\* A clock at zero, no key, nobody let through.
LEMMA InitLimit == GuardInit => LimitInv
<1> SUFFICES ASSUME GuardInit PROVE LimitInv
    OBVIOUS
<1>1. admitted = {} /\ CountedHits = {} /\ tick = 0 /\ counter = [hits |-> 0, until |-> 0]
    BY DEF GuardInit, CountedHits, Blind
<1>2. IsFiniteSet(admitted) /\ Cardinality({}) = 0
    BY <1>1, FS_EmptySet
<1>3. LimitTypes /\ KeyOutlives
    BY <1>1, <1>2, LimitNumbers DEF LimitTypes, KeyOutlives
<1>4. CountedSince(0) = {} /\ \A from \in 0..LastTick : CountedFrom(from) = {}
    BY <1>1 DEF CountedSince, CountedFrom
<1>5. CountedBurst /\ 0 \in 0..tick
    BY <1>1, <1>2, <1>4, LimitNumbers DEF CountedBurst
<1>6. CountsFrom(0)
  <2>1. counter.hits = 0 /\ Cardinality(CountedSince(0)) = 0
    BY <1>1, <1>2, <1>4
  <2> QED
    BY <1>1, <2>1, LimitNumbers DEF CountsFrom
<1> QED
    BY <1>3, <1>5, <1>6 DEF LimitInv

\* What the clock and the counter are made of.
LEMMA HitNumbers ==
    ASSUME LimitTypes
    PROVE  /\ Hits \in Nat \ {0} /\ tick \in Nat /\ tick \in 0..LastTick
           /\ counter.hits \in Nat /\ counter.until \in Nat
           /\ \A p \in CountedHits : p.at \in Nat /\ p.at <= tick
BY LimitNumbers DEF LimitTypes, Hits, CountedHits

\* A hit that lets nobody through on the counter's word prolongs the key and counts: one
\* that is refused, or one whose answer is lost.
LEMMA HitKeeps ==
    ASSUME LimitInv, CountHit, tick' = tick, CountedHits' = CountedHits
    PROVE  /\ counter' \in [hits : Nat, until : Nat] /\ KeyOutlives' /\ CountedBurst'
           /\ \E start \in 0..tick' : CountsFrom(start)'
<1>1. counter' = [hits |-> Hits, until |-> tick + LimitWindow]
    BY DEF CountHit
<1>2. /\ Hits \in Nat \ {0} /\ tick \in Nat /\ counter.hits \in Nat /\ counter.until \in Nat
      /\ \A p \in CountedHits : p.at \in Nat /\ p.at <= tick
    BY HitNumbers DEF LimitInv
<1>3. counter' \in [hits : Nat, until : Nat] /\ counter'.hits = Hits /\ counter'.until = tick + LimitWindow
    BY <1>1, <1>2, LimitNumbers
<1>4. KeyOutlives'
  <2> SUFFICES ASSUME NEW p \in CountedHits PROVE p.at + LimitWindow <= tick + LimitWindow
    BY <1>3 DEF KeyOutlives
  <2> QED
    BY <1>2, LimitNumbers
<1>5. CountedBurst'
    BY DEF LimitInv, CountedBurst, CountedFrom
<1>6. \A start : CountedSince(start)' = CountedSince(start)
    BY DEF CountedSince
<1>7. CASE tick < counter.until
  <2>1. PICK start \in 0..tick : CountsFrom(start)
    BY DEF LimitInv
  <2>2. CountedSince(start) \in SUBSET admitted /\ IsFiniteSet(admitted)
    BY DEF CountedSince, CountedHits, LimitInv, LimitTypes
  <2>3. Cardinality(CountedSince(start)) \in Nat /\ Hits = counter.hits + 1
    BY <1>7, <2>2, AdmittedFinite DEF Hits
  <2>4. CountsFrom(start)'
    BY <1>2, <1>3, <1>6, <2>1, <2>3 DEF CountsFrom
  <2> QED
    BY <1>3, <1>4, <1>5, <2>1, <2>4
<1>8. CASE ~(tick < counter.until)
  <2>1. \A p \in CountedHits : p.at + LimitWindow <= tick
    BY <1>2, <1>8, LimitNumbers DEF LimitInv, KeyOutlives
  <2>2. CountedSince(tick) = {}
    BY <1>2, <2>1, LimitNumbers DEF CountedSince
  <2>3. Cardinality(CountedSince(tick)) = 0
    BY <2>2, FS_EmptySet
  <2>4. CountsFrom(tick)'
    BY <1>2, <1>3, <1>6, <2>1, <2>3, LimitNumbers DEF CountsFrom
  <2> QED
    BY <1>2, <1>3, <1>4, <1>5, <2>4
<1> QED
    BY <1>7, <1>8

\* What is not let through on the counter's word leaves the counted requests alone.
LEMMA NotCounted ==
    /\ AllowRequest /\ Hits > LimitMax => CountedHits' = CountedHits
    /\ LimitFailsOpen => CountedHits' = CountedHits
    /\ (AdvanceTick \/ UNCHANGED limitVars) => CountedHits' = CountedHits
BY DEF AllowRequest, LimitFailsOpen, AdvanceTick, limitVars, CountedHits, Blind

\* A hit that is refused.
LEMMA RefusedKeeps ==
    ASSUME LimitInv, AllowRequest, Hits > LimitMax
    PROVE  LimitInv'
<1>1. CountHit /\ admitted' = admitted /\ tick' = tick /\ CountedHits' = CountedHits
    BY NotCounted DEF AllowRequest
<1>2. /\ counter' \in [hits : Nat, until : Nat] /\ KeyOutlives' /\ CountedBurst'
      /\ \E start \in 0..tick' : CountsFrom(start)'
    BY <1>1, HitKeeps
<1> QED
    BY <1>1, <1>2 DEF LimitInv, LimitTypes

\* A request that is let through because Redis failed, with or without a hit.
LEMMA BlindKeeps ==
    ASSUME LimitInv, LimitFailsOpen
    PROVE  LimitInv'
<1> DEFINE latest == [at |-> tick, nth |-> Cardinality(Blind) + 1, blind |-> TRUE]
<1>1. admitted' = admitted \union {latest} /\ tick' = tick /\ CountedHits' = CountedHits
      /\ latest.at = tick /\ latest.blind = TRUE
    BY NotCounted DEF LimitFailsOpen
<1>2. tick \in Nat
    BY HitNumbers DEF LimitInv
<1> HIDE DEF latest
<1>3. IsFiniteSet(admitted')
    BY <1>1, FS_AddElement DEF LimitInv, LimitTypes
<1>4. \A p \in admitted' : p.at \in 0..tick' /\ p.blind \in BOOLEAN
  <2>1. latest.at \in 0..tick
    BY <1>1, <1>2
  <2>2. latest.blind \in BOOLEAN
    BY <1>1
  <2> QED
    BY <1>1, <2>1, <2>2, Zenon DEF LimitInv, LimitTypes
<1>5. CASE CountHit
  <2>1. /\ counter' \in [hits : Nat, until : Nat] /\ KeyOutlives' /\ CountedBurst'
        /\ \E start \in 0..tick' : CountsFrom(start)'
    BY <1>1, <1>5, HitKeeps
  <2> QED
    BY <1>1, <1>3, <1>4, <2>1 DEF LimitInv, LimitTypes
<1>6. CASE counter' = counter
    BY <1>1, <1>3, <1>4, <1>6
    DEF LimitInv, LimitTypes, KeyOutlives, CountedBurst, CountedFrom, CountsFrom, CountedSince
<1> QED
    BY <1>5, <1>6 DEF LimitFailsOpen

\* A hit that is let through: one more for the key that is there, or the first of a key
\* whose predecessor lapsed when all it let through was a window ago.
LEMMA AdmittedKeeps ==
    ASSUME LimitInv, AllowRequest, ~(Hits > LimitMax)
    PROVE  LimitInv'
<1> DEFINE latest == [at |-> tick, nth |-> Hits, blind |-> FALSE]
<1>1. /\ admitted' = admitted \union {latest} /\ tick' = tick
      /\ counter' = [hits |-> Hits, until |-> tick + LimitWindow]
      /\ CountedHits' = CountedHits \union {latest} /\ latest.at = tick /\ latest.blind = FALSE
    BY DEF AllowRequest, CountHit, CountedHits, Blind
<1>2. /\ Hits \in Nat \ {0} /\ tick \in Nat /\ tick \in 0..LastTick
      /\ counter.hits \in Nat /\ counter.until \in Nat
      /\ \A p \in CountedHits : p.at \in Nat /\ p.at <= tick
    BY HitNumbers DEF LimitInv
<1>3. counter' \in [hits : Nat, until : Nat] /\ counter'.hits = Hits
      /\ counter'.until = tick + LimitWindow /\ Hits <= LimitMax
    BY <1>1, <1>2, LimitNumbers
<1> HIDE DEF latest
<1>4. LimitTypes'
  <2>1. IsFiniteSet(admitted')
    BY <1>1, FS_AddElement DEF LimitInv, LimitTypes
  <2>2. \A p \in admitted' : p.at \in 0..tick' /\ p.blind \in BOOLEAN
    <3>1. latest.at \in 0..tick
        BY <1>1, <1>2
    <3>2. latest.blind \in BOOLEAN
        BY <1>1
    <3> QED
        BY <1>1, <3>1, <3>2, Zenon DEF LimitInv, LimitTypes
  <2> QED
    BY <1>1, <1>2, <1>3, <2>1, <2>2 DEF LimitTypes
<1>5. \A p \in CountedHits' : p.at + LimitWindow <= tick + LimitWindow
    BY <1>1, <1>2, LimitNumbers
<1>6. KeyOutlives'
    BY <1>3, <1>5 DEF KeyOutlives
<1>7. ASSUME NEW start \in 0..tick
      PROVE  /\ Cardinality(CountedSince(start)') <= Cardinality(CountedSince(start)) + 1
             /\ Cardinality(CountedSince(start)) \in Nat /\ Cardinality(CountedSince(start)') \in Nat
  <2>1. CountedSince(start)' = CountedSince(start) \union {latest}
    BY <1>1, <1>2 DEF CountedSince
  <2>2. IsFiniteSet(CountedSince(start)) /\ Cardinality(CountedSince(start)) \in Nat
    <3>1. CountedSince(start) \in SUBSET admitted /\ IsFiniteSet(admitted)
        BY DEF CountedSince, CountedHits, LimitInv, LimitTypes
    <3> QED
        BY <3>1, AdmittedFinite
  <2>3. \/ Cardinality(CountedSince(start) \union {latest}) = Cardinality(CountedSince(start))
        \/ Cardinality(CountedSince(start) \union {latest}) = Cardinality(CountedSince(start)) + 1
    BY <2>2, FS_AddElement
  <2> QED
    BY <2>1, <2>2, <2>3
<1>8. PICK start \in 0..tick : CountsFrom(start)'
  <2>1. CASE tick < counter.until
    <3>1. PICK start \in 0..tick : CountsFrom(start)
        BY DEF LimitInv
    <3>2. Hits = counter.hits + 1
        BY <2>1 DEF Hits
    <3>3. /\ Cardinality(CountedSince(start)') <= counter'.hits
          /\ Cardinality(CountedSince(start)') <= LimitMax
      <4>1. Cardinality(CountedSince(start)) <= counter.hits
        BY <3>1 DEF CountsFrom
      <4> QED
        BY <1>2, <1>3, <1>7, <3>1, <3>2, <4>1, LimitNumbers
    <3>4. \A p \in CountedHits' : p.at < start => p.at + LimitWindow <= start
        BY <1>1, <1>2, <3>1 DEF CountsFrom
    <3> QED
        BY <3>1, <3>3, <3>4 DEF CountsFrom
  <2>2. CASE ~(tick < counter.until)
    <3>1. PICK now \in 0..tick : now = tick
        BY <1>2
    <3>2. \A p \in CountedHits : p.at + LimitWindow <= now
        BY <1>2, <2>2, <3>1, LimitNumbers DEF LimitInv, KeyOutlives
    <3>3. CountedSince(now) = {}
        BY <1>2, <3>1, <3>2, LimitNumbers DEF CountedSince
    <3>4. Cardinality(CountedSince(now)) = 0
        BY <3>3, FS_EmptySet
    <3>5. Cardinality(CountedSince(now)') <= 1 /\ Cardinality(CountedSince(now)') \in Nat
        BY <1>7, <3>1, <3>4
    <3>6. \A p \in CountedHits' : p.at < now => p.at + LimitWindow <= now
        BY <1>1, <1>2, <3>1, <3>2
    <3>7. /\ Cardinality(CountedSince(now)') <= counter'.hits
          /\ Cardinality(CountedSince(now)') <= LimitMax
        BY <1>2, <1>3, <3>5, LimitNumbers
    <3> QED
        BY <3>1, <3>6, <3>7 DEF CountsFrom
  <2> QED
    BY <2>1, <2>2
<1>9. CountedBurst'
  <2> SUFFICES ASSUME NEW from \in 0..LastTick PROVE Cardinality(CountedFrom(from)') <= LimitMax
    BY DEF CountedBurst
  <2>1. Cardinality(CountedFrom(from)') <= LimitMax \/ from + LimitWindow <= start
    <3>1. IsFiniteSet(CountedHits')
        BY <1>1, <1>4, PartOfFinite DEF LimitTypes, CountedHits
    <3>2. start \in Nat /\ Cardinality({p \in CountedHits' : p.at >= start}) <= LimitMax
        BY <1>2, <1>8 DEF CountsFrom, CountedSince
    <3>3. \A p \in CountedHits' : p.at \in Nat /\ (p.at < start => p.at + LimitWindow <= start)
        BY <1>1, <1>2, <1>8 DEF CountsFrom
    <3> QED
        BY <3>1, <3>2, <3>3, WindowsOfAKey DEF CountedFrom
  <2>2. CASE from + LimitWindow <= start
    <3>1. tick \notin from..(from + LimitWindow - 1)
        BY <1>2, <1>8, <2>2, LimitNumbers
    <3>2. CountedFrom(from)' = CountedFrom(from)
        BY <1>1, <3>1 DEF CountedFrom
    <3> QED
        BY <3>2 DEF LimitInv, CountedBurst
  <2> QED
    BY <2>1, <2>2
<1>10. \E s \in 0..tick' : CountsFrom(s)'
    BY <1>1, <1>8
<1> QED
    BY <1>4, <1>6, <1>9, <1>10 DEF LimitInv

\* Time passes: nothing else does.
LEMMA TickKeeps ==
    ASSUME LimitInv, AdvanceTick
    PROVE  LimitInv'
<1>1. tick' = tick + 1 /\ tick' \in 0..LastTick /\ counter' = counter /\ admitted' = admitted
      /\ tick \in Nat /\ CountedHits' = CountedHits
    BY LimitNumbers, NotCounted, HitNumbers DEF AdvanceTick, LimitInv, LimitTypes
<1>2. LimitTypes'
    BY <1>1 DEF LimitInv, LimitTypes
<1>3. KeyOutlives' /\ CountedBurst'
    BY <1>1 DEF LimitInv, KeyOutlives, CountedBurst, CountedFrom
<1>4. PICK start \in 0..tick : CountsFrom(start)
    BY DEF LimitInv
<1>5. start \in 0..tick' /\ CountsFrom(start)'
    BY <1>1, <1>4 DEF CountsFrom, CountedSince
<1> QED
    BY <1>2, <1>3, <1>5 DEF LimitInv

\* Every step of the two guards keeps the limiter's invariant.
LEMMA LimitStep == LimitInv /\ [GuardNext]_guardVars => LimitInv'
<1> SUFFICES ASSUME LimitInv, [GuardNext]_guardVars PROVE LimitInv'
    OBVIOUS
<1>1. CASE LimitNext
    BY <1>1, RefusedKeeps, AdmittedKeeps, BlindKeeps, TickKeeps DEF LimitNext
<1>2. CASE IdemNext \/ UNCHANGED guardVars
  <2>1. UNCHANGED limitVars
    BY <1>2 DEF IdemNext, Reserve, Lookup, RunHandler, Save, SaveFails, KeyLapses, guardVars
  <2>2. CountedHits' = CountedHits
    BY <2>1, NotCounted
  <2> QED
    BY <2>1, <2>2 DEF limitVars, LimitInv, LimitTypes, KeyOutlives, CountedBurst,
                CountedFrom, CountsFrom, CountedSince
<1> QED
    BY <1>1, <1>2 DEF GuardNext

\* A window holds what the counter let through and what Redis failed at.
LEMMA BlindOnTop == LimitInv => NoBurstOverTheLimit
<1> SUFFICES ASSUME LimitInv, NEW from \in 0..LastTick
             PROVE  Cardinality(AdmittedFrom(from))
                        <= LimitMax + Cardinality(AdmittedFrom(from) \intersect Blind)
    BY DEF NoBurstOverTheLimit
<1> DEFINE counted == CountedFrom(from)
           blindly == AdmittedFrom(from) \intersect Blind
<1>1. AdmittedFrom(from) = counted \union blindly
    BY DEF AdmittedFrom, CountedFrom, CountedHits, Blind
<1>2. counted \in SUBSET admitted /\ blindly \in SUBSET admitted /\ IsFiniteSet(admitted)
    BY DEF CountedFrom, CountedHits, AdmittedFrom, LimitInv, LimitTypes
<1>3. Cardinality(counted) <= LimitMax
    BY DEF LimitInv, CountedBurst
<1> HIDE DEF counted, blindly
<1>4. /\ IsFiniteSet(counted) /\ Cardinality(counted) \in Nat
      /\ IsFiniteSet(blindly) /\ Cardinality(blindly) \in Nat
    BY <1>2, AdmittedFinite
<1>5. Cardinality(counted \union blindly) <= Cardinality(counted) + Cardinality(blindly)
  <2>1. /\ Cardinality(counted \union blindly)
             = Cardinality(counted) + Cardinality(blindly) - Cardinality(counted \intersect blindly)
        /\ IsFiniteSet(counted \union blindly) /\ IsFiniteSet(counted \intersect blindly)
    BY <1>4, FS_Union, FS_Intersection
  <2>2. Cardinality(counted \intersect blindly) \in Nat
    BY <2>1, FS_CardinalityType
  <2> QED
    BY <1>4, <2>1, <2>2
<1>6. Cardinality(counted \union blindly) \in Nat
    BY <1>4, FS_Union, FS_CardinalityType
<1>7. Cardinality(AdmittedFrom(from)) <= LimitMax + Cardinality(blindly)
    BY <1>1, <1>3, <1>4, <1>5, <1>6, LimitNumbers
<1> QED
    BY <1>7 DEF blindly

\* No stretch of time as long as the window lets more requests of a client through than
\* the limit and those at which Redis failed, whatever their pace (pkg/ratelimit).
THEOREM TheLimitHolds == GuardSpec => []NoBurstOverTheLimit
    BY InitLimit, LimitStep, BlindOnTop, PTL DEF GuardSpec

-----------------------------------------------------------------------------
(* The service keys *)

\* A process knows the public key only if its environment still declares it.
KnownIsDeclared == \A s \in Services : "ed25519" \in loaded[s] => "ed25519" \in env[s]
\* The issuer has the private key only after every verifier had the public one.
VerifiersFirst ==
    "ed25519" \in env[Order] =>
        \A v \in Verifiers : "ed25519" \in env[v] /\ ("ed25519" \in loaded[v] \/ loaded[v] = Down)
\* The secret goes only when the issuer is done with it.
SecretGoes ==
    \/ \A s \in Services : "hmac" \in env[s]
    \/ /\ "ed25519" \in env[Order] /\ loaded[Order] \in {{"ed25519"}, Down}
       /\ request # NoCall => request.token.key # "hmac"
\* Until it goes, whoever runs has it.
SecretIsKnown ==
    (\A s \in Services : "hmac" \in env[s]) =>
        \A v \in Verifiers : "hmac" \in loaded[v] \/ loaded[v] = Down
\* A call under way: the order-service's, at a door for services, or a person's.
CallIsSigned ==
    request # NoCall =>
        /\ request.token.key # "user" =>
              request.token.role = "service" /\ request.door.guard \in {"internal", "service"}
        /\ request.token.key = "ed25519" => "ed25519" \in env[Order]
IdentityInv ==
    /\ IdentityTypeOK /\ KnownIsDeclared /\ VerifiersFirst /\ SecretGoes /\ SecretIsKnown
    /\ CallIsSigned /\ NoCallIsMisjudged

\* What a service finds in its environment is what it knows, or it does not start.
LEMMA WhatIsLoaded ==
    ASSUME IdentityTypeOK, NEW s \in Services
    PROVE  /\ Load(s) \in (SUBSET {"hmac", "ed25519"}) \union {Down}
           /\ Load(s) = Down \/ Load(s) \subseteq env[s]
           /\ s \in Verifiers => Load(s) \in {env[s], Down}
           /\ s = Order /\ "ed25519" \in env[s] => Load(s) \in {{"ed25519"}, Down}
           /\ "ed25519" \notin Down /\ "hmac" \notin Down
<1>1. env[s] \in SUBSET {"hmac", "ed25519"}
    BY DEF IdentityTypeOK
<1>2. /\ s \in Verifiers => Load(s) \in {env[s], Down}
      /\ s = Order => Load(s) = (IF "hmac" \in env[s] THEN SignerFromEnv(env[s]) ELSE Down)
      /\ s \in Verifiers \/ s = Order
    BY DEF Load, LoadPayment, LoadOrder, LoadStrict, SecretFromEnv, VerifierFromEnv,
           Services, Verifiers, Order
<1>3. "ed25519" \notin Down /\ "hmac" \notin Down
    BY DEF Down
<1>4. SignerFromEnv(env[s]) \in {env[s], {"ed25519"}} /\ SignerFromEnv(env[s]) \subseteq env[s]
      /\ ("ed25519" \in env[s] => SignerFromEnv(env[s]) = {"ed25519"})
    BY DEF SignerFromEnv
<1>5. Load(s) = Down \/ Load(s) \subseteq env[s]
    BY <1>2, <1>4
<1>6. Load(s) \in (SUBSET {"hmac", "ed25519"}) \union {Down}
  <2>1. CASE Load(s) \subseteq env[s]
    <3>1. \A k \in Load(s) : k \in {"hmac", "ed25519"}
        BY <1>1, <2>1
    <3> QED
        BY <3>1
  <2> QED
    BY <1>5, <2>1
<1>7. s = Order /\ "ed25519" \in env[s] => Load(s) \in {{"ed25519"}, Down}
    BY <1>2, <1>4
<1> QED
    BY <1>2, <1>3, <1>5, <1>6, <1>7

\* A door opens for whoever is entitled, and for nobody else.
LEMMA DoorsAreRight ==
    ASSUME IdentityInv, request # NoCall, loaded[request.door.at] # Down
    PROVE  Enters(request.door, request.token) <=> Entitled(request.door, request.token)
<1> DEFINE d == request.door
           t == request.token
<1>1. d \in Doors /\ t \in Token
    BY DEF IdentityInv, IdentityTypeOK
<1>2. CASE t.key # "user"
  <2>1. t.role = "service" /\ d.guard \in {"internal", "service"} /\ t.key \in {"hmac", "ed25519"}
    BY <1>1, <1>2 DEF IdentityInv, CallIsSigned, Token, Key
  <2>2. d.at \in Verifiers /\ (d.guard = "internal" => d.at \in {"catalog", "auth"})
    BY <1>1, <2>1 DEF Doors, Verifiers
  <2>3. t.key \in loaded[d.at]
    <3>1. CASE t.key = "ed25519"
        BY <2>2, <3>1 DEF IdentityInv, CallIsSigned, VerifiersFirst
    <3>2. CASE t.key = "hmac"
        BY <2>2, <3>2 DEF IdentityInv, SecretGoes, SecretIsKnown
    <3> QED
        BY <2>1, <3>1, <3>2
  <2>4. Parse(d.at, t)
    BY <1>2, <2>1, <2>3 DEF Parse
  <2>5. Enters(d, t)
    BY <2>1, <2>2, <2>4 DEF Enters, RequireService, RequireServiceOrRoles, InternalAuth
  <2>6. Entitled(d, t)
    BY <1>2, <2>1 DEF Entitled
  <2> QED
    BY <2>5, <2>6
<1>3. CASE t.key = "user"
  <2>1. ~Parse(d.at, t)
    BY <1>3 DEF Parse
  <2>2. t.role \in UserRoles \union {"service"} /\ (ParseJWTClaims(t) <=> t.role # "service")
    BY <1>1, <1>3 DEF Token, ParseJWTClaims
  <2>3. Entitled(d, t) <=> t.role \in d.roles
    BY <1>3 DEF Entitled
  <2>4. CASE d.guard = "service"
    <3>1. d.roles = {}
        BY <1>1, <2>4 DEF Doors
    <3> QED
        BY <2>1, <2>3, <2>4, <3>1 DEF Enters, RequireService
  <2>5. CASE d.guard \in {"internal", "role"}
    <3>1. "service" \notin d.roles
        BY <1>1, <2>5 DEF Doors
    <3>2. d.guard = "internal" => d.at \in {"catalog", "auth"}
        BY <1>1 DEF Doors
    <3>3. d.guard = "role" => d.at \in {"catalog", Order}
        BY <1>1 DEF Doors
    <3> QED
        BY <2>1, <2>2, <2>3, <2>5, <3>1, <3>2, <3>3
           DEF Enters, RequireServiceOrRoles, InternalAuth, RequireRole, OrderRequireRole, ParseJWTClaims, Order
  <2>6. CASE d.guard = "any"
    <3>1. d.roles = UserRoles /\ d.at \in {"catalog", Order}
        BY <1>1, <2>6 DEF Doors
    <3> QED
        BY <2>2, <2>3, <2>6, <3>1 DEF Enters, RequireAnyUser, OrderRequireUser, UserRoles, Order
  <2>7. d.guard \in {"service", "internal", "role", "any"}
    BY <1>1 DEF Doors
  <2> QED
    BY <2>4, <2>5, <2>6, <2>7
<1> QED
    BY <1>2, <1>3

\* The fleet as it is before the migration.
LEMMA InitIdentity == IdentityInit => IdentityInv
<1> SUFFICES ASSUME IdentityInit PROVE IdentityInv
    OBVIOUS
<1>1. request = NoCall /\ answer = NoCall /\ \A s \in Services : env[s] = {"hmac"} /\ loaded[s] = {"hmac"}
    BY DEF IdentityInit
<1>2. IdentityTypeOK
    BY DEF IdentityInit, IdentityTypeOK
<1>3. Order \in Services /\ Verifiers \subseteq Services
    BY DEF Services
<1> QED
    BY <1>1, <1>2, <1>3 DEF IdentityInv, KnownIsDeclared, VerifiersFirst, SecretGoes,
                            SecretIsKnown, CallIsSigned, NoCallIsMisjudged

\* A new call is signed with what the issuer has, or is a person's.
LEMMA CallsKeep ==
    ASSUME IdentityInv, NEW d \in Doors,
           Issue(d) \/ \E r \in UserRoles \union {"service"} : UserCalls(d, r)
    PROVE  IdentityInv'
<1>1. /\ env' = env /\ loaded' = loaded /\ answer' = NoCall
    BY DEF Issue, UserCalls
<1>2. PICK t \in Token :
         /\ request' = [door |-> d, token |-> t]
         /\ \/ t.key = "user"
            \/ t.key \in loaded[Order] /\ t.role = "service" /\ d.guard \in {"internal", "service"}
  <2>1. CASE Issue(d)
    <3>1. PICK k \in loaded[Order] : request' = [door |-> d, token |-> [key |-> k, role |-> "service"]]
        BY <2>1 DEF Issue
    <3>2. k \in {"hmac", "ed25519"}
      <4>1. loaded[Order] # Down /\ Order \in Services
        BY <2>1 DEF Issue, Services
      <4>2. loaded[Order] \in (SUBSET {"hmac", "ed25519"}) \union {Down}
        BY <4>1 DEF IdentityInv, IdentityTypeOK
      <4>3. loaded[Order] \in SUBSET {"hmac", "ed25519"}
        BY <4>1, <4>2
      <4> QED
        BY <3>1, <4>3
    <3> QED
        BY <2>1, <3>1, <3>2 DEF Issue, Token, Key
  <2>2. CASE \E r \in UserRoles \union {"service"} : UserCalls(d, r)
        BY <2>2 DEF UserCalls, Token, Key
  <2> QED
    BY <2>1, <2>2
<1>3. request' # NoCall /\ request'.token = t /\ request'.door = d
    BY <1>2 DEF NoCall
<1>4. IdentityTypeOK'
    BY <1>1, <1>2 DEF IdentityInv, IdentityTypeOK
<1>5. KnownIsDeclared' /\ VerifiersFirst' /\ SecretIsKnown' /\ NoCallIsMisjudged'
    BY <1>1 DEF IdentityInv, KnownIsDeclared, VerifiersFirst, SecretIsKnown, NoCallIsMisjudged
<1>6. SecretGoes'
  <2>1. t.key = "hmac" => "hmac" \in loaded[Order]
    BY <1>2
  <2> QED
    BY <1>1, <1>3, <2>1 DEF IdentityInv, SecretGoes, Down
<1>7. CallIsSigned'
  <2>1. Order \in Services
    BY DEF Services
  <2> QED
    BY <1>1, <1>2, <1>3, <2>1 DEF IdentityInv, CallIsSigned, KnownIsDeclared
<1> QED
    BY <1>4, <1>5, <1>6, <1>7 DEF IdentityInv

\* A call is judged, or nobody is there to judge it.
LEMMA AnswersKeep ==
    ASSUME IdentityInv, Judge \/ NobodyAnswers
    PROVE  IdentityInv'
<1>1. env' = env /\ loaded' = loaded /\ request' = NoCall /\ request # NoCall
    BY DEF Judge, NobodyAnswers
<1>2. KnownIsDeclared' /\ VerifiersFirst' /\ SecretIsKnown' /\ SecretGoes' /\ CallIsSigned'
    BY <1>1 DEF IdentityInv, KnownIsDeclared, VerifiersFirst, SecretIsKnown, SecretGoes, CallIsSigned
<1>3. IdentityTypeOK' /\ NoCallIsMisjudged'
  <2>1. CASE Judge
    <3>1. answer' = [door |-> request.door, token |-> request.token,
                     entered |-> Enters(request.door, request.token)]
        BY <2>1 DEF Judge
    <3>2. request.door \in Doors /\ request.token \in Token
        BY <1>1 DEF IdentityInv, IdentityTypeOK
    <3>3. Enters(request.door, request.token) \in BOOLEAN
        BY DEF Enters, RequireService, Parse, RequireServiceOrRoles, InternalAuth, RequireRole,
               OrderRequireRole, RequireAnyUser, OrderRequireUser, ParseJWTClaims
    <3>4. Enters(request.door, request.token) <=> Entitled(request.door, request.token)
        BY <2>1, DoorsAreRight DEF Judge
    <3> HIDE DEF Enters, Entitled
    <3>5. IdentityTypeOK'
        BY <1>1, <3>1, <3>2, <3>3 DEF IdentityInv, IdentityTypeOK
    <3>6. NoCallIsMisjudged'
        BY <3>1, <3>4 DEF NoCallIsMisjudged
    <3> QED
        BY <3>5, <3>6
  <2>2. CASE NobodyAnswers
        BY <1>1, <2>2 DEF NobodyAnswers, IdentityInv, IdentityTypeOK, NoCallIsMisjudged
  <2> QED
    BY <2>1, <2>2
<1> QED
    BY <1>2, <1>3 DEF IdentityInv

\* A process that starts reads what its environment says by then.
LEMMA RestartKeeps ==
    ASSUME IdentityInv, NEW s \in Services, Restart(s)
    PROVE  IdentityInv'
<1>1. /\ loaded' = [loaded EXCEPT ![s] = Load(s)]
      /\ env' = env /\ request' = request /\ answer' = answer
    BY DEF Restart
<1>2. /\ Load(s) \in (SUBSET {"hmac", "ed25519"}) \union {Down}
      /\ Load(s) = Down \/ Load(s) \subseteq env[s]
      /\ s \in Verifiers => Load(s) \in {env[s], Down}
      /\ s = Order /\ "ed25519" \in env[s] => Load(s) \in {{"ed25519"}, Down}
      /\ "ed25519" \notin Down /\ "hmac" \notin Down
    BY WhatIsLoaded DEF IdentityInv
<1>3. loaded'[s] = Load(s) /\ \A r \in Services \ {s} : loaded'[r] = loaded[r]
    BY <1>1 DEF IdentityInv, IdentityTypeOK
<1>4. Verifiers \subseteq Services /\ Order \in Services
    BY DEF Services
<1>5. IdentityTypeOK'
    BY <1>1, <1>2 DEF IdentityInv, IdentityTypeOK
<1>6. KnownIsDeclared'
    BY <1>1, <1>2, <1>3 DEF IdentityInv, KnownIsDeclared
<1>7. VerifiersFirst' /\ SecretIsKnown'
    BY <1>1, <1>2, <1>3, <1>4 DEF IdentityInv, VerifiersFirst, SecretIsKnown
<1>8. SecretGoes' /\ CallIsSigned' /\ NoCallIsMisjudged'
    BY <1>1, <1>2, <1>3, <1>4 DEF IdentityInv, SecretGoes, CallIsSigned, NoCallIsMisjudged
<1> QED
    BY <1>5, <1>6, <1>7, <1>8 DEF IdentityInv

\* The operator gives the public key, then the private one, then takes the secret away.
LEMMA MigrationKeeps ==
    ASSUME IdentityInv,
           \/ \E v \in Verifiers : GivePublicKey(v)
           \/ GivePrivateKey
           \/ \E s \in Services : DropSecret(s)
    PROVE  IdentityInv'
<1>1. loaded' = loaded /\ request' = request /\ answer' = answer
    BY DEF GivePublicKey, GivePrivateKey, DropSecret
<1>2. Verifiers \subseteq Services /\ Order \in Services /\ Order \notin Verifiers
    BY DEF Services, Order, Verifiers
<1>3. NoCallIsMisjudged'
    BY <1>1 DEF IdentityInv, NoCallIsMisjudged
<1>4. CASE \E v \in Verifiers : GivePublicKey(v)
  <2>1. PICK v \in Verifiers : env' = [env EXCEPT ![v] = @ \union {"ed25519"}]
    BY <1>4 DEF GivePublicKey
  <2>2. /\ env'[v] = env[v] \union {"ed25519"} /\ \A s \in Services \ {v} : env'[s] = env[s]
        /\ env' \in [Services -> SUBSET {"hmac", "ed25519"}]
    BY <1>2, <2>1 DEF IdentityInv, IdentityTypeOK
  <2>3. \A s \in Services : ("hmac" \in env'[s] <=> "hmac" \in env[s])
                            /\ ("ed25519" \in env[s] => "ed25519" \in env'[s])
    BY <2>2
  <2>4. env'[Order] = env[Order]
    BY <1>2, <2>2
  <2>5. IdentityTypeOK' /\ KnownIsDeclared'
    BY <1>1, <2>2, <2>3 DEF IdentityInv, IdentityTypeOK, KnownIsDeclared
  <2>6. VerifiersFirst' /\ SecretIsKnown'
    BY <1>1, <1>2, <2>3, <2>4 DEF IdentityInv, VerifiersFirst, SecretIsKnown
  <2>7. SecretGoes' /\ CallIsSigned'
    BY <1>1, <1>2, <2>3, <2>4 DEF IdentityInv, SecretGoes, CallIsSigned
  <2> QED
    BY <1>3, <2>5, <2>6, <2>7 DEF IdentityInv
<1>5. CASE GivePrivateKey
  <2>1. /\ \A v \in Verifiers : "ed25519" \in loaded[v]
        /\ env' = [env EXCEPT ![Order] = @ \union {"ed25519"}]
    BY <1>5 DEF GivePrivateKey
  <2>2. /\ env'[Order] = env[Order] \union {"ed25519"} /\ \A s \in Services \ {Order} : env'[s] = env[s]
        /\ env' \in [Services -> SUBSET {"hmac", "ed25519"}]
    BY <1>2, <2>1 DEF IdentityInv, IdentityTypeOK
  <2>3. \A s \in Services : ("hmac" \in env'[s] <=> "hmac" \in env[s])
                            /\ ("ed25519" \in env[s] => "ed25519" \in env'[s])
    BY <2>2
  <2>4. IdentityTypeOK' /\ KnownIsDeclared'
    BY <1>1, <2>2, <2>3 DEF IdentityInv, IdentityTypeOK, KnownIsDeclared
  <2>5. VerifiersFirst' /\ SecretIsKnown'
    BY <1>1, <1>2, <2>1, <2>3 DEF IdentityInv, VerifiersFirst, SecretIsKnown, KnownIsDeclared
  <2>6. SecretGoes' /\ CallIsSigned'
    BY <1>1, <1>2, <2>3 DEF IdentityInv, SecretGoes, CallIsSigned
  <2> QED
    BY <1>3, <2>4, <2>5, <2>6 DEF IdentityInv
<1>6. CASE \E s \in Services : DropSecret(s)
  <2>1. PICK s \in Services :
           /\ loaded[Order] = {"ed25519"} /\ (request # NoCall => request.token.key # "hmac")
           /\ env' = [env EXCEPT ![s] = @ \ {"hmac"}] /\ env' # env
    BY <1>6 DEF DropSecret
  <2>2. /\ env'[s] = env[s] \ {"hmac"} /\ \A r \in Services \ {s} : env'[r] = env[r]
        /\ env' \in [Services -> SUBSET {"hmac", "ed25519"}]
    BY <2>1 DEF IdentityInv, IdentityTypeOK
  <2>3. \A r \in Services : "ed25519" \in env'[r] <=> "ed25519" \in env[r]
    BY <2>2
  <2>4. "ed25519" \in env[Order] /\ "hmac" \notin env'[s]
    BY <1>2, <2>1, <2>2 DEF IdentityInv, KnownIsDeclared
  <2>5. IdentityTypeOK' /\ KnownIsDeclared'
    BY <1>1, <2>2, <2>3 DEF IdentityInv, IdentityTypeOK, KnownIsDeclared
  <2>6. VerifiersFirst' /\ SecretIsKnown'
    BY <1>1, <1>2, <2>3, <2>4 DEF IdentityInv, VerifiersFirst, SecretIsKnown
  <2>7. SecretGoes' /\ CallIsSigned'
    BY <1>1, <1>2, <2>1, <2>3, <2>4 DEF IdentityInv, SecretGoes, CallIsSigned
  <2> QED
    BY <1>3, <2>5, <2>6, <2>7 DEF IdentityInv
<1> QED
    BY <1>4, <1>5, <1>6

\* Every step of the migration, and of the calls in it, keeps the invariant.
LEMMA IdentityStep == IdentityInv /\ [IdentityNext]_identityVars => IdentityInv'
<1> SUFFICES ASSUME IdentityInv, [IdentityNext]_identityVars PROVE IdentityInv'
    OBVIOUS
<1>1. CASE IdentityNext
    BY <1>1, CallsKeep, AnswersKeep, RestartKeeps, MigrationKeeps DEF IdentityNext
<1>2. CASE UNCHANGED identityVars
    BY <1>2 DEF identityVars, IdentityInv, IdentityTypeOK, KnownIsDeclared, VerifiersFirst,
                SecretGoes, SecretIsKnown, CallIsSigned, NoCallIsMisjudged
<1> QED
    BY <1>1, <1>2

\* All through the migration of the service keys, whoever is restarted when, a door opens
\* for exactly the callers entitled to it (pkg/servicetoken and the services' middlewares).
THEOREM NobodyIsMisjudged == IdentitySpec => []NoCallIsMisjudged
<1>1. IdentityInv => NoCallIsMisjudged
    BY DEF IdentityInv
<1> QED
    BY InitIdentity, IdentityStep, <1>1, PTL DEF IdentitySpec

-----------------------------------------------------------------------------
(* The lockout *)

\* What a login request may be doing.
LoginState == {NotInside} \union [step : {"clear", "verify"}, right : BOOLEAN, fails : Nat]
              \union [step : {"lock"}]
LockoutTypes ==
    /\ fails \in Nat /\ lock \in {"none", "live", "over"}
    /\ login \in [Logins -> LoginState]
    /\ guesses \in Nat /\ tried \in Nat /\ mishaps \in Nat
\* The requests at one step of a login.
LoginsAt(requests, s) == {r \in Logins : requests[r].step = s}
\* Only a failed UPDATE loses a guess.
GuessesAreCounted == guesses <= fails + mishaps
\* Each guess over the limit is that of a request which found the counter at the limit and
\* is going to lock the account, or has locked it; once the account has been locked, only
\* those that were past the check of the lock still guess.
ExcessIsInFlight ==
    guesses >= MaxFailedLogins + mishaps =>
        IF lock = "none"
        THEN guesses < MaxFailedLogins + mishaps + Cardinality(LoginsAt(login, "lock"))
        ELSE guesses + Cardinality(LoginsAt(login, "verify"))
                 < MaxFailedLogins + mishaps + Cardinality(Logins)
LockoutInv == LockoutTypes /\ GuessesAreCounted /\ ExcessIsInFlight

\* The bounds as numbers.
LEMMA LockoutNumbers ==
    IsFiniteSet(Logins) /\ MaxFailedLogins \in Nat /\ MaxFailedLogins > 0
        /\ MaxGuesses \in Nat /\ MaxMishaps \in Nat /\ Cardinality(Logins) \in Nat
    BY LockoutAssumption, FS_CardinalityType

\* The two steps that are counted hold different requests, of finitely many.
LEMMA TwoSteps ==
    ASSUME NEW requests
    PROVE  /\ \A s \in {"verify", "lock"} : /\ IsFiniteSet(LoginsAt(requests, s))
                                            /\ Cardinality(LoginsAt(requests, s)) \in Nat
           /\ Cardinality(LoginsAt(requests, "lock")) + Cardinality(LoginsAt(requests, "verify"))
                 <= Cardinality(Logins)
<1>1. \A s \in {"verify", "lock"} : LoginsAt(requests, s) \in SUBSET Logins
    BY DEF LoginsAt
<1>2. \A s \in {"verify", "lock"} : /\ IsFiniteSet(LoginsAt(requests, s))
                                    /\ Cardinality(LoginsAt(requests, s)) \in Nat
    BY <1>1, LockoutNumbers, FS_Subset, FS_CardinalityType
<1>3. LoginsAt(requests, "lock") \cap LoginsAt(requests, "verify") = {}
    BY DEF LoginsAt
<1>4. LoginsAt(requests, "lock") \union LoginsAt(requests, "verify") \in SUBSET Logins
    BY DEF LoginsAt
<1>5. Cardinality(LoginsAt(requests, "lock") \union LoginsAt(requests, "verify")) <= Cardinality(Logins)
    BY <1>4, LockoutNumbers, FS_Subset
<1>6. Cardinality(LoginsAt(requests, "lock") \cap LoginsAt(requests, "verify")) = 0
    BY <1>3, FS_EmptySet
<1>7. Cardinality(LoginsAt(requests, "lock") \union LoginsAt(requests, "verify"))
          = Cardinality(LoginsAt(requests, "lock")) + Cardinality(LoginsAt(requests, "verify"))
                - Cardinality(LoginsAt(requests, "lock") \cap LoginsAt(requests, "verify"))
    BY <1>2, FS_Union
<1>8. Cardinality(LoginsAt(requests, "lock")) \in Nat /\ Cardinality(LoginsAt(requests, "verify")) \in Nat
    BY <1>2
<1>9. Cardinality(LoginsAt(requests, "lock") \union LoginsAt(requests, "verify"))
          = Cardinality(LoginsAt(requests, "lock")) + Cardinality(LoginsAt(requests, "verify"))
    BY <1>6, <1>7, <1>8
<1> QED
    BY <1>2, <1>5, <1>9

\* One request moves: it leaves the step it was at and is counted where it goes.
LEMMA LoginMoves ==
    ASSUME NEW before \in [Logins -> LoginState], NEW after, NEW r \in Logins, NEW e,
           after = [before EXCEPT ![r] = e]
    PROVE  \A s \in {"verify", "lock"} :
             /\ e.step = s /\ before[r].step # s =>
                    Cardinality(LoginsAt(after, s)) = Cardinality(LoginsAt(before, s)) + 1
             /\ e.step # s /\ before[r].step = s =>
                    Cardinality(LoginsAt(after, s)) = Cardinality(LoginsAt(before, s)) - 1
             /\ (e.step = s <=> before[r].step = s) =>
                    Cardinality(LoginsAt(after, s)) = Cardinality(LoginsAt(before, s))
<1> SUFFICES ASSUME NEW s \in {"verify", "lock"}
             PROVE  /\ e.step = s /\ before[r].step # s =>
                           Cardinality(LoginsAt(after, s)) = Cardinality(LoginsAt(before, s)) + 1
                    /\ e.step # s /\ before[r].step = s =>
                           Cardinality(LoginsAt(after, s)) = Cardinality(LoginsAt(before, s)) - 1
                    /\ (e.step = s <=> before[r].step = s) =>
                           Cardinality(LoginsAt(after, s)) = Cardinality(LoginsAt(before, s))
    OBVIOUS
<1>1. IsFiniteSet(LoginsAt(before, s))
    BY TwoSteps
<1>2. ASSUME e.step = s, before[r].step # s
      PROVE  Cardinality(LoginsAt(after, s)) = Cardinality(LoginsAt(before, s)) + 1
  <2>1. LoginsAt(after, s) = LoginsAt(before, s) \union {r} /\ r \notin LoginsAt(before, s)
    BY <1>2 DEF LoginsAt
  <2>2. Cardinality(LoginsAt(before, s) \union {r}) = Cardinality(LoginsAt(before, s)) + 1
    BY <1>1, <2>1, FS_AddElement
  <2> QED
    BY <2>1, <2>2
<1>3. ASSUME e.step # s, before[r].step = s
      PROVE  Cardinality(LoginsAt(after, s)) = Cardinality(LoginsAt(before, s)) - 1
  <2>1. LoginsAt(after, s) = LoginsAt(before, s) \ {r} /\ r \in LoginsAt(before, s)
    BY <1>3 DEF LoginsAt
  <2>2. Cardinality(LoginsAt(before, s) \ {r}) = Cardinality(LoginsAt(before, s)) - 1
    BY <1>1, <2>1, FS_RemoveElement
  <2> QED
    BY <2>1, <2>2
<1>4. ASSUME e.step = s <=> before[r].step = s
      PROVE  Cardinality(LoginsAt(after, s)) = Cardinality(LoginsAt(before, s))
  <2>1. LoginsAt(after, s) = LoginsAt(before, s)
    BY <1>4 DEF LoginsAt
  <2> QED
    BY <2>1
<1> QED
    BY <1>2, <1>3, <1>4

\* The empty service.
LEMMA InitLockout == LockoutInit => LockoutInv
    BY LockoutNumbers DEF LockoutInit, LockoutInv, LockoutTypes, LoginState, GuessesAreCounted,
                          ExcessIsInFlight

\* The counter, the lock and the history of guesses go back together, or an UPDATE is lost.
LEMMA ResetKeeps ==
    ASSUME LockoutInv, ResetCounter, NEW r \in Logins, NEW e \in LoginState,
           login' = [login EXCEPT ![r] = e], UNCHANGED tried,
           e.step # "lock", login[r].step # "lock",
           \* A request that comes to its password found no lock, or clears one.
           e.step = "verify" => login[r].step # "verify"
    PROVE  LockoutInv'
<1>1. LockoutTypes'
    BY DEF LockoutInv, LockoutTypes, ResetCounter, Mishap
<1>2. /\ Cardinality(LoginsAt(login', "lock")) = Cardinality(LoginsAt(login, "lock"))
      /\ Cardinality(LoginsAt(login', "verify")) <= Cardinality(LoginsAt(login, "verify")) + 1
      /\ Cardinality(LoginsAt(login', "verify")) \in Nat /\ Cardinality(LoginsAt(login, "verify")) \in Nat
      /\ Cardinality(LoginsAt(login, "lock")) \in Nat
  <2>1. login \in [Logins -> LoginState]
    BY DEF LockoutInv, LockoutTypes
  <2>2. Cardinality(LoginsAt(login', "lock")) = Cardinality(LoginsAt(login, "lock"))
    BY <2>1, LoginMoves
  <2>3. /\ e.step = "verify" /\ login[r].step # "verify" =>
               Cardinality(LoginsAt(login', "verify")) = Cardinality(LoginsAt(login, "verify")) + 1
        /\ e.step # "verify" /\ login[r].step = "verify" =>
               Cardinality(LoginsAt(login', "verify")) = Cardinality(LoginsAt(login, "verify")) - 1
        /\ (e.step = "verify" <=> login[r].step = "verify") =>
               Cardinality(LoginsAt(login', "verify")) = Cardinality(LoginsAt(login, "verify"))
    BY <2>1, LoginMoves
  <2>4. /\ Cardinality(LoginsAt(login', "verify")) \in Nat /\ Cardinality(LoginsAt(login, "verify")) \in Nat
        /\ Cardinality(LoginsAt(login, "lock")) \in Nat
    BY TwoSteps
  <2> QED
    BY <2>2, <2>3, <2>4
<1>3. CASE fails' = 0 /\ lock' = "none" /\ guesses' = 0 /\ UNCHANGED mishaps
  <2>1. GuessesAreCounted' /\ ~(guesses' >= MaxFailedLogins + mishaps')
    BY <1>3, LockoutNumbers DEF LockoutInv, LockoutTypes, GuessesAreCounted
  <2> QED
    BY <1>1, <2>1 DEF LockoutInv, ExcessIsInFlight
<1>4. CASE Mishap /\ UNCHANGED <<fails, lock, guesses>>
  <2>1. GuessesAreCounted' /\ mishaps' = mishaps + 1
    BY <1>4 DEF LockoutInv, LockoutTypes, GuessesAreCounted, Mishap
  <2>2. ExcessIsInFlight'
    BY <1>2, <1>4, <2>1, LockoutNumbers DEF LockoutInv, LockoutTypes, ExcessIsInFlight
  <2> QED
    BY <1>1, <2>1, <2>2 DEF LockoutInv
<1> QED
    BY <1>3, <1>4 DEF ResetCounter

\* Every step of a request or of the clock keeps the invariant.
LEMMA LockoutStep == LockoutInv /\ [LockoutNext]_lockoutVars => LockoutInv'
<1> SUFFICES ASSUME LockoutInv, [LockoutNext]_lockoutVars PROVE LockoutInv'
    OBVIOUS
<1> USE LockoutNumbers
<1>0. /\ LockoutTypes /\ GuessesAreCounted /\ ExcessIsInFlight
      /\ NotInside \in LoginState /\ NotInside.step = "none"
    BY DEF LockoutInv, LoginState, NotInside
<1>1. ASSUME NEW r \in Logins, NEW right \in BOOLEAN, BeginLogin(r, right) PROVE LockoutInv'
  <2> DEFINE e == [step |-> IF lock = "over" THEN "clear" ELSE "verify", right |-> right,
                   fails |-> IF lock = "over" THEN 0 ELSE fails]
  <2>1. e \in LoginState /\ e.step = IF lock = "over" THEN "clear" ELSE "verify"
    BY <1>0 DEF LoginState, LockoutTypes
  <2>2. login' = [login EXCEPT ![r] = e] /\ login[r].step = "none" /\ lock # "live"
        /\ UNCHANGED <<fails, lock, guesses, tried, mishaps>>
    BY <1>0, <1>1 DEF BeginLogin
  <2> HIDE DEF e
  <2>3. /\ Cardinality(LoginsAt(login', "lock")) = Cardinality(LoginsAt(login, "lock"))
        /\ lock = "over" => Cardinality(LoginsAt(login', "verify")) = Cardinality(LoginsAt(login, "verify"))
        /\ Cardinality(LoginsAt(login, "lock")) \in Nat /\ Cardinality(LoginsAt(login, "verify")) \in Nat
    BY <1>0, <2>1, <2>2, LoginMoves, TwoSteps DEF LockoutTypes
  <2>4. LockoutTypes' /\ GuessesAreCounted'
    BY <1>0, <2>1, <2>2 DEF LockoutTypes, GuessesAreCounted
  <2>5. ExcessIsInFlight'
    BY <1>0, <2>2, <2>3 DEF LockoutTypes, ExcessIsInFlight
  <2> QED
    BY <2>4, <2>5 DEF LockoutInv
<1>2. ASSUME NEW r \in Logins, ClearExpiredLock(r) PROVE LockoutInv'
  <2>1. PICK right \in BOOLEAN, n \in Nat : login[r] = [step |-> "clear", right |-> right, fails |-> n]
    BY <1>0, <1>2 DEF ClearExpiredLock, LockoutTypes, LoginState, NotInside
  <2> DEFINE e == [step |-> "verify", right |-> right, fails |-> n]
  <2>2. e \in LoginState /\ e.step = "verify"
    BY DEF LoginState
  <2>3. [login[r] EXCEPT !.step = "verify"] = e
    BY <2>1
  <2>4. login' = [login EXCEPT ![r] = e]
    BY <1>2, <2>3 DEF ClearExpiredLock
  <2> HIDE DEF e
  <2> QED
    BY <1>2, <2>1, <2>2, <2>4, ResetKeeps DEF ClearExpiredLock
<1>3. ASSUME NEW r \in Logins, RegisterFailedLogin(r) PROVE LockoutInv'
  <2>1. login[r].step = "verify" /\ guesses' = guesses + 1 /\ tried' = tried + 1
    BY <1>3 DEF RegisterFailedLogin, Tries
  <2>2. CASE CountFailure(r, fails + 1)
    <3> DEFINE e == IF fails + 1 >= MaxFailedLogins THEN [step |-> "lock"] ELSE NotInside
    <3>1. e \in LoginState /\ e.step = IF fails + 1 >= MaxFailedLogins THEN "lock" ELSE "none"
      BY <1>0 DEF LoginState, NotInside
    <3>2. /\ fails' = fails + 1 /\ login' = [login EXCEPT ![r] = e]
          /\ lock' = lock /\ mishaps' = mishaps
      BY <2>2 DEF CountFailure
    <3> HIDE DEF e
    <3>3. /\ Cardinality(LoginsAt(login', "verify")) = Cardinality(LoginsAt(login, "verify")) - 1
          /\ fails + 1 >= MaxFailedLogins =>
                 Cardinality(LoginsAt(login', "lock")) = Cardinality(LoginsAt(login, "lock")) + 1
          /\ ~(fails + 1 >= MaxFailedLogins) =>
                 Cardinality(LoginsAt(login', "lock")) = Cardinality(LoginsAt(login, "lock"))
      BY <1>0, <2>1, <3>1, <3>2, LoginMoves DEF LockoutTypes
    <3>4. /\ Cardinality(LoginsAt(login, "lock")) \in Nat /\ Cardinality(LoginsAt(login, "verify")) \in Nat
          /\ Cardinality(LoginsAt(login', "lock")) + Cardinality(LoginsAt(login', "verify")) <= Cardinality(Logins)
          /\ Cardinality(LoginsAt(login', "lock")) \in Nat /\ Cardinality(LoginsAt(login', "verify")) \in Nat
      BY TwoSteps
    <3>5. LockoutTypes' /\ GuessesAreCounted'
      BY <1>0, <2>1, <3>1, <3>2 DEF LockoutTypes, GuessesAreCounted
    <3>6. ExcessIsInFlight'
      BY <1>0, <2>1, <3>2, <3>3, <3>4 DEF LockoutTypes, GuessesAreCounted, ExcessIsInFlight
    <3> QED
      BY <3>5, <3>6 DEF LockoutInv
  <2>3. CASE Mishap /\ Leave(r) /\ UNCHANGED <<fails, lock>>
    <3>1. /\ mishaps' = mishaps + 1 /\ login' = [login EXCEPT ![r] = NotInside]
          /\ fails' = fails /\ lock' = lock
      BY <2>3 DEF Mishap, Leave
    <3>2. /\ Cardinality(LoginsAt(login', "verify")) = Cardinality(LoginsAt(login, "verify")) - 1
          /\ Cardinality(LoginsAt(login', "lock")) = Cardinality(LoginsAt(login, "lock"))
          /\ Cardinality(LoginsAt(login, "lock")) \in Nat /\ Cardinality(LoginsAt(login, "verify")) \in Nat
      BY <1>0, <2>1, <3>1, LoginMoves, TwoSteps DEF LockoutTypes
    <3>3. LockoutTypes' /\ GuessesAreCounted'
      BY <1>0, <2>1, <3>1 DEF LockoutTypes, GuessesAreCounted
    <3>4. ExcessIsInFlight'
      BY <1>0, <2>1, <3>1, <3>2 DEF LockoutTypes, ExcessIsInFlight
    <3> QED
      BY <3>3, <3>4 DEF LockoutInv
  <2> QED
    BY <1>3, <2>2, <2>3 DEF RegisterFailedLogin
<1>4. ASSUME NEW r \in Logins, LockAccount(r) PROVE LockoutInv'
  <2>1. /\ login[r].step = "lock" /\ login' = [login EXCEPT ![r] = NotInside]
        /\ UNCHANGED <<fails, guesses, tried>>
    BY <1>4 DEF LockAccount, Leave
  <2>2. /\ Cardinality(LoginsAt(login', "verify")) = Cardinality(LoginsAt(login, "verify"))
        /\ Cardinality(LoginsAt(login', "lock")) = Cardinality(LoginsAt(login, "lock")) - 1
        /\ Cardinality(LoginsAt(login, "lock")) \in Nat /\ Cardinality(LoginsAt(login, "verify")) \in Nat
        /\ Cardinality(LoginsAt(login, "lock")) + Cardinality(LoginsAt(login, "verify")) <= Cardinality(Logins)
    BY <1>0, <2>1, LoginMoves, TwoSteps DEF LockoutTypes
  <2>3. (lock' = "live" /\ mishaps' = mishaps) \/ (mishaps' = mishaps + 1 /\ lock' = lock)
    BY <1>4 DEF LockAccount, Mishap
  <2>4. LockoutTypes' /\ GuessesAreCounted'
    BY <1>0, <2>1, <2>3 DEF LockoutTypes, GuessesAreCounted
  <2>5. ExcessIsInFlight'
    BY <1>0, <2>1, <2>2, <2>3 DEF LockoutTypes, ExcessIsInFlight
  <2> QED
    BY <2>4, <2>5 DEF LockoutInv
<1>5. ASSUME NEW r \in Logins, PasswordIsRight(r) PROVE LockoutInv'
  <2>1. /\ login[r].step = "verify" /\ login' = [login EXCEPT ![r] = NotInside] /\ tried' = tried
        /\ ResetCounter \/ UNCHANGED <<fails, lock, guesses, mishaps>>
    BY <1>5 DEF PasswordIsRight, Leave
  <2>2. CASE ResetCounter
    BY <1>0, <2>1, <2>2, ResetKeeps
  <2>3. CASE UNCHANGED <<fails, lock, guesses, mishaps>>
    <3>1. /\ Cardinality(LoginsAt(login', "verify")) = Cardinality(LoginsAt(login, "verify")) - 1
          /\ Cardinality(LoginsAt(login', "lock")) = Cardinality(LoginsAt(login, "lock"))
          /\ Cardinality(LoginsAt(login, "lock")) \in Nat /\ Cardinality(LoginsAt(login, "verify")) \in Nat
      BY <1>0, <2>1, LoginMoves, TwoSteps DEF LockoutTypes
    <3>2. LockoutTypes' /\ GuessesAreCounted'
      BY <1>0, <2>1, <2>3 DEF LockoutTypes, GuessesAreCounted
    <3>3. ExcessIsInFlight'
      BY <1>0, <2>1, <2>3, <3>1 DEF LockoutTypes, ExcessIsInFlight
    <3> QED
      BY <3>2, <3>3 DEF LockoutInv
  <2> QED
    BY <2>1, <2>2, <2>3
<1>6. ASSUME NEW r \in Logins, LoginDies(r) PROVE LockoutInv'
  <2>1. /\ login' = [login EXCEPT ![r] = NotInside] /\ mishaps' = mishaps + 1
        /\ UNCHANGED <<fails, lock, guesses, tried>>
    BY <1>6 DEF LoginDies, Leave, Mishap
  <2>2. /\ Cardinality(LoginsAt(login', "verify")) <= Cardinality(LoginsAt(login, "verify"))
        /\ Cardinality(LoginsAt(login', "lock")) >= Cardinality(LoginsAt(login, "lock")) - 1
        /\ Cardinality(LoginsAt(login, "lock")) \in Nat /\ Cardinality(LoginsAt(login, "verify")) \in Nat
        /\ Cardinality(LoginsAt(login', "lock")) \in Nat /\ Cardinality(LoginsAt(login', "verify")) \in Nat
    <3>1. \A s \in {"verify", "lock"} :
              \/ Cardinality(LoginsAt(login', s)) = Cardinality(LoginsAt(login, s)) - 1
              \/ Cardinality(LoginsAt(login', s)) = Cardinality(LoginsAt(login, s))
      BY <1>0, <2>1, LoginMoves DEF LockoutTypes
    <3>2. \A s \in {"verify", "lock"} : /\ Cardinality(LoginsAt(login, s)) \in Nat
                                        /\ Cardinality(LoginsAt(login', s)) \in Nat
      BY TwoSteps
    <3> QED
      BY <3>1, <3>2
  <2>3. LockoutTypes' /\ GuessesAreCounted'
    BY <1>0, <2>1 DEF LockoutTypes, GuessesAreCounted
  <2>4. ExcessIsInFlight'
    BY <1>0, <2>1, <2>2 DEF LockoutTypes, ExcessIsInFlight
  <2> QED
    BY <2>3, <2>4 DEF LockoutInv
<1>7. CASE LockExpires
  <2>1. lock = "live" /\ lock' = "over" /\ UNCHANGED <<fails, login, guesses, tried, mishaps>>
    BY <1>7 DEF LockExpires
  <2> QED
    BY <1>0, <2>1 DEF LockoutInv, LockoutTypes, GuessesAreCounted, ExcessIsInFlight
<1>8. CASE UNCHANGED lockoutVars
    BY <1>0, <1>8 DEF lockoutVars, LockoutInv, LockoutTypes, GuessesAreCounted, ExcessIsInFlight
<1> QED
    BY <1>1, <1>2, <1>3, <1>4, <1>5, <1>6, <1>7, <1>8 DEF LockoutNext

\* The invariant of the lockout holds in every reachable state.
LEMMA LockoutAlways == LockoutSpec => []LockoutInv
    BY InitLockout, LockoutStep, PTL DEF LockoutSpec

\* However many logins guess in parallel, an account is never tried, since its counter was
\* last reset, with as many wrong passwords as the limit, the requests in flight and the
\* lost UPDATEs add up to (auth.go, Login and registerFailedLogin).
THEOREM GuessesStopAtTheLock == LockoutSpec => []GuessingIsBounded
<1>1. LockoutInv => GuessingIsBounded
    BY LockoutNumbers, TwoSteps
       DEF LockoutInv, LockoutTypes, ExcessIsInFlight, GuessingIsBounded
<1> QED
    BY <1>1, LockoutAlways, PTL
-----------------------------------------------------------------------------
(* Sessions *)

\* The row of users, a row of refresh_tokens, and what a request read that it still uses.
Account == [pw : Nat, mfa : BOOLEAN, secret : Nat, pending : Nat, issued : Nat,
            verified : BOOLEAN]
Session == [live : BOOLEAN, pw : Nat, late : BOOLEAN]
SessionTypes ==
    /\ account \in Account
    /\ sessions \in Seq(Session)
    /\ DOMAIN serving = Requests
    /\ \A r \in Requests : serving[r].step \in {"enter", "challenge"} => serving[r].pw \in Nat
\* What is being rotated exists; if the password had changed since that session was given
\* out and before the rotation began, the session was late already.
RotationsKnow ==
    \A r \in Requests :
        serving[r].step = "rotate" =>
            /\ serving[r].session \in DOMAIN sessions
            /\ sessions[serving[r].session].pw = serving[r].pw
                   \/ sessions[serving[r].session].late
SessionInv == SessionTypes /\ RotationsKnow /\ OnlyALateRequestOutlivesAReset

\* Nobody has logged in.
LEMMA InitSessions == AuthInit => SessionInv
    BY DEF AuthInit, SessionInv, SessionTypes, RotationsKnow, Account, Session, NoWork,
           OnlyALateRequestOutlivesAReset

\* A session that is revoked keeps its password and how it was given out.
LEMMA Dead ==
    ASSUME NEW x \in Session, NEW y, y = [x EXCEPT !.live = FALSE]
    PROVE  y \in Session /\ y.pw = x.pw /\ y.late = x.late /\ y.live = FALSE
    BY DEF Session
\* One of several.
LEMMA OneDead ==
    ASSUME NEW old \in Seq(Session), NEW s \in DOMAIN old, NEW new,
           new = [old EXCEPT ![s].live = FALSE]
    PROVE  /\ new \in Seq(Session) /\ DOMAIN new = DOMAIN old
           /\ \A k \in DOMAIN old : /\ new[k].pw = old[k].pw /\ new[k].late = old[k].late
                                    /\ new[k].live => old[k].live
<1>1. DOMAIN old = 1..Len(old) /\ Len(old) \in Nat /\ \A k \in DOMAIN old : old[k] \in Session
    OBVIOUS
<1> DEFINE y == [old[s] EXCEPT !.live = FALSE]
<1>2. y \in Session /\ y.pw = old[s].pw /\ y.late = old[s].late /\ y.live = FALSE
    BY <1>1, Dead
<1>3. new = [old EXCEPT ![s] = y]
    OBVIOUS
<1> HIDE DEF y
<1>4. new \in [1..Len(old) -> Session]
    BY <1>1, <1>2, <1>3
<1> QED
    BY <1>1, <1>2, <1>3, <1>4

\* It is nothing that the invariant speaks of.
LEMMA DyingKeeps ==
    ASSUME SessionInv, NEW s \in DOMAIN sessions,
           sessions' = [sessions EXCEPT ![s].live = FALSE],
           UNCHANGED <<account, serving>>
    PROVE  SessionInv'
<1>1. sessions' \in Seq(Session) /\ DOMAIN sessions' = DOMAIN sessions
    BY OneDead DEF SessionInv, SessionTypes
<1>2. \A k \in DOMAIN sessions : /\ sessions'[k].pw = sessions[k].pw
                                 /\ sessions'[k].late = sessions[k].late
                                 /\ sessions'[k].live => sessions[k].live
    BY OneDead DEF SessionInv, SessionTypes
<1> QED
    BY <1>1, <1>2 DEF SessionInv, SessionTypes, RotationsKnow, OnlyALateRequestOutlivesAReset

\* A request goes on to something that is neither a rotation nor the issue of tokens, or
\* carries a password of the account there.
LEMMA TurnKeeps ==
    ASSUME SessionInv, NEW r \in Requests, NEW next, Turn(r, next),
           UNCHANGED <<account, sessions>>,
           next.step # "rotate",
           next.step \in {"enter", "challenge"} => next.pw \in Nat
    PROVE  SessionInv'
    BY DEF SessionInv, SessionTypes, RotationsKnow, OnlyALateRequestOutlivesAReset, Turn

\* A new session is live and last.
LEMMA NewSessionKeeps ==
    ASSUME SessionInv, NEW r \in Requests, NEW old \in Seq(Session), NEW new \in Session,
           DOMAIN old = DOMAIN sessions,
           \A k \in DOMAIN sessions : /\ old[k].pw = sessions[k].pw
                                      /\ old[k].late = sessions[k].late
                                      /\ old[k].live => sessions[k].live,
           sessions' = Append(old, new), Finish(r), UNCHANGED account,
           new.pw = account.pw \/ new.late
    PROVE  SessionInv'
<1>1. Len(old) \in Nat /\ DOMAIN old = 1..Len(old)
    BY DEF Session
<1>2. /\ sessions' \in Seq(Session) /\ DOMAIN sessions' = 1..(Len(old) + 1)
      /\ sessions'[Len(old) + 1] = new
      /\ \A k \in DOMAIN old : sessions'[k] = old[k]
    BY <1>1
<1>3. SessionTypes'
    BY <1>2 DEF SessionInv, SessionTypes, Finish, Turn, NoWork
<1>4. RotationsKnow'
    BY <1>1, <1>2 DEF SessionInv, SessionTypes, RotationsKnow, Finish, Turn, NoWork
<1>5. OnlyALateRequestOutlivesAReset'
  <2> SUFFICES ASSUME NEW k \in DOMAIN sessions', sessions'[k].live, sessions'[k].pw # account'.pw
               PROVE  sessions'[k].late
      BY DEF OnlyALateRequestOutlivesAReset
  <2>1. CASE k \in DOMAIN old
    BY <1>2, <2>1 DEF SessionInv, OnlyALateRequestOutlivesAReset
  <2>2. CASE k = Len(old) + 1
    BY <1>2, <2>2
  <2> QED
    BY <1>1, <1>2, <2>1, <2>2
<1> QED
    BY <1>3, <1>4, <1>5 DEF SessionInv

\* Every step of a request keeps the invariant.
LEMMA SessionStep == SessionInv /\ [AuthNext]_authVars => SessionInv'
<1> SUFFICES ASSUME SessionInv, [AuthNext]_authVars PROVE SessionInv'
    OBVIOUS
<1>0. SessionTypes /\ RotationsKnow /\ OnlyALateRequestOutlivesAReset /\ account.pw \in Nat
    BY DEF SessionInv, SessionTypes, Account
<1>1. ASSUME NEW r \in Requests, Login(r) \/ ActivateMFA(r) \/ RequestDies(r)
      PROVE  SessionInv'
  <2>1. CASE Login(r)
    <3> DEFINE next == [step |-> IF account.mfa THEN "challenge" ELSE "enter", pw |-> account.pw]
    <3>1. Turn(r, next) /\ UNCHANGED <<account, sessions>>
      BY <2>1 DEF Login
    <3>2. next.step # "rotate" /\ next.pw \in Nat
      BY <1>0
    <3> HIDE DEF next
    <3> QED
      BY <3>1, <3>2, TurnKeeps
  <2>2. CASE RequestDies(r)
    BY <2>2, TurnKeeps DEF RequestDies, Finish, NoWork
  <2>3. CASE ActivateMFA(r)
    <3>1. account' \in Account /\ account'.pw = account.pw
      BY <1>0, <2>3 DEF SessionTypes, Account, ActivateMFA
    <3>2. serving' = [serving EXCEPT ![r] = NoWork] /\ sessions' = sessions
      BY <2>3 DEF ActivateMFA, Finish, Turn
    <3> QED
      BY <1>0, <3>1, <3>2 DEF SessionInv, SessionTypes, RotationsKnow, NoWork,
                              OnlyALateRequestOutlivesAReset
  <2> QED
    BY <1>1, <2>1, <2>2, <2>3
<1>2. ASSUME NEW r \in Requests, NEW code \in Secrets, BeginConfirmMFA(r, code)
       PROVE  SessionInv'
  <2>1. Turn(r, [step |-> "activate", code |-> code]) /\ UNCHANGED <<account, sessions>>
    BY <1>2 DEF BeginConfirmMFA
  <2> QED
    BY <2>1, TurnKeeps
<1>3. ASSUME NEW r \in Requests, NEW k \in DOMAIN resets, BeginReset(r, k)
       PROVE  SessionInv'
  <2>1. Turn(r, [step |-> "reset", token |-> k]) /\ UNCHANGED <<account, sessions>>
    BY <1>3 DEF BeginReset
  <2> QED
    BY <2>1, TurnKeeps
<1>4. ASSUME NEW r \in Requests, IssueTokens(r) PROVE SessionInv'
  <2> DEFINE new == NewSession(serving[r].pw, serving[r].pw # account.pw)
  <2>1. new \in Session /\ (new.pw = account.pw \/ new.late)
    BY <1>0, <1>4 DEF NewSession, Session, SessionTypes, IssueTokens
  <2>2. sessions' = Append(sessions, new) /\ Finish(r) /\ UNCHANGED account
    BY <1>4 DEF IssueTokens
  <2> HIDE DEF new
  <2> QED
    BY <1>0, <2>1, <2>2, NewSessionKeeps DEF SessionTypes
<1>5. ASSUME NEW r \in Requests, Rotate(r) PROVE SessionInv'
  <2> DEFINE s == serving[r].session
             new == NewSession(sessions[s].pw, sessions[s].late \/ serving[r].pw # account.pw)
             old == [sessions EXCEPT ![s].live = FALSE]
  <2>1. s \in DOMAIN sessions /\ (sessions[s].pw = serving[r].pw \/ sessions[s].late)
    BY <1>0, <1>5 DEF Rotate, RotationsKnow
  <2>2. sessions \in Seq(Session) /\ sessions[s] \in Session
    BY <1>0, <2>1 DEF SessionTypes
  <2>3. new \in Session /\ (new.pw = account.pw \/ new.late)
    BY <2>1, <2>2 DEF NewSession, Session
  <2>4. old \in Seq(Session) /\ DOMAIN old = DOMAIN sessions
    BY <2>1, <2>2, OneDead
  <2>5. \A k \in DOMAIN sessions : /\ old[k].pw = sessions[k].pw
                                   /\ old[k].late = sessions[k].late
                                   /\ old[k].live => sessions[k].live
    BY <2>1, <2>2, OneDead
  <2>6. sessions' = Append(old, new) /\ Finish(r) /\ UNCHANGED account
    BY <1>5 DEF Rotate
  <2> HIDE DEF s, new, old
  <2> QED
    BY <2>3, <2>4, <2>5, <2>6, NewSessionKeeps
<1>6. ASSUME NEW r \in Requests, NEW code \in Secrets, VerifyTOTP(r, code) PROVE SessionInv'
  <2>1. serving[r].pw \in Nat
    BY <1>0, <1>6 DEF VerifyTOTP, SessionTypes
  <2>2. CASE code = account.secret
    BY <1>6, <2>1, <2>2, TurnKeeps DEF VerifyTOTP
  <2>3. CASE code # account.secret
    BY <1>0, <1>6, <2>3 DEF VerifyTOTP, SessionInv, SessionTypes, RotationsKnow,
                            OnlyALateRequestOutlivesAReset
  <2> QED
    BY <2>2, <2>3
<1>7. ASSUME NEW r \in Requests, NEW s \in DOMAIN sessions, BeginRefresh(r, s) PROVE SessionInv'
  <2>1. /\ sessions[s].live /\ UNCHANGED <<account, sessions>>
        /\ serving' = [serving EXCEPT ![r] = [step |-> "rotate", session |-> s, pw |-> account.pw]]
    BY <1>7 DEF BeginRefresh, Turn
  <2>2. sessions[s].pw = account.pw \/ sessions[s].late
    BY <1>0, <2>1 DEF OnlyALateRequestOutlivesAReset
  <2>3. SessionTypes'
    BY <1>0, <2>1 DEF SessionTypes
  <2>4. RotationsKnow'
    BY <1>0, <2>1, <2>2 DEF SessionTypes, RotationsKnow
  <2>5. OnlyALateRequestOutlivesAReset'
    BY <1>0, <2>1 DEF OnlyALateRequestOutlivesAReset
  <2> QED
    BY <2>3, <2>4, <2>5 DEF SessionInv
<1>8. ASSUME NEW r \in Requests, FinishReset(r) PROVE SessionInv'
  <2>1. /\ account' \in Account
        /\ sessions' = [k \in DOMAIN sessions |-> [sessions[k] EXCEPT !.live = FALSE]]
        /\ serving' = [serving EXCEPT ![r] = NoWork]
    <3>1. account' = [account EXCEPT !.pw = account.pw + 1]
      BY <1>8 DEF FinishReset
    <3>2. account' \in Account
      BY <1>0, <3>1 DEF SessionTypes, Account
    <3> QED
      BY <1>8, <3>2 DEF FinishReset, Finish, Turn
  <2>2. sessions' \in Seq(Session) /\ DOMAIN sessions' = DOMAIN sessions
    <3>1. DOMAIN sessions = 1..Len(sessions) /\ Len(sessions) \in Nat
      BY <1>0 DEF SessionTypes
    <3>2. \A k \in DOMAIN sessions : [sessions[k] EXCEPT !.live = FALSE] \in Session
      <4>1. \A k \in DOMAIN sessions : sessions[k] \in Session
        BY <1>0 DEF SessionTypes
      <4> QED
        BY <4>1, Dead
    <3>3. sessions' \in [1..Len(sessions) -> Session]
      BY <2>1, <3>1, <3>2
    <3> QED
      BY <3>1, <3>3
  <2>3. \A k \in DOMAIN sessions : /\ sessions'[k].pw = sessions[k].pw
                                   /\ sessions'[k].late = sessions[k].late
                                   /\ sessions'[k].live = FALSE
    <3>1. \A k \in DOMAIN sessions : sessions[k] \in Session
      BY <1>0 DEF SessionTypes
    <3>2. \A k \in DOMAIN sessions : sessions'[k] = [sessions[k] EXCEPT !.live = FALSE]
      BY <2>1
    <3> QED
      BY <3>1, <3>2, Dead
  <2> QED
    BY <1>0, <2>1, <2>2, <2>3 DEF SessionInv, SessionTypes, RotationsKnow, NoWork,
                                  OnlyALateRequestOutlivesAReset
<1>9. ASSUME NEW s \in DOMAIN sessions, Logout(s) \/ SessionExpires(s) PROVE SessionInv'
    BY <1>9, DyingKeeps DEF Logout, SessionExpires
<1>10. CASE ForgotPassword \/ VerifyEmail \/ EnrollMFA
  <2>1. /\ account' \in Account /\ account'.pw = account.pw
        /\ UNCHANGED <<sessions, serving>>
    <3>1. CASE ForgotPassword
      BY <1>0, <3>1 DEF ForgotPassword, SessionTypes
    <3>2. CASE VerifyEmail
      BY <1>0, <3>2 DEF VerifyEmail, SessionTypes, Account
    <3>3. CASE EnrollMFA
      <4>1. account' = [account EXCEPT !.pending = account.issued + 1,
                                       !.issued = account.issued + 1]
        BY <3>3 DEF EnrollMFA
      <4>2. account \in Account /\ account.issued + 1 \in Nat
        BY <1>0 DEF SessionTypes, Account
      <4>3. account' \in Account /\ account'.pw = account.pw
        BY <4>1, <4>2 DEF Account
      <4> QED
        BY <3>3, <4>3 DEF EnrollMFA
    <3> QED
      BY <1>10, <3>1, <3>2, <3>3
  <2> QED
    BY <1>0, <2>1 DEF SessionInv, SessionTypes, RotationsKnow, OnlyALateRequestOutlivesAReset
<1>11. CASE UNCHANGED authVars
    BY <1>0, <1>11 DEF authVars, SessionInv, SessionTypes, RotationsKnow,
                      OnlyALateRequestOutlivesAReset
<1>12. CASE AuthNext
  <2>1. CASE \E r \in Requests :
               \/ Login(r) \/ IssueTokens(r) \/ Rotate(r) \/ FinishReset(r)
               \/ ActivateMFA(r) \/ RequestDies(r)
               \/ \E code \in Secrets : VerifyTOTP(r, code) \/ BeginConfirmMFA(r, code)
               \/ \E s \in DOMAIN sessions : BeginRefresh(r, s)
               \/ \E k \in DOMAIN resets : BeginReset(r, k)
    <3>1. PICK r \in Requests :
               \/ Login(r) \/ IssueTokens(r) \/ Rotate(r) \/ FinishReset(r)
               \/ ActivateMFA(r) \/ RequestDies(r)
               \/ \E code \in Secrets : VerifyTOTP(r, code) \/ BeginConfirmMFA(r, code)
               \/ \E s \in DOMAIN sessions : BeginRefresh(r, s)
               \/ \E k \in DOMAIN resets : BeginReset(r, k)
      BY <2>1
    <3>2. CASE Login(r) \/ ActivateMFA(r) \/ RequestDies(r)
      BY <1>1, <3>2
    <3>3. CASE \E code \in Secrets : BeginConfirmMFA(r, code)
      BY <1>2, <3>3
    <3>4. CASE \E k \in DOMAIN resets : BeginReset(r, k)
      BY <1>3, <3>4
    <3>5. CASE \E code \in Secrets : VerifyTOTP(r, code)
      BY <1>6, <3>5
    <3>6. CASE \E s \in DOMAIN sessions : BeginRefresh(r, s)
      BY <1>7, <3>6
    <3> QED
      BY <1>4, <1>5, <1>8, <3>1, <3>2, <3>3, <3>4, <3>5, <3>6
  <2>2. CASE \E s \in DOMAIN sessions : Logout(s) \/ SessionExpires(s)
    BY <1>9, <2>2
  <2> QED
    BY <1>10, <1>12, <2>1, <2>2 DEF AuthNext
<1> QED
    BY <1>11, <1>12

\* The invariant of the sessions holds in every reachable state.
LEMMA SessionsAlways == AuthSpec => []SessionInv
    BY InitSessions, SessionStep, PTL DEF AuthSpec

\* A session that works under an older password descends from a request that had begun when
\* the password was changed (auth.go, ResetPassword, Refresh, issueTokens).
THEOREM AResetRevokesTheRest == AuthSpec => []OnlyALateRequestOutlivesAReset
    BY SessionsAlways, PTL DEF SessionInv

-----------------------------------------------------------------------------
(* Rights *)

\* What the rules of rights count with.
RightsTypes ==
    /\ second \in Nat /\ denied \in Int
    /\ DOMAIN clerk = Clerks
    /\ \A card \in cards : card.iat \in Nat

\* The clock and the cards keep their types.
LEMMA RightsTypesAlways == RightsSpec => []RightsTypes
<1>1. RightsInit => RightsTypes
    BY DEF RightsInit, RightsTypes
<1>2. RightsTypes /\ [RightsNext]_rightsVars => RightsTypes'
    BY DEF RightsTypes, RightsNext, rightsVars, BeginCreateOperator, LockUserForOperator,
           CreateOperator, BeginUpdateOperator, UpdateOperator, RollbackClerk,
           UpdateUserRole, IssueCard, SignOut, Tick, RedisFlips
<1> QED
    BY <1>1, <1>2, PTL DEF RightsSpec

\* However the screens of two administrators interleave, nobody keeps the role of the till
\* after the binding is gone, unless somebody gave the role by hand (store.go).
THEOREM TheRoleFollowsTheBinding == RightsSpec => []OperatorRoleHasAReason
<1>1. RightsInit => OperatorRoleHasAReason
    BY DEF RightsInit, OperatorRoleHasAReason
<1>2. OperatorRoleHasAReason /\ [RightsNext]_rightsVars => OperatorRoleHasAReason'
  <2> SUFFICES ASSUME OperatorRoleHasAReason, [RightsNext]_rightsVars
               PROVE  OperatorRoleHasAReason'
      OBVIOUS
  <2>1. ASSUME NEW c \in Clerks, CreateOperator(c) PROVE OperatorRoleHasAReason'
    BY <2>1 DEF CreateOperator, OperatorRoleHasAReason
  <2>2. ASSUME NEW c \in Clerks, UpdateOperator(c) PROVE OperatorRoleHasAReason'
    <3>1. binding'.active = clerk[c].active
      BY <2>2 DEF UpdateOperator
    <3>2. CASE Switched(c) /\ clerk[c].active
      BY <3>1, <3>2 DEF OperatorRoleHasAReason
    <3>3. CASE Switched(c) /\ ~clerk[c].active
      BY <2>2, <3>3 DEF UpdateOperator, OperatorRoleHasAReason
    <3>4. CASE ~Switched(c)
      BY <2>2, <3>1, <3>4 DEF UpdateOperator, Switched, OperatorRoleHasAReason
    <3> QED
      BY <3>2, <3>3, <3>4
  <2>3. ASSUME NEW r \in Roles, UpdateUserRole(r) PROVE OperatorRoleHasAReason'
    BY <2>3 DEF UpdateUserRole, OperatorRoleHasAReason
  <2>4. CASE UNCHANGED <<role, binding, granted>>
    BY <2>4 DEF OperatorRoleHasAReason
  <2> QED
    BY <2>1, <2>2, <2>3, <2>4
       DEF RightsNext, rightsVars, BeginCreateOperator, LockUserForOperator,
           BeginUpdateOperator, RollbackClerk, IssueCard, SignOut, Tick, RedisFlips
<1> QED
    BY <1>1, <1>2, PTL DEF RightsSpec

\* A right that was taken away is gone: the role with the binding, and every token of the
\* time up to a recorded logout for as long as it could have lived (denylist.go, jwt.go).
THEOREM TakenRightsStayTaken == RightsSpec => []RightsTakenAreGone
<1>1. AccessTTL \in Nat
    BY RightsAssumption
<1>2. RightsTypes => LogoutIsFinal
    BY <1>1 DEF RightsTypes, LogoutIsFinal, Accepted, IsRevoked, Remembered
<1> QED
    BY <1>2, RightsTypesAlways, TheRoleFollowsTheBinding, PTL DEF RightsTakenAreGone

-----------------------------------------------------------------------------
(* The audit trail *)

\* A record with the fields of audit_log.
IsRow(r) == r = [seq |-> r.seq, prev |-> r.prev, content |-> r.content, hash |-> r.hash]
            /\ r.seq \in Nat
\* The rows of a table, in order of seq.
IsTable(log) == /\ log \in Seq(Range(log))
                /\ \A i \in DOMAIN log : IsRow(log[i])
                /\ \A i, j \in DOMAIN log : i < j => log[i].seq < log[j].seq
\* The hash the row at i has to point to, and whether nothing about this row gives it away.
HashBefore(log, i) == IF i = 1 THEN GenesisHash ELSE log[i - 1].hash
Linked(log, i) == log[i].prev = HashBefore(log, i) /\ log[i].hash = ComputeHash(log[i])
\* Rows 1 .. k are the ones read, and hash is what the last of them holds.
ReadTo(log, k, from, hash) == /\ k \in 0..Len(log)
                              /\ from = (IF k = 0 THEN 0 ELSE log[k].seq + 1)
                              /\ hash = HashBefore(log, k + 1)
\* Damage that no verification may pass over.
Telling(d) == d.middle \/ d.how = "edited"
Recording == {s \in Scribes : scribe[s].step = "recorded"}

TrailTypes ==
    /\ IsTable(auditLog) /\ Len(auditLog) <= MaxTrail
    /\ scribe = [s \in Scribes |-> scribe[s]]
    /\ \A s \in Scribes : scribe[s].step \in {"idle", "recorded"}
    /\ verifier.step \in {"idle", "reading", "valid", "broken"}
    /\ damage \in [how : {"none", "edited", "rehashed", "deleted"}, middle : BOOLEAN]
\* The lock: one transaction holds a row, and it comes after the others.
OneWriterAtATime ==
    /\ \A s, t \in Recording : s = t
    /\ \A s \in Recording : /\ IsRow(scribe[s].row) /\ Len(auditLog) < MaxTrail
                           /\ \A i \in DOMAIN auditLog : auditLog[i].seq < scribe[s].row.seq
\* Until someone touches the table its rows are numbered from 1 and each holds the hash
\* of the one before it, the row being written too.
WholeUntilTouched ==
    damage = NoDamage =>
        /\ \A i \in DOMAIN auditLog : auditLog[i].seq = i /\ Linked(auditLog, i)
        /\ \A s \in Recording :
              /\ scribe[s].row.seq = Len(auditLog) + 1
              /\ scribe[s].row.prev = HashBefore(auditLog, Len(auditLog) + 1)
              /\ scribe[s].row.hash = ComputeHash(scribe[s].row)
\* Damage that can be told leaves a row that gives it away.
DamageLeavesAMark == Telling(damage) => \E k \in DOMAIN auditLog : ~Linked(auditLog, k)
\* A verification knows where it is in a whole table; in one that was damaged before it
\* began, the row that gives it away is still to come.
VerifierIsOnItsWay ==
    verifier.step = "reading" =>
        /\ verifier = [step |-> verifier.step, from |-> verifier.from,
                       prev |-> verifier.prev, met |-> verifier.met]
        /\ verifier.met # NoDamage => verifier.met = damage
        /\ damage = NoDamage => \E k \in 0..Len(auditLog) : ReadTo(auditLog, k, verifier.from, verifier.prev)
        /\ verifier.met # NoDamage /\ Telling(verifier.met) =>
              \E k \in 0..Len(auditLog) : /\ ReadTo(auditLog, k, verifier.from, verifier.prev)
                                          /\ \E i \in (k + 1)..Len(auditLog) : ~Linked(auditLog, i)
TrailInv == TrailTypes /\ OneWriterAtATime /\ WholeUntilTouched /\ DamageLeavesAMark
            /\ VerifierIsOnItsWay /\ AVerificationTells

\* The length and the domain of a table.
LEMMA TableFacts ==
    ASSUME NEW log, log \in Seq(Range(log))
    PROVE  /\ Len(log) \in Nat /\ DOMAIN log = 1..Len(log)
           /\ log \in [1..Len(log) -> Range(log)]
           /\ (log = << >> <=> Len(log) = 0)
<1> DEFINE S == Range(log)
<1>1. log \in Seq(S)
    OBVIOUS
<1> HIDE DEF S
<1>2. /\ Len(log) \in Nat /\ DOMAIN log = 1..Len(log)
      /\ log \in [1..Len(log) -> S]
      /\ (log = << >> <=> Len(log) = 0)
    BY <1>1
<1> QED BY <1>2 DEF S

\* A row at the end.
LEMMA OneRowMore ==
    ASSUME NEW log, log \in Seq(Range(log)), NEW r
    PROVE  /\ Append(log, r) \in Seq(Range(Append(log, r))) /\ Len(Append(log, r)) = Len(log) + 1
           /\ \A i \in 1..Len(log) : Append(log, r)[i] = log[i]
           /\ Append(log, r)[Len(log) + 1] = r
<1> DEFINE S == Range(log) \union {r}
<1>1. log \in Seq(S) /\ r \in S
    BY SeqMonotonic
<1> HIDE DEF S
<1>2. /\ Append(log, r) \in Seq(S) /\ Len(Append(log, r)) = Len(log) + 1
      /\ \A i \in 1..Len(log) : Append(log, r)[i] = log[i]
      /\ Append(log, r)[Len(log) + 1] = r
    BY <1>1, AppendProperties
<1>3. Append(log, r) \in Seq(Range(Append(log, r)))
    BY <1>2, SeqOfRange
<1> QED BY <1>2, <1>3

\* One row changed.
LEMMA OneRowRewritten ==
    ASSUME NEW log, log \in Seq(Range(log)), NEW k \in 1..Len(log), NEW r,
           NEW log2, log2 = [log EXCEPT ![k] = r]
    PROVE  /\ log2 \in Seq(Range(log2)) /\ Len(log2) = Len(log)
           /\ \A i \in 1..Len(log) : log2[i] = IF i = k THEN r ELSE log[i]
<1> DEFINE S == Range(log) \union {r}
<1>1. log \in Seq(S) /\ r \in S
    BY SeqMonotonic
<1> HIDE DEF S
<1>2. log2 \in Seq(S) /\ Len(log2) = Len(log)
      /\ \A i \in 1..Len(log) : log2[i] = IF i = k THEN r ELSE log[i]
    BY <1>1, ExceptSeq
<1>3. log2 \in Seq(Range(log2))
    BY <1>2, SeqOfRange
<1> QED BY <1>2, <1>3

\* One row taken out.
LEMMA OneRowLess ==
    ASSUME NEW log, log \in Seq(Range(log)), NEW k \in 1..Len(log), NEW log2, log2 = RemoveAt(log, k)
    PROVE  /\ log2 \in Seq(Range(log2)) /\ Len(log2) = Len(log) - 1
           /\ \A i \in 1..(Len(log) - 1) : log2[i] = IF i < k THEN log[i] ELSE log[i + 1]
<1> DEFINE S == Range(log)  a == SubSeq(log, 1, k - 1)  b == SubSeq(log, k + 1, Len(log))
<1>0. log \in Seq(S) /\ Len(log) \in Nat /\ \A i \in 1..Len(log) : log[i] \in S
    BY TableFacts
<1>5. log2 = a \o b
    BY DEF RemoveAt
<1> HIDE DEF S
<1>1. a \in Seq(S) /\ Len(a) = k - 1 /\ \A i \in 1..(k - 1) : a[i] = log[i]
  <2>1. 1 \in Int /\ k - 1 \in Int /\ \A i \in 1..(k - 1) : log[i] \in S
      BY <1>0
  <2> QED BY <2>1, <1>0, SubSeqProperties
<1>2. b \in Seq(S) /\ Len(b) = Len(log) - k /\ \A i \in 1..(Len(log) - k) : b[i] = log[k + i]
  <2>1. k + 1 \in Int /\ Len(log) \in Int /\ \A i \in (k + 1)..Len(log) : log[i] \in S
      BY <1>0
  <2>2. /\ b \in Seq(S) /\ Len(b) = IF k + 1 <= Len(log) THEN Len(log) - (k + 1) + 1 ELSE 0
        /\ \A i \in 1..(Len(log) - (k + 1) + 1) : b[i] = log[(k + 1) + i - 1]
      BY <2>1, SubSeqProperties
  <2> QED BY <2>2, <1>0
<1> HIDE DEF a, b
<1>3. /\ log2 \in Seq(S) /\ Len(log2) = Len(a) + Len(b)
      /\ \A i \in 1..(Len(a) + Len(b)) : log2[i] = IF i <= Len(a) THEN a[i] ELSE b[i - Len(a)]
  <2>1. /\ a \o b \in Seq(S) /\ Len(a \o b) = Len(a) + Len(b)
        /\ \A i \in 1..(Len(a) + Len(b)) : (a \o b)[i] = IF i <= Len(a) THEN a[i] ELSE b[i - Len(a)]
      BY <1>1, <1>2, ConcatProperties
  <2> QED BY <2>1, <1>5
<1>4. log2 \in Seq(Range(log2)) 
    BY <1>3, SeqOfRange
<1>7. \A i \in 1..(Len(log) - 1) : log2[i] = IF i <= k - 1 THEN a[i] ELSE b[i - (k - 1)]
  <2> DEFINE n == Len(a)
  <2>0. k - 1 + (Len(log) - k) = Len(log) - 1 /\ Len(a) + Len(b) = k - 1 + (Len(log) - k)
      BY <1>0, <1>1, <1>2
  <2>1. \A i \in 1..(k - 1 + (Len(log) - k)) : log2[i] = IF i <= k - 1 THEN a[i] ELSE b[i - (k - 1)]
      BY <1>1, <1>2, <1>3
  <2> QED BY <2>0, <2>1
<1>6. \A i \in 1..(Len(log) - 1) : log2[i] = IF i < k THEN log[i] ELSE log[i + 1]
  <2> TAKE i \in 1..(Len(log) - 1)
  <2>1. CASE i < k
      BY <2>1, <1>0, <1>1, <1>7
  <2>2. CASE ~(i < k)
    <3>1. log2[i] = b[i - (k - 1)] /\ i - (k - 1) \in 1..(Len(log) - k)
      <4>1. k \in Int /\ i \in Int /\ Len(log) \in Int /\ k <= i /\ i <= Len(log) - 1 /\ k >= 1
          BY <2>2, <1>0
      <4>2. log2[i] = IF i <= k - 1 THEN a[i] ELSE b[i - (k - 1)]
          BY <1>7
      <4> QED BY <4>1, <4>2
    <3>2. b[i - (k - 1)] = log[k + (i - (k - 1))] /\ k + (i - (k - 1)) = i + 1
        BY <3>1, <1>0, <1>2
    <3> QED BY <3>1, <3>2, <2>2
  <2> QED BY <2>1, <2>2
<1> QED BY <1>0, <1>1, <1>2, <1>3, <1>4, <1>6

\* A row that may come next, and a table with this row at its end: every other row, and
\* where a reader is, are as they were.
FitsAfter(log, r) == IsTable(log) /\ IsRow(r) /\ \A i \in DOMAIN log : log[i].seq < r.seq
Grown(log, r, log2) ==
    /\ IsTable(log2) /\ Len(log2) = Len(log) + 1 /\ log2[Len(log) + 1] = r
    /\ \A i \in 1..Len(log) : log2[i] = log[i]
    /\ \A i \in 1..(Len(log) + 1) : HashBefore(log2, i) = HashBefore(log, i)
    /\ \A i \in 1..Len(log) : Linked(log2, i) <=> Linked(log, i)
    /\ \A k \in 0..Len(log) : \A from, hash :
          ReadTo(log, k, from, hash) => ReadTo(log2, k, from, hash)
\* A row at the end of a table leaves every other row, and where a reader is, as they were.
LEMMA TableGrows ==
    ASSUME NEW log, NEW r, FitsAfter(log, r) PROVE Grown(log, r, Append(log, r))
<1> DEFINE log2 == Append(log, r)
<1>0. IsTable(log) /\ IsRow(r) /\ \A i \in DOMAIN log : log[i].seq < r.seq
    BY DEF FitsAfter
<1>1. log \in Seq(Range(log)) /\ Len(log) \in Nat /\ DOMAIN log = 1..Len(log)
    BY <1>0, TableFacts DEF IsTable
<1>2. /\ log2 \in Seq(Range(log2)) /\ Len(log2) = Len(log) + 1 /\ log2[Len(log) + 1] = r
      /\ \A i \in 1..Len(log) : log2[i] = log[i]
    BY <1>1, OneRowMore
<1> HIDE DEF log2
<1>3. DOMAIN log2 = 1..(Len(log) + 1)
    BY <1>2, TableFacts
<1>4. IsTable(log2)
  <2>1. \A i \in 1..Len(log) : IsRow(log[i])
      BY <1>0, <1>1 DEF IsTable
  <2>2. \A i, j \in 1..Len(log) : i < j => log[i].seq < log[j].seq
      BY <1>0, <1>1 DEF IsTable
  <2>3. \A i \in DOMAIN log2 : i \in 1..Len(log) \/ i = Len(log) + 1
      BY <1>1, <1>3
  <2>4. \A i \in DOMAIN log2 : IsRow(log2[i])
      BY <1>0, <1>2, <2>1, <2>3
  <2>5. \A i, j \in DOMAIN log2 : i < j => log2[i].seq < log2[j].seq
    <3> TAKE i, j \in DOMAIN log2
    <3> HAVE i < j
    <3>1. i \in 1..Len(log)
        BY <2>3, <1>1, <1>3
    <3>2. CASE j \in 1..Len(log)
        BY <3>1, <3>2, <2>2, <1>2
    <3>3. CASE j = Len(log) + 1
        BY <1>0, <3>1, <3>3, <1>1, <1>2
    <3> QED BY <2>3, <3>2, <3>3
  <2> QED BY <1>2, <2>4, <2>5 DEF IsTable
<1>5. \A i \in 1..(Len(log) + 1) : HashBefore(log2, i) = HashBefore(log, i)
  <2> TAKE i \in 1..(Len(log) + 1)
  <2>1. i = 1 \/ (i # 1 /\ i - 1 \in 1..Len(log))
      BY <1>1
  <2> QED BY <2>1, <1>2 DEF HashBefore
<1>6. \A i \in 1..Len(log) : Linked(log2, i) <=> Linked(log, i)
  <2> TAKE i \in 1..Len(log)
  <2>1. i \in 1..(Len(log) + 1) /\ log2[i] = log[i]
      BY <1>1, <1>2
  <2> QED BY <2>1, <1>5 DEF Linked
<1>7. \A k \in 0..Len(log) : \A from, hash :
         ReadTo(log, k, from, hash) => ReadTo(log2, k, from, hash)
  <2> TAKE k \in 0..Len(log)
  <2> TAKE from, hash
  <2>1. k \in 0..Len(log2) /\ k + 1 \in 1..(Len(log) + 1) /\ (k = 0 \/ (k # 0 /\ k \in 1..Len(log)))
      BY <1>1, <1>2
  <2>2. HashBefore(log2, k + 1) = HashBefore(log, k + 1)
      BY <2>1, <1>5
  <2> QED BY <2>1, <2>2, <1>2 DEF ReadTo
<1>8. Grown(log, r, log2)
    BY <1>2, <1>4, <1>5, <1>6, <1>7 DEF Grown
<1> QED BY <1>8 DEF log2

\* A row that keeps its number keeps the order.
FitsAt(log, k, r) == IsTable(log) /\ k \in 1..Len(log) /\ IsRow(r) /\ r.seq = log[k].seq
Rewritten(log, k, r, log2) == /\ IsTable(log2) /\ Len(log2) = Len(log)
                              /\ \A i \in 1..Len(log) : log2[i] = IF i = k THEN r ELSE log[i]
\* In a table with a row rewritten.
LEMMA TableRewritten ==
    ASSUME NEW log, NEW k, NEW r, FitsAt(log, k, r)
    PROVE  Rewritten(log, k, r, [log EXCEPT ![k] = r])
<1> DEFINE log2 == [log EXCEPT ![k] = r]
<1>0. IsTable(log) /\ k \in 1..Len(log) /\ IsRow(r) /\ r.seq = log[k].seq
    BY DEF FitsAt
<1>1. log \in Seq(Range(log)) /\ Len(log) \in Nat /\ DOMAIN log = 1..Len(log)
    BY <1>0, TableFacts DEF IsTable
<1>2. /\ log2 \in Seq(Range(log2)) /\ Len(log2) = Len(log)
      /\ \A i \in 1..Len(log) : log2[i] = IF i = k THEN r ELSE log[i]
    BY <1>0, <1>1, OneRowRewritten
<1> HIDE DEF log2
<1>3. DOMAIN log2 = 1..Len(log)
    BY <1>2, TableFacts
<1>4. \A i \in 1..Len(log) : IsRow(log[i]) /\ log2[i].seq = log[i].seq
    BY <1>0, <1>1, <1>2 DEF IsTable
<1>5. \A i, j \in 1..Len(log) : i < j => log[i].seq < log[j].seq
    BY <1>0, <1>1 DEF IsTable
<1>6. IsTable(log2)
    BY <1>0, <1>2, <1>3, <1>4, <1>5 DEF IsTable
<1>7. Rewritten(log, k, r, log2)
    BY <1>2, <1>6 DEF Rewritten
<1> QED BY <1>7 DEF log2

\* And what is left when a row is taken out.
LEMMA TableShrinks ==
    ASSUME NEW log, IsTable(log), NEW k \in 1..Len(log), NEW log2, log2 = RemoveAt(log, k)
    PROVE  /\ IsTable(log2) /\ Len(log2) = Len(log) - 1
           /\ \A i \in 1..(Len(log) - 1) : log2[i] = IF i < k THEN log[i] ELSE log[i + 1]
<1>1. log \in Seq(Range(log)) /\ Len(log) \in Nat /\ DOMAIN log = 1..Len(log)
    BY TableFacts DEF IsTable
<1>2. /\ log2 \in Seq(Range(log2)) /\ Len(log2) = Len(log) - 1
      /\ \A i \in 1..(Len(log) - 1) : log2[i] = IF i < k THEN log[i] ELSE log[i + 1]
    BY <1>1, OneRowLess
<1>3. DOMAIN log2 = 1..(Len(log) - 1)
    BY <1>2, TableFacts
<1>4. \A i \in 1..Len(log) : IsRow(log[i])
    BY <1>1 DEF IsTable
<1>5. \A i, j \in 1..Len(log) : i < j => log[i].seq < log[j].seq
    BY <1>1 DEF IsTable
<1>6. \A i \in 1..(Len(log) - 1) : i \in 1..Len(log) /\ i + 1 \in 1..Len(log)
    BY <1>1
<1>7. \A i \in 1..(Len(log) - 1) : IsRow(log2[i])
    BY <1>2, <1>4, <1>6
<1>8. \A i, j \in 1..(Len(log) - 1) : i < j => log2[i].seq < log2[j].seq
  <2> TAKE i, j \in 1..(Len(log) - 1)
  <2> HAVE i < j
  <2>1. CASE j < k
      BY <2>1, <1>2, <1>5, <1>6
  <2>2. CASE i < k /\ ~(j < k)
    <3>0. i \in 1..Len(log) /\ j + 1 \in 1..Len(log) /\ i < j + 1
        BY <1>6
    <3>1. log[i].seq < log[j + 1].seq
        BY <1>5, <3>0
    <3> QED BY <2>2, <3>1, <1>2
  <2>3. CASE ~(i < k) /\ ~(j < k)
    <3>0. i + 1 \in 1..Len(log) /\ j + 1 \in 1..Len(log) /\ i + 1 < j + 1
        BY <1>6
    <3>1. log[i + 1].seq < log[j + 1].seq
        BY <1>5, <3>0
    <3> QED BY <2>3, <3>1, <1>2
  <2> QED BY <2>1, <2>2, <2>3, <1>1
<1> QED BY <1>2, <1>3, <1>7, <1>8 DEF IsTable

\* What the invariant says of the table, at hand.
LEMMA TrailFacts ==
    ASSUME TrailInv
    PROVE  /\ IsTable(auditLog) /\ auditLog \in Seq(Range(auditLog))
           /\ Len(auditLog) \in Nat /\ DOMAIN auditLog = 1..Len(auditLog)
           /\ (auditLog = << >> <=> Len(auditLog) = 0)
           /\ \A i \in 1..Len(auditLog) : IsRow(auditLog[i])
           /\ \A i, j \in 1..Len(auditLog) : i < j => auditLog[i].seq < auditLog[j].seq
<1>1. IsTable(auditLog) /\ auditLog \in Seq(Range(auditLog))
    BY DEF TrailInv, TrailTypes, IsTable
<1>2. /\ Len(auditLog) \in Nat /\ DOMAIN auditLog = 1..Len(auditLog)
      /\ (auditLog = << >> <=> Len(auditLog) = 0)
    BY <1>1, TableFacts
<1> QED BY <1>1, <1>2 DEF IsTable

\* The empty table.
LEMMA TrailStart == ASSUME TrailInit PROVE TrailInv
<1>1. auditLog = << >> /\ DOMAIN auditLog = 1..0 /\ Len(auditLog) = 0
    BY DEF TrailInit
<1>2. auditLog \in Seq(Range(auditLog))
  <2>1. auditLog \in Seq({})
      BY <1>1
  <2> QED BY <2>1, SeqOfRange
<1>3. DOMAIN auditLog = {}
    BY <1>1
<1>4. IsTable(auditLog)
    BY <1>2, <1>3 DEF IsTable
<1>5. \A s \in Scribes : scribe[s] = [step |-> "idle"]
    BY DEF TrailInit
<1>6. scribe = [s \in Scribes |-> scribe[s]]
    BY DEF TrailInit
<1>7. Recording = {}
    BY <1>5 DEF Recording
<1>8. verifier.step = "idle"
    BY DEF TrailInit
<1>9. damage = NoDamage /\ damage.how = "none" /\ ~damage.middle
      /\ damage \in [how : {"none", "edited", "rehashed", "deleted"}, middle : BOOLEAN]
    BY DEF TrailInit, NoDamage
<1>10. TrailTypes
    BY <1>1, <1>4, <1>5, <1>6, <1>8, <1>9, AuditTrailAssumption DEF TrailTypes
<1>11. OneWriterAtATime /\ WholeUntilTouched /\ DamageLeavesAMark
    BY <1>3, <1>7, <1>9 DEF OneWriterAtATime, WholeUntilTouched, DamageLeavesAMark, Telling
<1>12. VerifierIsOnItsWay /\ AVerificationTells
    BY <1>8 DEF VerifierIsOnItsWay, AVerificationTells
<1> QED BY <1>10, <1>11, <1>12 DEF TrailInv

\* The row an entry is written as follows the last one.
LEMMA RecordingKeeps ==
    ASSUME TrailInv, NEW s \in Scribes, NEW p \in Payloads, RecordTx(s, p)
    PROVE  TrailInv'
<1>a. /\ IsTable(auditLog) /\ Len(auditLog) \in Nat /\ DOMAIN auditLog = 1..Len(auditLog)
      /\ (auditLog = << >> <=> Len(auditLog) = 0)
    BY TrailFacts
<1>b. \A i \in 1..Len(auditLog) : auditLog[i].seq \in Nat
    BY TrailFacts DEF IsRow
<1>c. \A i, j \in 1..Len(auditLog) : i < j => auditLog[i].seq < auditLog[j].seq
    BY TrailFacts
<1>0. Recording = {} /\ UNCHANGED <<auditLog, verifier, damage>> /\ scribe[s].step = "idle"
    BY DEF RecordTx, Recording
<1>1. Top.seq \in Nat /\ \A i \in 1..Len(auditLog) : auditLog[i].seq <= Top.seq
  <2>1. CASE auditLog = << >>
      BY <1>a, <2>1 DEF Top
  <2>2. CASE auditLog # << >>
    <3>1. Top = auditLog[Len(auditLog)] /\ Len(auditLog) \in 1..Len(auditLog)
        BY <1>a, <2>2 DEF Top, Last
    <3>2. \A n \in Nat : \A i \in 1..n : i = n \/ i < n
        OBVIOUS
    <3>3. \A i \in 1..Len(auditLog) : auditLog[i].seq <= auditLog[Len(auditLog)].seq
      <4> TAKE i \in 1..Len(auditLog)
      <4>1. CASE i = Len(auditLog)
          BY <4>1, <1>b
      <4>2. CASE i < Len(auditLog)
          BY <4>2, <3>1, <1>b, <1>c
      <4> QED BY <1>a, <3>2, <4>1, <4>2
    <3> QED BY <3>1, <3>3, <1>b
  <2> QED BY <2>1, <2>2
<1>2. /\ damage = NoDamage => Top.seq = Len(auditLog)
      /\ Top.hash = HashBefore(auditLog, Len(auditLog) + 1)
  <2>1. CASE auditLog = << >>
      BY <1>a, <2>1 DEF Top, HashBefore
  <2>2. CASE auditLog # << >>
    <3>1. Top = auditLog[Len(auditLog)] /\ Len(auditLog) \in 1..Len(auditLog)
          /\ Len(auditLog) + 1 # 1 /\ Len(auditLog) + 1 - 1 = Len(auditLog)
        BY <1>a, <2>2 DEF Top, Last
    <3>2. damage = NoDamage => auditLog[Len(auditLog)].seq = Len(auditLog)
        BY <1>a, <3>1 DEF TrailInv, WholeUntilTouched
    <3> QED BY <3>1, <3>2 DEF HashBefore
  <2> QED BY <2>1, <2>2
<1> DEFINE r == [seq |-> Top.seq + 1, prev |-> Top.hash, content |-> Scrub(p)]
           row == [seq |-> r.seq, prev |-> r.prev, content |-> r.content, hash |-> ComputeHash(r)]
<1>3. scribe' = [scribe EXCEPT ![s] = [step |-> "recorded", row |-> row]]
    BY DEF RecordTx
<1>4. /\ IsRow(row) /\ row.seq = Top.seq + 1 /\ row.prev = Top.hash /\ row.hash = ComputeHash(row)
    BY <1>1 DEF IsRow, ComputeHash
<1> HIDE DEF row
<1>5. scribe = [t \in Scribes |-> scribe[t]] /\ \A t \in Scribes : scribe[t].step \in {"idle", "recorded"}
    BY DEF TrailInv, TrailTypes
<1>6. /\ scribe' = [t \in Scribes |-> scribe'[t]]
      /\ \A t \in Scribes : scribe'[t] = IF t = s THEN [step |-> "recorded", row |-> row] ELSE scribe[t]
    BY <1>3, <1>5
<1>7. Recording' = {s} /\ scribe'[s].row = row
  <2> DEFINE recorded == "recorded"  after == [step |-> recorded, row |-> row]
  <2> HIDE DEF recorded
  <2>1. after.step = recorded /\ after.row = row
      OBVIOUS
  <2> USE DEF recorded
  <2> HIDE DEF after
  <2>2. \A t \in Scribes : t # s => scribe'[t].step # "recorded"
      BY <1>0, <1>6 DEF Recording
  <2>3. scribe'[s] = after
      BY <1>6 DEF after
  <2> QED BY <2>1, <2>2, <2>3 DEF Recording
<1>8. TrailTypes'
  <2>1. \A t \in Scribes : scribe'[t].step \in {"idle", "recorded"}
      BY <1>5, <1>6, <1>7 DEF Recording
  <2> QED BY <1>0, <1>6, <2>1 DEF TrailInv, TrailTypes
<1>9. OneWriterAtATime'
  <2>1. \A i \in 1..Len(auditLog) : auditLog[i].seq < row.seq
      BY <1>b, <1>1, <1>4
  <2> QED BY <1>a, <1>0, <1>4, <1>7, <2>1 DEF OneWriterAtATime, RecordTx
<1>10. WholeUntilTouched'
    BY <1>0, <1>2, <1>4, <1>7 DEF TrailInv, WholeUntilTouched
<1>11. (DamageLeavesAMark /\ VerifierIsOnItsWay /\ AVerificationTells)'
    BY <1>0 DEF TrailInv, DamageLeavesAMark, VerifierIsOnItsWay, AVerificationTells
<1> QED BY <1>8, <1>9, <1>10, <1>11 DEF TrailInv

\* A transaction that ends takes its row with it or leaves it at the end of the table.
LEMMA EndingKeepsScribes ==
    ASSUME TrailInv, NEW s \in Scribes, scribe' = [scribe EXCEPT ![s] = [step |-> "idle"]],
           scribe[s].step = "recorded"
    PROVE  /\ scribe' = [t \in Scribes |-> scribe'[t]]
           /\ \A t \in Scribes : scribe'[t].step \in {"idle", "recorded"}
           /\ Recording' = {} /\ s \in Recording
<1>1. scribe = [t \in Scribes |-> scribe[t]] /\ \A t \in Scribes : scribe[t].step \in {"idle", "recorded"}
    BY DEF TrailInv, TrailTypes
<1>2. /\ scribe' = [t \in Scribes |-> scribe'[t]]
      /\ \A t \in Scribes : scribe'[t] = IF t = s THEN [step |-> "idle"] ELSE scribe[t]
    BY <1>1
<1>3. s \in Recording /\ \A t \in Recording : t = s
    BY DEF Recording, TrailInv, OneWriterAtATime
<1>4. Recording' = {}
    BY <1>2, <1>3 DEF Recording
<1> QED BY <1>1, <1>2, <1>3, <1>4

\* Nothing is written.
LEMMA RollBackKeeps ==
    ASSUME TrailInv, NEW s \in Scribes, RollBackEntry(s)
    PROVE  TrailInv'
<1>0. UNCHANGED <<auditLog, verifier, damage>>
    BY DEF RollBackEntry
<1>1. /\ scribe' = [t \in Scribes |-> scribe'[t]]
      /\ \A t \in Scribes : scribe'[t].step \in {"idle", "recorded"}
      /\ Recording' = {}
    BY EndingKeepsScribes DEF RollBackEntry
<1>2. TrailTypes'
    BY <1>0, <1>1 DEF TrailInv, TrailTypes
<1>3. (OneWriterAtATime /\ WholeUntilTouched)'
    BY <1>0, <1>1 DEF TrailInv, OneWriterAtATime, WholeUntilTouched
<1>4. (DamageLeavesAMark /\ VerifierIsOnItsWay /\ AVerificationTells)'
    BY <1>0 DEF TrailInv, DamageLeavesAMark, VerifierIsOnItsWay, AVerificationTells
<1> QED BY <1>2, <1>3, <1>4 DEF TrailInv

\* The row is added at the end: it continues a whole table, and a verification that is
\* under way comes to it later.
LEMMA CommitKeeps ==
    ASSUME TrailInv, NEW s \in Scribes, CommitRecord(s)
    PROVE  TrailInv'
<1>a. /\ IsTable(auditLog) /\ Len(auditLog) \in Nat /\ DOMAIN auditLog = 1..Len(auditLog)
    BY TrailFacts
<1>0. scribe[s].step = "recorded" /\ UNCHANGED <<verifier, damage>>
    BY DEF CommitRecord
<1>1. /\ scribe' = [t \in Scribes |-> scribe'[t]]
      /\ \A t \in Scribes : scribe'[t].step \in {"idle", "recorded"}
      /\ Recording' = {} /\ s \in Recording
  <2>1. scribe' = [scribe EXCEPT ![s] = [step |-> "idle"]]
      BY DEF CommitRecord
  <2> QED BY <1>0, <2>1, EndingKeepsScribes
<1> PICK log : log = auditLog
    OBVIOUS
<1> PICK row : row = scribe[s].row
    OBVIOUS
<1> PICK log2 : log2 = auditLog'
    OBVIOUS
<1>2. /\ IsTable(log) /\ IsRow(row) /\ \A i \in DOMAIN log : log[i].seq < row.seq
      /\ log2 = Append(log, row) /\ Len(log) < MaxTrail
    BY <1>1, <1>a DEF TrailInv, OneWriterAtATime, CommitRecord
<1>3. /\ IsTable(log2) /\ Len(log2) = Len(log) + 1 /\ log2[Len(log) + 1] = row
      /\ \A i \in 1..Len(log) : log2[i] = log[i]
      /\ \A i \in 1..(Len(log) + 1) : HashBefore(log2, i) = HashBefore(log, i)
      /\ \A i \in 1..Len(log) : Linked(log2, i) <=> Linked(log, i)
      /\ \A k \in 0..Len(log) : \A from, hash :
            ReadTo(log, k, from, hash) => ReadTo(log2, k, from, hash)
  <2>1. FitsAfter(log, row)
      BY <1>2 DEF FitsAfter
  <2>2. Grown(log, row, Append(log, row))
      BY <2>1, TableGrows
  <2>3. Grown(log, row, log2)
      BY <1>2, <2>2
  <2> QED BY <2>3 DEF Grown
<1>b. Len(log) \in Nat /\ DOMAIN log = 1..Len(log) /\ DOMAIN log2 = 1..(Len(log) + 1)
  <2>1. log2 \in Seq(Range(log2))
      BY <1>3 DEF IsTable
  <2>2. DOMAIN log2 = 1..Len(log2)
      BY <2>1, TableFacts
  <2> QED BY <1>a, <1>3, <2>2
<1>4. TrailTypes'
  <2>1. Len(log2) <= MaxTrail
      BY <1>2, <1>3, <1>b, AuditTrailAssumption
  <2> QED BY <1>0, <1>1, <1>3, <2>1 DEF TrailInv, TrailTypes
<1>5. OneWriterAtATime'
    BY <1>1 DEF OneWriterAtATime
<1>6. WholeUntilTouched'
  <2> SUFFICES ASSUME damage = NoDamage
               PROVE  \A i \in 1..(Len(log) + 1) : log2[i].seq = i /\ Linked(log2, i)
      BY <1>0, <1>1, <1>b DEF WholeUntilTouched
  <2>1. /\ \A i \in 1..Len(log) : log[i].seq = i /\ Linked(log, i)
        /\ row.seq = Len(log) + 1
        /\ row.prev = HashBefore(log, Len(log) + 1)
        /\ row.hash = ComputeHash(row)
      BY <1>1, <1>b DEF TrailInv, WholeUntilTouched
  <2> TAKE i \in 1..(Len(log) + 1)
  <2>2. CASE i \in 1..Len(log)
      BY <2>1, <2>2, <1>3
  <2>3. CASE i = Len(log) + 1
    <3>1. HashBefore(log2, i) = HashBefore(log, Len(log) + 1) /\ log2[i] = row
        BY <1>3, <1>b, <2>3
    <3> QED BY <2>1, <2>3, <3>1 DEF Linked
  <2> QED BY <2>2, <2>3, <1>b
<1>7. DamageLeavesAMark'
  <2> SUFFICES ASSUME Telling(damage) PROVE \E k \in 1..(Len(log) + 1) : ~Linked(log2, k)
      BY <1>0, <1>b DEF DamageLeavesAMark
  <2>1. PICK k \in 1..Len(log) : ~Linked(log, k)
      BY <1>b DEF TrailInv, DamageLeavesAMark
  <2> QED BY <2>1, <1>3, <1>b
<1>8. VerifierIsOnItsWay'
  <2>1. \A k \in 0..Len(log) : k \in 0..Len(log2)
      BY <1>3, <1>b
  <2>2. (\E k \in 0..Len(log) : ReadTo(log, k, verifier.from, verifier.prev))
        => \E k \in 0..Len(log2) : ReadTo(log2, k, verifier.from, verifier.prev)
      BY <1>3, <2>1
  <2>3. ASSUME \E k \in 0..Len(log) : /\ ReadTo(log, k, verifier.from, verifier.prev)
                                      /\ \E i \in (k + 1)..Len(log) : ~Linked(log, i)
        PROVE  \E k \in 0..Len(log2) : /\ ReadTo(log2, k, verifier.from, verifier.prev)
                                       /\ \E i \in (k + 1)..Len(log2) : ~Linked(log2, i)
    <3>1. PICK k \in 0..Len(log) : /\ ReadTo(log, k, verifier.from, verifier.prev)
                                   /\ \E i \in (k + 1)..Len(log) : ~Linked(log, i)
        BY <2>3
    <3>2. PICK i \in (k + 1)..Len(log) : ~Linked(log, i)
        BY <3>1
    <3>3. i \in 1..Len(log) /\ i \in (k + 1)..Len(log2) /\ k \in 0..Len(log2)
        BY <1>3, <1>b
    <3>4. ReadTo(log2, k, verifier.from, verifier.prev) /\ ~Linked(log2, i)
        BY <3>1, <3>2, <3>3, <1>3
    <3> QED BY <3>3, <3>4
  <2> QED BY <1>0, <2>2, <2>3 DEF TrailInv, VerifierIsOnItsWay
<1>9. AVerificationTells'
    BY <1>0 DEF TrailInv, AVerificationTells
<1> QED BY <1>4, <1>5, <1>6, <1>7, <1>8, <1>9 DEF TrailInv

\* A table nobody touched; and one somebody did: no number in it is new, and what can
\* be told shows.
IsWhole(log) == IsTable(log) /\ \A i \in DOMAIN log : log[i].seq = i /\ Linked(log, i)
Damaged(log, log2, told) ==
    /\ IsTable(log2) /\ Len(log2) <= Len(log)
    /\ \A i \in DOMAIN log2 : \E j \in DOMAIN log : log2[i].seq = log[j].seq
    /\ told => \E k \in DOMAIN log2 : ~Linked(log2, k)
Forged(r) == [r EXCEPT !.content = {"forged"}]
Rehashed(r) == [Forged(r) EXCEPT !.hash = ComputeHash(Forged(r))]

\* A row that says something else has another hash.
LEMMA ForgedRow ==
    ASSUME NEW r, IsRow(r), Forged(r) # r
    PROVE  /\ IsRow(Forged(r)) /\ Forged(r).seq = r.seq /\ Forged(r).prev = r.prev
           /\ Forged(r).hash = r.hash /\ ComputeHash(Forged(r)) # ComputeHash(r)
           /\ IsRow(Rehashed(r)) /\ Rehashed(r).seq = r.seq /\ Rehashed(r).hash = ComputeHash(Forged(r))
<1> DEFINE new == {"forged"}
<1>1. r = [seq |-> r.seq, prev |-> r.prev, content |-> r.content, hash |-> r.hash] /\ r.seq \in Nat
    BY DEF IsRow
<1>2. Forged(r) = [r EXCEPT !.content = new]
    BY DEF Forged
<1> HIDE DEF new
<1>3. Forged(r) = [seq |-> r.seq, prev |-> r.prev, content |-> new, hash |-> r.hash]
    BY <1>1, <1>2
<1>4. new # r.content
    BY <1>1, <1>3
<1> DEFINE h == ComputeHash(Forged(r))
<1>5. h # ComputeHash(r)
    BY <1>3, <1>4 DEF ComputeHash
<1> HIDE DEF h
<1>6. Rehashed(r) = [Forged(r) EXCEPT !.hash = h]
    BY DEF Rehashed, h
<1>7. Rehashed(r) = [seq |-> r.seq, prev |-> r.prev, content |-> new, hash |-> h]
    BY <1>3, <1>6
<1>8. /\ IsRow(Forged(r)) /\ Forged(r).seq = r.seq /\ Forged(r).prev = r.prev /\ Forged(r).hash = r.hash
    BY <1>1, <1>3 DEF IsRow
<1>9. IsRow(Rehashed(r)) /\ Rehashed(r).seq = r.seq /\ Rehashed(r).hash = h
    BY <1>1, <1>7 DEF IsRow
<1> QED BY <1>5, <1>8, <1>9 DEF h

\* What the table says of its rows, without the domain.
LEMMA WholeFacts ==
    ASSUME NEW log, IsWhole(log)
    PROVE  /\ IsTable(log) /\ Len(log) \in Nat /\ DOMAIN log = 1..Len(log)
           /\ \A i \in 1..Len(log) : IsRow(log[i]) /\ log[i].seq = i /\ Linked(log, i)
<1>1. IsTable(log) /\ log \in Seq(Range(log))
    BY DEF IsWhole, IsTable
<1>2. Len(log) \in Nat /\ DOMAIN log = 1..Len(log)
    BY <1>1, TableFacts
<1> QED BY <1>1, <1>2 DEF IsWhole, IsTable

\* An edited row does not have its own hash any more.
LEMMA EditingShows ==
    ASSUME NEW log, IsWhole(log), NEW k \in 1..Len(log), Forged(log[k]) # log[k],
           NEW log2, log2 = [log EXCEPT ![k] = Forged(log[k])]
    PROVE  Damaged(log, log2, TRUE)
<1> DEFINE r == Forged(log[k])
<1>1. /\ IsTable(log) /\ Len(log) \in Nat /\ DOMAIN log = 1..Len(log)
      /\ \A i \in 1..Len(log) : IsRow(log[i]) /\ log[i].seq = i /\ Linked(log, i)
    BY WholeFacts
<1>2. IsRow(r) /\ r.seq = log[k].seq /\ r.hash = log[k].hash /\ ComputeHash(r) # ComputeHash(log[k])
    BY <1>1, ForgedRow
<1>3. log2 = [log EXCEPT ![k] = r]
    OBVIOUS
<1> HIDE DEF r
<1>4. /\ IsTable(log2) /\ Len(log2) = Len(log)
      /\ \A i \in 1..Len(log) : log2[i] = IF i = k THEN r ELSE log[i]
  <2>1. FitsAt(log, k, r)
      BY <1>1, <1>2 DEF FitsAt
  <2>2. Rewritten(log, k, r, [log EXCEPT ![k] = r])
      BY <2>1, TableRewritten
  <2> QED BY <2>2, <1>3 DEF Rewritten
<1>5. DOMAIN log2 = 1..Len(log)
    BY <1>4, TableFacts DEF IsTable
<1>6. \A i \in 1..Len(log) : log2[i].seq = log[i].seq
    BY <1>2, <1>4
<1>8. \A i \in DOMAIN log2 : \E j \in DOMAIN log : log2[i].seq = log[j].seq
    BY <1>1, <1>5, <1>6
<1>7. ~Linked(log2, k)
    BY <1>1, <1>2, <1>4 DEF Linked
<1>9. IsTable(log2) /\ Len(log2) <= Len(log)
    BY <1>1, <1>4
<1>10. \E i \in DOMAIN log2 : ~Linked(log2, i)
    BY <1>1, <1>5, <1>7
<1> QED BY <1>8, <1>9, <1>10 DEF Damaged

\* A row with a hash of its own is not the one the next row points to.
LEMMA RehashingShows ==
    ASSUME NEW log, IsWhole(log), NEW k \in 1..Len(log), Forged(log[k]) # log[k],
           NEW log2, log2 = [log EXCEPT ![k] = Rehashed(log[k])]
    PROVE  Damaged(log, log2, k < Len(log))
<1> DEFINE r == Rehashed(log[k])
<1>1. /\ IsTable(log) /\ Len(log) \in Nat /\ DOMAIN log = 1..Len(log)
      /\ \A i \in 1..Len(log) : IsRow(log[i]) /\ log[i].seq = i /\ Linked(log, i)
    BY WholeFacts
<1>2. IsRow(r) /\ r.seq = log[k].seq /\ r.hash # ComputeHash(log[k])
    BY <1>1, ForgedRow
<1>3. log2 = [log EXCEPT ![k] = r]
    OBVIOUS
<1> HIDE DEF r
<1>4. /\ IsTable(log2) /\ Len(log2) = Len(log)
      /\ \A i \in 1..Len(log) : log2[i] = IF i = k THEN r ELSE log[i]
  <2>1. FitsAt(log, k, r)
      BY <1>1, <1>2 DEF FitsAt
  <2>2. Rewritten(log, k, r, [log EXCEPT ![k] = r])
      BY <2>1, TableRewritten
  <2> QED BY <2>2, <1>3 DEF Rewritten
<1>5. DOMAIN log2 = 1..Len(log)
    BY <1>4, TableFacts DEF IsTable
<1>6. \A i \in 1..Len(log) : log2[i].seq = log[i].seq
    BY <1>2, <1>4
<1>8. \A i \in DOMAIN log2 : \E j \in DOMAIN log : log2[i].seq = log[j].seq
    BY <1>1, <1>5, <1>6
<1>7. ASSUME k < Len(log) PROVE k + 1 \in 1..Len(log) /\ ~Linked(log2, k + 1)
  <2>1. k + 1 \in 1..Len(log) /\ k + 1 # 1 /\ k + 1 - 1 = k /\ k + 1 # k
      BY <1>1, <1>7
  <2>2. log2[k + 1] = log[k + 1] /\ log2[k] = r
      BY <2>1, <1>4
  <2>3. log[k + 1].prev = log[k].hash /\ log[k].hash = ComputeHash(log[k])
      BY <2>1, <1>1 DEF Linked, HashBefore
  <2>4. log2[k + 1].prev # log2[k].hash
      BY <2>2, <2>3, <1>2
  <2> QED BY <2>1, <2>4 DEF Linked, HashBefore
<1>9. IsTable(log2) /\ Len(log2) <= Len(log)
    BY <1>1, <1>4
<1>10. k < Len(log) => \E i \in DOMAIN log2 : ~Linked(log2, i)
    BY <1>1, <1>5, <1>7
<1> QED BY <1>8, <1>9, <1>10 DEF Damaged

\* The row after one that was taken out points to a hash that is nowhere before it.
LEMMA DeletingShows ==
    ASSUME NEW log, IsWhole(log), NEW k \in 1..Len(log), NEW log2, log2 = RemoveAt(log, k)
    PROVE  Damaged(log, log2, k < Len(log))
<1>1. /\ IsTable(log) /\ Len(log) \in Nat /\ DOMAIN log = 1..Len(log)
      /\ \A i \in 1..Len(log) : IsRow(log[i]) /\ log[i].seq = i /\ Linked(log, i)
    BY WholeFacts
<1>4. /\ IsTable(log2) /\ Len(log2) = Len(log) - 1
      /\ \A i \in 1..(Len(log) - 1) : log2[i] = IF i < k THEN log[i] ELSE log[i + 1]
    BY <1>1, TableShrinks
<1>5. DOMAIN log2 = 1..(Len(log) - 1)
    BY <1>4, TableFacts DEF IsTable
<1>6. \A i \in DOMAIN log2 : \E j \in DOMAIN log : log2[i].seq = log[j].seq
  <2> TAKE i \in DOMAIN log2
  <2>1. i \in 1..Len(log) /\ i + 1 \in 1..Len(log)
      BY <1>1, <1>5
  <2>2. log2[i] = log[i] \/ log2[i] = log[i + 1]
      BY <1>4, <1>5
  <2> QED BY <2>1, <2>2, <1>1
<1>7. ASSUME k < Len(log) PROVE k \in 1..(Len(log) - 1) /\ ~Linked(log2, k)
  <2>1. k \in 1..(Len(log) - 1) /\ k + 1 \in 1..Len(log) /\ k + 1 # 1 /\ k + 1 - 1 = k
      BY <1>1, <1>7
  <2>2. log2[k] = log[k + 1]
      BY <2>1, <1>4
  <2>3. log[k + 1].prev = <<k, log[k].prev, log[k].content>>
      BY <2>1, <1>1 DEF Linked, HashBefore, ComputeHash
  <2>4. CASE k = 1
    <3>1. HashBefore(log2, k) = << >>
        BY <2>4 DEF HashBefore, GenesisHash
    <3> DEFINE a == log[k].prev  b == log[k].content
    <3>2. log[k + 1].prev = <<k, a, b>>
        BY <2>3
    <3> HIDE DEF a, b
    <3>3. <<k, a, b>> # << >>
        OBVIOUS
    <3> QED BY <2>1, <2>2, <3>1, <3>2, <3>3 DEF Linked
  <2>5. CASE k # 1
    <3>1. k - 1 \in 1..(Len(log) - 1) /\ k - 1 \in 1..Len(log) /\ k - 1 < k
        BY <2>1, <2>5, <1>1
    <3>2. log2[k - 1] = log[k - 1]
        BY <3>1, <1>4
    <3>3. HashBefore(log2, k) = <<k - 1, log[k - 1].prev, log[k - 1].content>>
        BY <2>5, <3>1, <3>2, <1>1 DEF HashBefore, Linked, ComputeHash
    <3>4. HashBefore(log2, k) # log2[k].prev
      <4> DEFINE a == log[k].prev  b == log[k].content  c == log[k - 1].prev  d == log[k - 1].content
      <4>1. log2[k].prev = <<k, a, b>> /\ HashBefore(log2, k) = <<k - 1, c, d>>
          BY <2>2, <2>3, <3>3
      <4> HIDE DEF a, b, c, d
      <4>2. k # k - 1
          BY <3>1
      <4> QED BY <4>1, <4>2
    <3> QED BY <2>1, <3>4 DEF Linked
  <2> QED BY <2>1, <2>4, <2>5
<1> QED BY <1>1, <1>4, <1>5, <1>6, <1>7 DEF Damaged

\* Someone touches the table, once: the row being written still comes after the others.
LEMMA TamperKeeps ==
    ASSUME TrailInv, NEW k \in DOMAIN auditLog, NEW how \in {"edited", "rehashed", "deleted"},
           Tamper(k, how)
    PROVE  TrailInv'
<1>a. /\ IsTable(auditLog) /\ Len(auditLog) \in Nat /\ DOMAIN auditLog = 1..Len(auditLog)
    BY TrailFacts
<1>0. /\ damage = NoDamage /\ UNCHANGED <<scribe, verifier>>
      /\ damage' = [how |-> how, middle |-> k < Len(auditLog)]
    BY DEF Tamper
<1>1. IsWhole(auditLog)
    BY <1>a, <1>0 DEF IsWhole, TrailInv, WholeUntilTouched
<1> PICK log : log = auditLog
    OBVIOUS
<1> PICK log2 : log2 = auditLog'
    OBVIOUS
<1>2. /\ IsWhole(log) /\ k \in 1..Len(log) /\ (how # "deleted" => Forged(log[k]) # log[k])
      /\ log2 = CASE how = "edited"   -> [log EXCEPT ![k] = Forged(log[k])]
                  [] how = "rehashed" -> [log EXCEPT ![k] = Rehashed(log[k])]
                  [] how = "deleted"  -> RemoveAt(log, k)
    BY <1>1, <1>a DEF Tamper, Forged, Rehashed
<1>3. Damaged(log, log2, k < Len(log) \/ how = "edited")
  <2>1. CASE how = "edited"
    <3>1. log2 = [log EXCEPT ![k] = Forged(log[k])] /\ Forged(log[k]) # log[k]
        BY <1>2, <2>1
    <3>2. Damaged(log, log2, TRUE)
        BY <1>2, <3>1, EditingShows
    <3> QED BY <2>1, <3>2 DEF Damaged
  <2>2. CASE how = "rehashed"
    <3>1. log2 = [log EXCEPT ![k] = Rehashed(log[k])] /\ Forged(log[k]) # log[k]
        BY <1>2, <2>2
    <3>2. Damaged(log, log2, k < Len(log))
        BY <1>2, <3>1, RehashingShows
    <3> QED BY <2>2, <3>2 DEF Damaged
  <2>3. CASE how = "deleted"
    <3>1. log2 = RemoveAt(log, k)
        BY <1>2, <2>3
    <3>2. Damaged(log, log2, k < Len(log))
        BY <1>2, <3>1, DeletingShows
    <3> QED BY <2>3, <3>2 DEF Damaged
  <2> QED BY <2>1, <2>2, <2>3
<1>b. Len(log) \in Nat /\ Len(log2) \in Nat /\ DOMAIN log2 = 1..Len(log2) /\ DOMAIN log = 1..Len(log)
  <2>1. log2 \in Seq(Range(log2))
      BY <1>3 DEF Damaged, IsTable
  <2> QED BY <2>1, <1>a, TableFacts
<1>c. damage' # NoDamage /\ damage'.how = how /\ damage'.middle = (k < Len(log))
      /\ damage' \in [how : {"none", "edited", "rehashed", "deleted"}, middle : BOOLEAN]
    BY <1>0 DEF NoDamage
<1>d. \A s \in Scribes : scribe'[s] = scribe[s] /\ Recording' = Recording
    BY <1>0 DEF Recording
<1>4. TrailTypes'
  <2>1. Len(log2) <= MaxTrail
      BY <1>3, <1>b, AuditTrailAssumption DEF Damaged, TrailInv, TrailTypes
  <2> QED BY <1>0, <1>3, <1>c, <2>1 DEF TrailInv, TrailTypes, Damaged
<1>5. OneWriterAtATime'
  <2> SUFFICES ASSUME NEW s \in Recording
               PROVE  Len(log2) < MaxTrail /\ \A i \in DOMAIN log2 : log2[i].seq < scribe[s].row.seq
      BY <1>0 DEF OneWriterAtATime, TrailInv, Recording
  <2>1. Len(log) < MaxTrail /\ \A i \in DOMAIN log : log[i].seq < scribe[s].row.seq
      BY DEF TrailInv, OneWriterAtATime
  <2>2. Len(log2) < MaxTrail
      BY <2>1, <1>3, <1>b, AuditTrailAssumption DEF Damaged
  <2>3. \A i \in DOMAIN log2 : \E j \in DOMAIN log : log2[i].seq = log[j].seq
      BY <1>3 DEF Damaged
  <2> QED BY <2>1, <2>2, <2>3
<1>6. WholeUntilTouched'
    BY <1>c DEF WholeUntilTouched
<1>7. DamageLeavesAMark'
  <2>1. Telling(damage)' => k < Len(log) \/ how = "edited"
      BY <1>c DEF Telling
  <2> QED BY <2>1, <1>3 DEF DamageLeavesAMark, Damaged
<1>8. VerifierIsOnItsWay'
  <2>1. verifier.step = "reading" => verifier.met = NoDamage
      BY <1>0 DEF TrailInv, VerifierIsOnItsWay
  <2> QED BY <1>0, <1>c, <2>1 DEF TrailInv, VerifierIsOnItsWay
<1>9. AVerificationTells'
    BY <1>0, <1>c DEF TrailInv, AVerificationTells
<1> QED BY <1>4, <1>5, <1>6, <1>7, <1>8, <1>9 DEF TrailInv

\* A verification begins before the first row.
LEMMA StartingKeeps ==
    ASSUME TrailInv, StartVerify
    PROVE  TrailInv'
<1>a. Len(auditLog) \in Nat /\ DOMAIN auditLog = 1..Len(auditLog)
    BY TrailFacts
<1>0. UNCHANGED <<auditLog, scribe, damage>>
    BY DEF StartVerify
<1> DEFINE reading == "reading"
<1> HIDE DEF reading
<1>1. verifier' = [step |-> reading, from |-> 0, prev |-> GenesisHash, met |-> damage]
    BY DEF StartVerify, reading
<1>2. /\ verifier'.step = reading /\ verifier'.from = 0 /\ verifier'.prev = GenesisHash
      /\ verifier'.met = damage
    BY <1>1
<1>3. verifier' = [step |-> verifier'.step, from |-> verifier'.from,
                   prev |-> verifier'.prev, met |-> verifier'.met]
    BY <1>1, <1>2
<1>4. 0 \in 0..Len(auditLog) /\ ReadTo(auditLog, 0, verifier'.from, verifier'.prev)
    BY <1>a, <1>2 DEF ReadTo, HashBefore
<1>5. Telling(damage) => \E i \in (0 + 1)..Len(auditLog) : ~Linked(auditLog, i)
    BY <1>a DEF TrailInv, DamageLeavesAMark
<1>6. VerifierIsOnItsWay'
    BY <1>0, <1>2, <1>3, <1>4, <1>5 DEF VerifierIsOnItsWay
<1>7. AVerificationTells'
    BY <1>2 DEF AVerificationTells, reading
<1>8. TrailTypes'
    BY <1>0, <1>2 DEF TrailInv, TrailTypes, reading
<1>9. (OneWriterAtATime /\ WholeUntilTouched /\ DamageLeavesAMark)'
    BY <1>0 DEF TrailInv, OneWriterAtATime, WholeUntilTouched, DamageLeavesAMark, Recording
<1> QED BY <1>6, <1>7, <1>8, <1>9 DEF TrailInv

\* Where the next page begins: after the rows read so far.
LEMMA PageBegins ==
    ASSUME TrailInv, NEW k \in 0..Len(auditLog), NEW from, NEW hash, ReadTo(auditLog, k, from, hash)
    PROVE  RowsBefore(from) = k
<1>a. /\ Len(auditLog) \in Nat /\ DOMAIN auditLog = 1..Len(auditLog)
      /\ \A i, j \in 1..Len(auditLog) : i < j => auditLog[i].seq < auditLog[j].seq
    BY TrailFacts
<1>b. \A i \in 1..Len(auditLog) : auditLog[i].seq \in Nat
    BY TrailFacts DEF IsRow
<1> DEFINE Fits(n) == \A i \in DOMAIN auditLog : i <= n <=> auditLog[i].seq < from
<1>1. Fits(k)
  <2> TAKE i \in DOMAIN auditLog
  <2>1. CASE k = 0
      BY <2>1, <1>a, <1>b DEF ReadTo
  <2>2. CASE k # 0
    <3>1. k \in 1..Len(auditLog) /\ from = auditLog[k].seq + 1
        BY <2>2, <1>a DEF ReadTo
    <3>2. i < k \/ i = k \/ k < i
        BY <1>a, <3>1
    <3>3. CASE i < k
        BY <3>1, <3>3, <1>a, <1>b
    <3>4. CASE i = k
        BY <3>1, <3>4, <1>a, <1>b
    <3>5. CASE k < i
        BY <3>1, <3>5, <1>a, <1>b
    <3> QED BY <3>2, <3>3, <3>4, <3>5
  <2> QED BY <2>1, <2>2
<1>2. \A n \in 0..Len(auditLog) : Fits(n) => n = k
  <2> SUFFICES ASSUME NEW n \in 0..Len(auditLog), Fits(n), n # k PROVE FALSE
      OBVIOUS
  <2>1. CASE n < k
    <3>1. k \in DOMAIN auditLog
        BY <2>1, <1>a
    <3> QED BY <2>1, <3>1, <1>1, <1>a
  <2>2. CASE k < n
    <3>1. n \in DOMAIN auditLog
        BY <2>2, <1>a
    <3> QED BY <2>2, <3>1, <1>1, <1>a
  <2> QED BY <2>1, <2>2, <1>a
<1> QED BY <1>1, <1>2 DEF RowsBefore

\* The rows k + 1 .. m of a table.
Within(log, k, m) == IsTable(log) /\ k \in Nat /\ m \in Nat /\ k <= m /\ m <= Len(log)
PageOf(log, k, m, page) ==
    /\ Len(page) = m - k /\ DOMAIN page = 1..(m - k) /\ (page = << >> <=> m = k)
    /\ \A i \in 1..(m - k) : page[i] = log[k + i]
\* They are what is read by a reader that holds the hash of row k.
LEMMA PageRows ==
    ASSUME NEW log, NEW k, NEW m, Within(log, k, m)
    PROVE  PageOf(log, k, m, SubSeq(log, k + 1, m))
<1> DEFINE page == SubSeq(log, k + 1, m)
<1>0. IsTable(log) /\ k \in Nat /\ m \in Nat /\ k <= m /\ m <= Len(log)
    BY DEF Within
<1>1. log \in Seq(Range(log))
    BY <1>0 DEF IsTable
<1> DEFINE S == Range(log)
<1>2. Len(log) \in Nat /\ \A i \in 1..Len(log) : log[i] \in S
    BY <1>1, TableFacts
<1> HIDE DEF S
<1>3. k + 1 \in Int /\ m \in Int /\ \A i \in (k + 1)..m : log[i] \in S
    BY <1>0, <1>2
<1>4. /\ page \in Seq(S) /\ Len(page) = (IF k + 1 <= m THEN m - (k + 1) + 1 ELSE 0)
      /\ \A i \in 1..(m - (k + 1) + 1) : page[i] = log[(k + 1) + i - 1]
    BY <1>3, SubSeqProperties
<1> HIDE DEF page
<1>5. DOMAIN page = 1..Len(page) /\ Len(page) \in Nat /\ (page = << >> <=> Len(page) = 0)
    BY <1>4
<1>6. Len(page) = m - k
    BY <1>0, <1>4
<1>7. \A i \in 1..(m - k) : page[i] = log[k + i]
  <2> TAKE i \in 1..(m - k)
  <2>1. m - (k + 1) + 1 = m - k /\ (k + 1) + i - 1 = k + i
      BY <1>0
  <2> QED BY <1>4, <2>1
<1>8. PageOf(log, k, m, page)
  <2>1. Len(page) = m - k /\ DOMAIN page = 1..(m - k)
      BY <1>5, <1>6
  <2>2. page = << >> <=> m = k
      BY <1>0, <1>5, <1>6
  <2> QED BY <2>1, <2>2, <1>7 DEF PageOf
<1> QED BY <1>8 DEF page

\* A page is broken when one of its rows gives itself away; in a whole table none does.
LEMMA PageTells ==
    ASSUME NEW log, NEW k, NEW m, NEW page, Within(log, k, m), PageOf(log, k, m, page)
    PROVE  /\ ~Broken(page, HashBefore(log, k + 1)) => \A i \in (k + 1)..m : Linked(log, i)
           /\ (\A i \in 1..Len(log) : log[i].seq = i /\ Linked(log, i))
              => ~Broken(page, HashBefore(log, k + 1))
<1>1. /\ DOMAIN page = 1..(m - k)
      /\ \A i \in 1..(m - k) : page[i] = log[k + i]
    BY DEF PageOf
<1>a. k \in Nat /\ m \in Nat /\ k <= m /\ m <= Len(log) /\ log \in Seq(Range(log))
    BY DEF Within, IsTable
<1>0. Len(log) \in Nat
    BY <1>a, TableFacts
<1> DEFINE Before(i) == IF i = 1 THEN HashBefore(log, k + 1) ELSE page[i - 1].hash
<1>2. \A i \in 1..(m - k) : Before(i) = HashBefore(log, k + i)
  <2> TAKE i \in 1..(m - k)
  <2>1. CASE i = 1
      BY <2>1, <1>a
  <2>2. CASE i # 1
    <3>1. i - 1 \in 1..(m - k) /\ k + (i - 1) = k + i - 1 /\ k + i # 1
        BY <2>2, <1>a
    <3>2. page[i - 1] = log[k + (i - 1)]
        BY <3>1, <1>1
    <3>3. Before(i) = log[k + i - 1].hash
        BY <2>2, <3>1, <3>2
    <3>4. HashBefore(log, k + i) = log[k + i - 1].hash
        BY <2>2, <3>1, <1>a DEF HashBefore
    <3> QED BY <3>3, <3>4
  <2> QED BY <2>1, <2>2
<1>3. ASSUME ~Broken(page, HashBefore(log, k + 1)), NEW i \in (k + 1)..m
      PROVE  Linked(log, i)
  <2>1. i - k \in 1..(m - k) /\ k + (i - k) = i
      BY <1>a
  <2>2. page[i - k].prev = Before(i - k) /\ page[i - k].hash = ComputeHash(page[i - k])
      BY <1>1, <1>3, <2>1 DEF Broken
  <2>3. page[i - k] = log[i] /\ Before(i - k) = HashBefore(log, i)
      BY <1>1, <1>2, <2>1
  <2> QED BY <2>2, <2>3 DEF Linked
<1>4. ASSUME \A i \in 1..Len(log) : log[i].seq = i /\ Linked(log, i)
      PROVE  ~Broken(page, HashBefore(log, k + 1))
  <2>1. \A i \in 1..(m - k) : k + i \in 1..Len(log)
      BY <1>0, <1>a
  <2>2. \A i \in 1..(m - k) : page[i].prev = Before(i) /\ page[i].hash = ComputeHash(page[i])
      BY <2>1, <1>1, <1>2, <1>4 DEF Linked
  <2>3. \A i \in 1..(m - k) : i > 1 => page[i].seq = page[i - 1].seq + 1
    <3> TAKE i \in 1..(m - k)
    <3> HAVE i > 1
    <3>1. i - 1 \in 1..(m - k) /\ k + (i - 1) = k + i - 1 /\ k + i = (k + (i - 1)) + 1
        BY <1>a
    <3>2. page[i].seq = k + i /\ page[i - 1].seq = k + (i - 1)
        BY <3>1, <2>1, <1>1, <1>4
    <3> QED BY <3>1, <3>2
  <2> QED BY <1>1, <2>2, <2>3 DEF Broken
<1> QED BY <1>3, <1>4

\* The next page: where it ends, and what the verifier makes of it.
LEMMA NextPage ==
    ASSUME TrailInv, verifier.step = "reading", NEW k \in 0..Len(auditLog),
           ReadTo(auditLog, k, verifier.from, verifier.prev)
    PROVE  \E m \in k..Len(auditLog) :
              /\ List(verifier.from) = SubSeq(auditLog, k + 1, m)
              /\ k < Len(auditLog) => k < m
              /\ k < m => /\ Last(List(verifier.from)) = auditLog[m]
                          /\ ReadTo(auditLog, m, auditLog[m].seq + 1, auditLog[m].hash)
              /\ List(verifier.from) = << >> <=> k = m
<1>a. IsTable(auditLog) /\ Len(auditLog) \in Nat
    BY TrailFacts
<1>1. RowsBefore(verifier.from) = k
    BY PageBegins
<1> DEFINE last == k + 1 + VerifyPage - 1
           m == IF last < Len(auditLog) THEN last ELSE Len(auditLog)
<1>2. m \in k..Len(auditLog) /\ m \in Nat /\ k \in Nat /\ (k < Len(auditLog) => k < m)
    BY <1>a, AuditTrailAssumption
<1>3. List(verifier.from) = SubSeq(auditLog, k + 1, m)
    BY <1>1 DEF List
<1> HIDE DEF m
<1>4. /\ Len(List(verifier.from)) = m - k /\ (List(verifier.from) = << >> <=> m = k)
      /\ \A i \in 1..(m - k) : List(verifier.from)[i] = auditLog[k + i]
  <2>1. k <= m /\ m <= Len(auditLog)
      BY <1>2, <1>a
  <2>2. Within(auditLog, k, m)
      BY <1>a, <1>2, <2>1 DEF Within
  <2>3. PageOf(auditLog, k, m, List(verifier.from))
      BY <2>2, <1>3, PageRows
  <2> QED BY <2>3 DEF PageOf
<1>5. ASSUME k < m
      PROVE  /\ Last(List(verifier.from)) = auditLog[m]
             /\ ReadTo(auditLog, m, auditLog[m].seq + 1, auditLog[m].hash)
  <2>1. m - k \in 1..(m - k) /\ k + (m - k) = m /\ m \in 1..Len(auditLog) /\ m # 0 /\ m + 1 # 1
        /\ m + 1 - 1 = m
      BY <1>5, <1>2, <1>a
  <2>2. Last(List(verifier.from)) = auditLog[m]
      BY <2>1, <1>4 DEF Last
  <2>3. ReadTo(auditLog, m, auditLog[m].seq + 1, auditLog[m].hash)
      BY <2>1, <1>2, <1>a DEF ReadTo, HashBefore
  <2> QED BY <2>2, <2>3
<1> QED BY <1>2, <1>3, <1>4, <1>5

\* Reading on: a row that gives the damage away is met before the end.
LEMMA VerifyingKeeps ==
    ASSUME TrailInv, VerifyNext
    PROVE  TrailInv'
<1>a. IsTable(auditLog) /\ Len(auditLog) \in Nat /\ DOMAIN auditLog = 1..Len(auditLog)
    BY TrailFacts
<1>0. UNCHANGED <<auditLog, scribe, damage>> /\ verifier.step = "reading"
    BY DEF VerifyNext
<1> DEFINE page == List(verifier.from)
           valid == "valid"  broken == "broken"  reading == "reading"
<1> HIDE DEF valid, broken, reading
<1>1. verifier = [step |-> verifier.step, from |-> verifier.from, prev |-> verifier.prev,
                  met |-> verifier.met]
    BY <1>0 DEF TrailInv, VerifierIsOnItsWay
<1>2. verifier' = IF page = << >> THEN [verifier EXCEPT !.step = valid]
                  ELSE IF Broken(page, verifier.prev) THEN [verifier EXCEPT !.step = broken]
                  ELSE [verifier EXCEPT !.from = Last(page).seq + 1, !.prev = Last(page).hash]
    BY DEF VerifyNext, valid, broken
<1> HIDE DEF page
<1>3. /\ verifier' = [step |-> verifier'.step, from |-> verifier'.from, prev |-> verifier'.prev,
                      met |-> verifier'.met]
      /\ verifier'.met = verifier.met
  <2>1. CASE page = << >>
      BY <2>1, <1>1, <1>2
  <2>2. CASE page # << >> /\ Broken(page, verifier.prev)
      BY <2>2, <1>1, <1>2
  <2>3. CASE page # << >> /\ ~Broken(page, verifier.prev)
    <3> DEFINE f == Last(page).seq + 1  h == Last(page).hash  v == [verifier EXCEPT !.from = f]
    <3> HIDE DEF f, h
    <3>1. verifier' = [v EXCEPT !.prev = h]
        BY <2>3, <1>2 DEF f, h
    <3>2. v = [step |-> verifier.step, from |-> f, prev |-> verifier.prev, met |-> verifier.met]
        BY <1>1
    <3> HIDE DEF v
    <3>3. verifier' = [step |-> verifier.step, from |-> f, prev |-> h, met |-> verifier.met]
        BY <3>1, <3>2
    <3> QED BY <3>3
  <2> QED BY <2>1, <2>2, <2>3
<1>4. /\ verifier'.step = IF page = << >> THEN valid ELSE IF Broken(page, verifier.prev) THEN broken
                          ELSE verifier.step
      /\ page # << >> /\ ~Broken(page, verifier.prev)
         => verifier'.from = Last(page).seq + 1 /\ verifier'.prev = Last(page).hash
  <2>1. CASE page = << >>
      BY <2>1, <1>1, <1>2
  <2>2. CASE page # << >> /\ Broken(page, verifier.prev)
      BY <2>2, <1>1, <1>2
  <2>3. CASE page # << >> /\ ~Broken(page, verifier.prev)
    <3> DEFINE f == Last(page).seq + 1  h == Last(page).hash  v == [verifier EXCEPT !.from = f]
    <3> HIDE DEF f, h
    <3>1. verifier' = [v EXCEPT !.prev = h]
        BY <2>3, <1>2 DEF f, h
    <3>2. v = [step |-> verifier.step, from |-> f, prev |-> verifier.prev, met |-> verifier.met]
        BY <1>1
    <3> HIDE DEF v
    <3>3. verifier' = [step |-> verifier.step, from |-> f, prev |-> h, met |-> verifier.met]
        BY <3>1, <3>2
    <3> QED BY <2>3, <3>3 DEF f, h
  <2> QED BY <2>1, <2>2, <2>3
<1>5. ASSUME NEW k \in 0..Len(auditLog), ReadTo(auditLog, k, verifier.from, verifier.prev)
      PROVE  \E m \in k..Len(auditLog) :
                /\ page = << >> <=> k = m
                /\ k < Len(auditLog) => k < m
                /\ k < m => Last(page) = auditLog[m]
                            /\ ReadTo(auditLog, m, auditLog[m].seq + 1, auditLog[m].hash)
                /\ ~Broken(page, verifier.prev) => \A i \in (k + 1)..m : Linked(auditLog, i)
                /\ damage = NoDamage => ~Broken(page, verifier.prev)
  <2>1. PICK m \in k..Len(auditLog) :
              /\ page = SubSeq(auditLog, k + 1, m)
              /\ k < Len(auditLog) => k < m
              /\ k < m => /\ Last(page) = auditLog[m]
                          /\ ReadTo(auditLog, m, auditLog[m].seq + 1, auditLog[m].hash)
              /\ page = << >> <=> k = m
    <3>1. \E m \in k..Len(auditLog) :
              /\ List(verifier.from) = SubSeq(auditLog, k + 1, m)
              /\ k < Len(auditLog) => k < m
              /\ k < m => /\ Last(List(verifier.from)) = auditLog[m]
                          /\ ReadTo(auditLog, m, auditLog[m].seq + 1, auditLog[m].hash)
              /\ List(verifier.from) = << >> <=> k = m
        BY <1>0, <1>5, NextPage
    <3> QED BY <3>1 DEF page
  <2>2. k \in Nat /\ m \in Nat /\ k <= m /\ m <= Len(auditLog)
      BY <1>a
  <2>3. verifier.prev = HashBefore(auditLog, k + 1)
      BY <1>5 DEF ReadTo
  <2>4. /\ ~Broken(page, verifier.prev) => \A i \in (k + 1)..m : Linked(auditLog, i)
        /\ (\A i \in 1..Len(auditLog) : auditLog[i].seq = i /\ Linked(auditLog, i))
           => ~Broken(page, verifier.prev)
    <3>1. Within(auditLog, k, m)
        BY <1>a, <2>2 DEF Within
    <3>2. PageOf(auditLog, k, m, page)
        BY <2>1, <3>1, PageRows
    <3> QED BY <2>3, <3>1, <3>2, PageTells
  <2>5. damage = NoDamage => \A i \in 1..Len(auditLog) : auditLog[i].seq = i /\ Linked(auditLog, i)
      BY <1>a DEF TrailInv, WholeUntilTouched
  <2> QED BY <2>1, <2>4, <2>5
<1>6. TrailTypes' /\ (OneWriterAtATime /\ WholeUntilTouched /\ DamageLeavesAMark)'
  <2>1. verifier'.step \in {"idle", "reading", "valid", "broken"}
      BY <1>0, <1>4 DEF valid, broken
  <2> QED BY <1>0, <2>1 DEF TrailInv, TrailTypes, OneWriterAtATime, WholeUntilTouched,
                            DamageLeavesAMark, Recording
<1>7. ASSUME verifier'.step = "reading"
      PROVE  /\ page # << >> /\ ~Broken(page, verifier.prev)
             /\ verifier'.from = Last(page).seq + 1 /\ verifier'.prev = Last(page).hash
    BY <1>4, <1>7 DEF valid, broken
<1>8. VerifierIsOnItsWay'
  <2>1. ASSUME verifier'.step = "reading", damage = NoDamage
        PROVE  \E m \in 0..Len(auditLog) : ReadTo(auditLog, m, verifier'.from, verifier'.prev)
    <3>1. PICK k \in 0..Len(auditLog) : ReadTo(auditLog, k, verifier.from, verifier.prev)
        BY <1>0, <2>1 DEF TrailInv, VerifierIsOnItsWay
    <3>2. PICK m \in k..Len(auditLog) :
                /\ page = << >> <=> k = m
                /\ k < m => Last(page) = auditLog[m]
                            /\ ReadTo(auditLog, m, auditLog[m].seq + 1, auditLog[m].hash)
        BY <3>1, <1>5
    <3>3. k < m /\ m \in 0..Len(auditLog)
        BY <1>a, <1>7, <2>1, <3>2
    <3> QED BY <1>7, <2>1, <3>2, <3>3
  <2>2. ASSUME verifier'.step = "reading", verifier.met # NoDamage, Telling(verifier.met)
        PROVE  \E m \in 0..Len(auditLog) : /\ ReadTo(auditLog, m, verifier'.from, verifier'.prev)
                                           /\ \E i \in (m + 1)..Len(auditLog) : ~Linked(auditLog, i)
    <3>1. PICK k \in 0..Len(auditLog) :
                /\ ReadTo(auditLog, k, verifier.from, verifier.prev)
                /\ \E i \in (k + 1)..Len(auditLog) : ~Linked(auditLog, i)
        BY <1>0, <2>2 DEF TrailInv, VerifierIsOnItsWay
    <3>2. PICK m \in k..Len(auditLog) :
                /\ page = << >> <=> k = m
                /\ k < m => Last(page) = auditLog[m]
                            /\ ReadTo(auditLog, m, auditLog[m].seq + 1, auditLog[m].hash)
                /\ ~Broken(page, verifier.prev) => \A i \in (k + 1)..m : Linked(auditLog, i)
        BY <3>1, <1>5
    <3>3. k < m /\ m \in 0..Len(auditLog)
        BY <1>a, <1>7, <2>2, <3>2
    <3>4. PICK i \in (k + 1)..Len(auditLog) : ~Linked(auditLog, i)
        BY <3>1
    <3>5. i \in (m + 1)..Len(auditLog)
        BY <1>a, <1>7, <2>2, <3>2, <3>3, <3>4
    <3> QED BY <1>7, <2>2, <3>2, <3>3, <3>4, <3>5
  <2>3. verifier.met # NoDamage => verifier.met = damage
      BY <1>0 DEF TrailInv, VerifierIsOnItsWay
  <2> QED BY <1>0, <1>3, <2>1, <2>2, <2>3 DEF VerifierIsOnItsWay
<1>9. AVerificationTells'
  <2>1. ASSUME verifier'.step = "broken" PROVE damage # NoDamage
    <3>1. page # << >> /\ Broken(page, verifier.prev)
        BY <1>0, <1>4, <2>1 DEF valid
    <3> SUFFICES ASSUME damage = NoDamage PROVE FALSE
        OBVIOUS
    <3>2. PICK k \in 0..Len(auditLog) : ReadTo(auditLog, k, verifier.from, verifier.prev)
        BY <1>0 DEF TrailInv, VerifierIsOnItsWay
    <3> QED BY <1>5, <3>1, <3>2
  <2>2. ASSUME verifier'.step = "valid", verifier.met # NoDamage, Telling(verifier.met) PROVE FALSE
    <3>1. page = << >>
        BY <1>0, <1>4, <2>2 DEF broken
    <3>2. PICK k \in 0..Len(auditLog) :
                /\ ReadTo(auditLog, k, verifier.from, verifier.prev)
                /\ \E i \in (k + 1)..Len(auditLog) : ~Linked(auditLog, i)
        BY <1>0, <2>2 DEF TrailInv, VerifierIsOnItsWay
    <3>3. k < Len(auditLog)
        BY <1>a, <3>2
    <3> QED BY <1>5, <1>a, <3>1, <3>2, <3>3
  <2> QED BY <1>0, <1>3, <2>1, <2>2 DEF AVerificationTells, Telling
<1> QED BY <1>6, <1>8, <1>9 DEF TrailInv

\* Every step keeps the invariant.
LEMMA TrailStep == TrailInv /\ [TrailNext]_trailVars => TrailInv'
<1> SUFFICES ASSUME TrailInv, [TrailNext]_trailVars PROVE TrailInv'
    OBVIOUS
<1>1. ASSUME NEW s \in Scribes, NEW p \in Payloads, RecordTx(s, p) PROVE TrailInv'
    BY <1>1, RecordingKeeps
<1>2. ASSUME NEW s \in Scribes, CommitRecord(s) PROVE TrailInv'
    BY <1>2, CommitKeeps
<1>3. ASSUME NEW s \in Scribes, RollBackEntry(s) PROVE TrailInv'
    BY <1>3, RollBackKeeps
<1>4. ASSUME NEW i \in DOMAIN auditLog, NEW how \in {"edited", "rehashed", "deleted"}, Tamper(i, how)
      PROVE  TrailInv'
    BY <1>4, TamperKeeps
<1>5. CASE StartVerify
    BY <1>5, StartingKeeps
<1>6. CASE VerifyNext
    BY <1>6, VerifyingKeeps
<1>7. CASE UNCHANGED trailVars
    BY <1>7 DEF trailVars, TrailInv, TrailTypes, OneWriterAtATime, WholeUntilTouched, DamageLeavesAMark,
                VerifierIsOnItsWay, AVerificationTells, Recording
<1> QED BY <1>1, <1>2, <1>3, <1>4, <1>5, <1>6, <1>7 DEF TrailNext

\* AVerificationTells.
THEOREM VerificationsTell == TrailSpec => []AVerificationTells
<1>1. TrailInit => TrailInv
    BY TrailStart
<1>2. TrailInv => AVerificationTells
    BY DEF TrailInv
<1> QED BY <1>1, <1>2, TrailStep, PTL DEF TrailSpec
-----------------------------------------------------------------------------
(* The types: what a variable holds, the bounds of the counters included.      *)

\* The circuit breaker: within its thresholds, and no call past its last attempt.
LEMMA ResilienceTypesAlways == ResilienceSpec => []ResilienceTypeOK
<1>1. ResilienceInv /\ [ResilienceNext]_resilienceVars => ResilienceInv'
    BY AllowKeeps, EndCallKeeps, RefuseKeeps, OtherStepsKeep DEF ResilienceNext
<1>2. ResilienceInv => ResilienceTypeOK
    BY DEF ResilienceInv, ResilienceTypes, CircuitState, ResilienceTypeOK
<1> QED
    BY InitResilience, <1>1, <1>2, PTL DEF ResilienceSpec

\* The idempotency store and the limiter.
LEMMA GuardTypesAlways == GuardSpec => []GuardTypeOK
<1>1. IdemInv /\ LimitInv => GuardTypeOK
    BY DEF IdemInv, IdemTypes, LimitInv, LimitTypes, GuardTypeOK, RetryState, NotSent
<1> QED
    BY InitIdem, IdemStep, InitLimit, LimitStep, <1>1, PTL DEF GuardSpec

\* The trail never grows past its bound.
LEMMA TrailTypesAlways == TrailSpec => []TrailTypeOK
<1>1. TrailInit => TrailInv
    BY TrailStart
<1>2. TrailInv => TrailTypeOK
    BY DEF TrailInv, TrailTypes, TrailTypeOK
<1> QED BY <1>1, <1>2, TrailStep, PTL DEF TrailSpec

\* The keys of every process are among those there are.
LEMMA IdentityTypesAlways == IdentitySpec => []IdentityTypeOK
<1>1. IdentityInv => IdentityTypeOK
    BY DEF IdentityInv
<1> QED
    BY InitIdentity, IdentityStep, <1>1, PTL DEF IdentitySpec

\* The lockout: no more guesses since the reset than in all.
LEMMA LockoutTypesAlways == LockoutSpec => []LockoutTypeOK
<1> DEFINE Bounds == guesses <= tried /\ tried <= MaxGuesses /\ mishaps <= MaxMishaps
<1>1. LockoutInit => Bounds
    BY LockoutNumbers DEF LockoutInit
<1>2. ASSUME LockoutInv, Bounds, [LockoutNext]_lockoutVars PROVE Bounds'
  <2>1. guesses \in Nat /\ tried \in Nat /\ mishaps \in Nat
    BY <1>2 DEF LockoutInv, LockoutTypes
  <2>2. ASSUME NEW r \in Logins, RegisterFailedLogin(r) PROVE Bounds'
    BY <1>2, <2>1, <2>2, LockoutNumbers DEF RegisterFailedLogin, Tries, CountFailure, Mishap
  <2>3. ASSUME NEW r \in Logins, ClearExpiredLock(r) PROVE Bounds'
    BY <1>2, <2>1, <2>3, LockoutNumbers DEF ClearExpiredLock, ResetCounter, Mishap
  <2>4. ASSUME NEW r \in Logins, PasswordIsRight(r) PROVE Bounds'
    BY <1>2, <2>1, <2>4, LockoutNumbers DEF PasswordIsRight, ResetCounter, Mishap
  <2>5. ASSUME NEW r \in Logins, LockAccount(r) \/ LoginDies(r) \/ \E right \in BOOLEAN : BeginLogin(r, right)
        PROVE  Bounds'
    BY <1>2, <2>1, <2>5, LockoutNumbers DEF LockAccount, LoginDies, BeginLogin, Mishap
  <2>6. CASE LockExpires \/ UNCHANGED lockoutVars
    BY <1>2, <2>6 DEF LockExpires, lockoutVars
  <2> QED BY <1>2, <2>2, <2>3, <2>4, <2>5, <2>6 DEF LockoutNext
<1>3. LockoutInv /\ Bounds => LockoutTypeOK
    BY LockoutNumbers DEF LockoutInv, LockoutTypes, LockoutTypeOK, LoginState, NotInside
<1> QED
    BY LockoutAlways, <1>1, <1>2, <1>3, PTL DEF LockoutSpec

\* Nobody holds a password that is still to come: not a session, nor a login under way.
PasswordsAreKnown ==
    /\ \A s \in DOMAIN sessions : sessions[s].pw <= account.pw
    /\ \A r \in Requests : serving[r].step \in {"enter", "challenge"} => serving[r].pw <= account.pw
\* The secrets handed out so far, and what a request is at.
SecretsAreBounded ==
    /\ authCrashes \in 0..MaxAuthCrashes
    /\ {account.secret, account.pending, account.issued} \subseteq 0..MaxSecrets
    /\ \A r \in Requests : serving[r].step \in {"none", "enter", "challenge", "rotate",
                                             "reset", "activate"}

\* A password is read, and given to a session, once it is there.
LEMMA PasswordsStep ==
    ASSUME SessionInv, SessionTypes', PasswordsAreKnown, [AuthNext]_authVars
    PROVE  PasswordsAreKnown'
<1> USE DEF SessionInv, SessionTypes, PasswordsAreKnown
<1>0. /\ DOMAIN serving = Requests /\ sessions \in Seq(Session) /\ account.pw \in Nat
      /\ sessions' \in Seq(Session) /\ account'.pw \in Nat
    BY DEF Account
<1>1. ASSUME NEW r \in Requests, Login(r) PROVE PasswordsAreKnown'
    BY <1>0, <1>1 DEF Login, Turn
<1>2. ASSUME NEW r \in Requests, IssueTokens(r) PROVE PasswordsAreKnown'
  <2>1. /\ serving[r].step = "enter" /\ sessions' = Append(sessions, NewSession(serving[r].pw, serving[r].pw # account.pw))
        /\ UNCHANGED account /\ serving' = [serving EXCEPT ![r] = NoWork]
    BY <1>2 DEF IssueTokens, Finish, Turn
  <2>2. ASSUME NEW s \in DOMAIN sessions' PROVE sessions'[s].pw <= account'.pw
    BY <1>0, <2>1, <2>2 DEF NewSession
  <2> QED BY <1>0, <2>1, <2>2 DEF NoWork
<1>3. ASSUME NEW r \in Requests, NEW code \in Secrets, VerifyTOTP(r, code) PROVE PasswordsAreKnown'
    BY <1>0, <1>3 DEF VerifyTOTP, Turn
<1>4. ASSUME NEW r \in Requests, Rotate(r) PROVE PasswordsAreKnown'
  <2>1. /\ serving[r].step = "rotate" /\ serving[r].session \in DOMAIN sessions
        /\ sessions' = Append([sessions EXCEPT ![serving[r].session].live = FALSE],
                     NewSession(sessions[serving[r].session].pw,
                        sessions[serving[r].session].late \/ serving[r].pw # account.pw))
        /\ UNCHANGED account /\ serving' = [serving EXCEPT ![r] = NoWork]
    BY <1>4 DEF Rotate, Finish, Turn, RotationsKnow
  <2> DEFINE revoked == [sessions EXCEPT ![serving[r].session].live = FALSE]
  <2>2. revoked \in Seq(Session) /\ Len(revoked) = Len(sessions)
        /\ \A s \in DOMAIN sessions : revoked[s].pw = sessions[s].pw
    BY <1>0, <2>1, OneDead DEF Session
  <2> HIDE DEF revoked
  <2>3. ASSUME NEW s \in DOMAIN sessions' PROVE sessions'[s].pw <= account'.pw
    BY <1>0, <2>1, <2>2, <2>3 DEF NewSession
  <2> QED BY <1>0, <2>1, <2>3 DEF NoWork
<1>5. ASSUME NEW r \in Requests, FinishReset(r) PROVE PasswordsAreKnown'
  <2>1. /\ account'.pw = account.pw + 1
        /\ sessions' = [s \in DOMAIN sessions |-> [sessions[s] EXCEPT !.live = FALSE]]
        /\ serving' = [serving EXCEPT ![r] = NoWork]
    BY <1>5 DEF FinishReset, Finish, Turn, Account
  <2>2. \A s \in DOMAIN sessions : sessions'[s].pw = sessions[s].pw /\ sessions[s].pw \in Nat
    <3>1. ASSUME NEW s \in DOMAIN sessions
          PROVE  sessions'[s].pw = sessions[s].pw /\ sessions[s].pw \in Nat
      <4>1. sessions[s] \in Session /\ sessions'[s] = [sessions[s] EXCEPT !.live = FALSE]
        BY <1>0, <2>1
      <4> QED BY <4>1, Dead DEF Session
    <3> QED BY <3>1
  <2>3. DOMAIN sessions' = DOMAIN sessions
    BY <2>1
  <2> HIDE DEF SessionInv, SessionTypes
  <2>4. ASSUME NEW s \in DOMAIN sessions' PROVE sessions'[s].pw <= account'.pw
    BY <1>0, <2>1, <2>2, <2>3, <2>4
  <2>5. ASSUME NEW q \in Requests, serving'[q].step \in {"enter", "challenge"}
        PROVE  serving'[q].pw <= account'.pw
    <3>1. serving'[q] = serving[q]
      BY <1>0, <2>1, <2>5 DEF NoWork
    <3>2. serving[q].pw \in Nat
      BY <2>5, <3>1 DEF SessionInv, SessionTypes
    <3> QED BY <1>0, <2>1, <2>5, <3>1, <3>2
  <2> QED BY <2>4, <2>5
<1>6. ASSUME UNCHANGED <<account, sessions>>,
             \A r \in Requests : serving'[r].step \in {"enter", "challenge"} => serving'[r] = serving[r]
      PROVE PasswordsAreKnown'
    BY <1>6
<1>7. ASSUME UNCHANGED serving, account'.pw = account.pw, DOMAIN sessions' = DOMAIN sessions,
             \A s \in DOMAIN sessions : sessions'[s].pw = sessions[s].pw
      PROVE PasswordsAreKnown'
    BY <1>7
<1>8. ASSUME NEW s \in DOMAIN sessions, Logout(s) \/ SessionExpires(s) PROVE PasswordsAreKnown'
  <2>1. sessions' = [sessions EXCEPT ![s].live = FALSE] /\ UNCHANGED <<account, serving>>
    BY <1>8 DEF Logout, SessionExpires
  <2>2. DOMAIN sessions' = DOMAIN sessions /\ \A k \in DOMAIN sessions : sessions'[k].pw = sessions[k].pw
    BY <1>0, <2>1, OneDead
  <2> QED BY <1>7, <2>1, <2>2
<1>9. CASE VerifyEmail \/ EnrollMFA \/ ForgotPassword \/ UNCHANGED authVars
    BY <1>7, <1>9 DEF VerifyEmail, EnrollMFA, ForgotPassword, authVars, Account
<1>10. ASSUME NEW r \in Requests, ActivateMFA(r) PROVE PasswordsAreKnown'
    BY <1>0, <1>10 DEF ActivateMFA, Finish, Turn, NoWork, Account
<1>11. ASSUME NEW r \in Requests,
              \/ RequestDies(r) \/ \E code \in Secrets : BeginConfirmMFA(r, code)
              \/ \E s \in DOMAIN sessions : BeginRefresh(r, s)
              \/ \E k \in DOMAIN resets : BeginReset(r, k)
       PROVE PasswordsAreKnown'
    BY <1>0, <1>6, <1>11 DEF RequestDies, BeginConfirmMFA, BeginRefresh, BeginReset, Finish, Turn,
                             NoWork
<1> QED
    BY <1>1, <1>2, <1>3, <1>4, <1>5, <1>8, <1>9, <1>10, <1>11 DEF AuthNext

\* The sessions.
LEMMA AuthTypesAlways == AuthSpec => []AuthTypeOK
<1>1. AuthInit => PasswordsAreKnown /\ SecretsAreBounded
    BY AuthAssumption DEF AuthInit, PasswordsAreKnown, SecretsAreBounded, NoWork
<1>2. SessionInv /\ SessionInv' /\ PasswordsAreKnown /\ [AuthNext]_authVars => PasswordsAreKnown'
    BY PasswordsStep DEF SessionInv
<1>3. SessionInv /\ SecretsAreBounded /\ [AuthNext]_authVars => SecretsAreBounded'
  <2> SUFFICES ASSUME SessionInv, SecretsAreBounded, [AuthNext]_authVars PROVE SecretsAreBounded'
    OBVIOUS
  <2>0. DOMAIN serving = Requests /\ account \in Account /\ MaxAuthCrashes \in Nat /\ MaxSecrets \in Nat
        /\ {account.secret, account.pending, account.issued} \subseteq 0..MaxSecrets
    BY AuthAssumption DEF SessionInv, SessionTypes, SecretsAreBounded
  <2>1. ASSUME NEW r \in Requests, NEW next, Turn(r, next), UNCHANGED <<account, authCrashes>>,
               next.step \in {"none", "enter", "challenge", "rotate", "reset", "activate"}
        PROVE  SecretsAreBounded'
    BY <2>0, <2>1 DEF Turn, SecretsAreBounded
  <2>2. ASSUME NEW r \in Requests, Login(r) PROVE SecretsAreBounded'
    <3> DEFINE next == [step |-> IF account.mfa THEN "challenge" ELSE "enter", pw |-> account.pw]
    <3>1. Turn(r, next) /\ UNCHANGED <<account, authCrashes>> /\ next.step \in {"challenge", "enter"}
      BY <2>2 DEF Login
    <3> QED BY <2>1, <3>1
  <2>3. ASSUME NEW r \in Requests, IssueTokens(r) \/ Rotate(r) PROVE SecretsAreBounded'
    BY <2>1, <2>3 DEF IssueTokens, Rotate, Finish, NoWork
  <2>4. ASSUME NEW r \in Requests, NEW code \in Secrets, VerifyTOTP(r, code) \/ BeginConfirmMFA(r, code)
        PROVE  SecretsAreBounded'
    BY <2>1, <2>4 DEF VerifyTOTP, BeginConfirmMFA, SecretsAreBounded
  <2>5. ASSUME NEW r \in Requests,
               (\E s \in DOMAIN sessions : BeginRefresh(r, s)) \/ (\E k \in DOMAIN resets : BeginReset(r, k))
        PROVE  SecretsAreBounded'
    BY <2>1, <2>5 DEF BeginRefresh, BeginReset
  <2>6. ASSUME NEW r \in Requests, FinishReset(r) \/ ActivateMFA(r) PROVE SecretsAreBounded'
    <3>1. {account'.secret, account'.pending, account'.issued} \subseteq 0..MaxSecrets
      <4>1. /\ account'.secret \in {account.secret, account.pending} /\ account'.issued = account.issued
            /\ account'.pending \in {account.pending, 0}
        BY <2>0, <2>6 DEF FinishReset, ActivateMFA, Account
      <4> QED BY <2>0, <4>1
    <3>2. serving' = [serving EXCEPT ![r] = NoWork] /\ UNCHANGED authCrashes
      BY <2>6 DEF FinishReset, ActivateMFA, Finish, Turn
    <3> QED BY <2>0, <3>1, <3>2 DEF SecretsAreBounded, NoWork
  <2>7. ASSUME NEW r \in Requests, RequestDies(r) PROVE SecretsAreBounded'
    BY <2>0, <2>7 DEF RequestDies, Finish, Turn, NoWork, SecretsAreBounded
  <2>8. ASSUME \/ \E s \in DOMAIN sessions : Logout(s) \/ SessionExpires(s)
               \/ ForgotPassword \/ UNCHANGED authVars
        PROVE  SecretsAreBounded'
    BY <2>8 DEF Logout, SessionExpires, ForgotPassword, authVars, SecretsAreBounded
  <2>9. CASE VerifyEmail \/ EnrollMFA
    <3>1. {account'.secret, account'.pending, account'.issued} \subseteq 0..MaxSecrets
      <4>1. CASE EnrollMFA
        <5>1. /\ account.issued < MaxSecrets /\ account'.secret = account.secret
              /\ account'.pending = account.issued + 1 /\ account'.issued = account.issued + 1
          BY <2>0, <4>1 DEF EnrollMFA, Account
        <5> QED BY <2>0, <5>1
      <4>2. CASE VerifyEmail
        BY <2>0, <4>2 DEF VerifyEmail, Account
      <4> QED BY <2>9, <4>1, <4>2
    <3> QED BY <2>0, <2>9, <3>1 DEF VerifyEmail, EnrollMFA, SecretsAreBounded
  <2> QED BY <2>2, <2>3, <2>4, <2>5, <2>6, <2>7, <2>8, <2>9 DEF AuthNext
<1>4. SessionInv /\ PasswordsAreKnown /\ SecretsAreBounded => AuthTypeOK
  <2>1. ASSUME SessionInv PROVE \A s \in DOMAIN sessions : sessions[s].live \in BOOLEAN
    <3>1. \A s \in DOMAIN sessions : sessions[s] \in Session
      BY <2>1 DEF SessionInv, SessionTypes
    <3> QED BY <3>1 DEF Session
  <2>2. SessionInv => account.pw \in Nat
    BY DEF SessionInv, SessionTypes, Account
  <2> QED BY <2>1, <2>2 DEF PasswordsAreKnown, SecretsAreBounded, AuthTypeOK
<1> QED
    BY SessionsAlways, <1>1, <1>2, <1>3, <1>4, PTL DEF AuthSpec

\* What the rights of an account consist of, and what an administrator is about to write.
RightsKinds ==
    /\ second \in 0..LastSecond /\ role \in Roles /\ denied \in -1..LastSecond
    /\ binding \in [shop : Shops \union {NoShop}, active : BOOLEAN]
    /\ \A card \in cards : card.role \in Roles /\ card.iat \in 0..second
    /\ DOMAIN clerk = Clerks
    /\ \A c \in Clerks : /\ clerk[c].step \in {"create", "bind", "update"} => clerk[c].shop \in Shops
                         /\ clerk[c].step = "update" => clerk[c].active \in BOOLEAN

\* The rights of an account.
LEMMA AccountRightsTypesAlways == RightsSpec => []RightsTypeOK
<1> USE RightsAssumption DEF Roles
<1>1. RightsInit => RightsKinds
    BY DEF RightsInit, RightsKinds, Unlinked, IdleClerk
<1>2. RightsKinds /\ [RightsNext]_rightsVars => RightsKinds'
  <2> SUFFICES ASSUME RightsKinds, [RightsNext]_rightsVars PROVE RightsKinds'
    OBVIOUS
  <2>1. ASSUME NEW c \in Clerks, NEW shop \in Shops, BeginCreateOperator(c, shop) PROVE RightsKinds'
    BY <2>1 DEF BeginCreateOperator, RightsKinds
  <2>2. ASSUME NEW c \in Clerks, LockUserForOperator(c) PROVE RightsKinds'
    BY <2>2 DEF LockUserForOperator, RightsKinds
  <2>3. ASSUME NEW c \in Clerks, CreateOperator(c) PROVE RightsKinds'
    BY <2>3 DEF CreateOperator, RightsKinds, IdleClerk
  <2>4. ASSUME NEW c \in Clerks, BeginUpdateOperator(c) PROVE RightsKinds'
    BY <2>4 DEF BeginUpdateOperator, RightsKinds
  <2>5. ASSUME NEW c \in Clerks, UpdateOperator(c) PROVE RightsKinds'
    BY <2>5 DEF UpdateOperator, RightsKinds, IdleClerk
  <2>6. ASSUME NEW c \in Clerks, RollbackClerk(c) PROVE RightsKinds'
    BY <2>6 DEF RollbackClerk, RightsKinds, IdleClerk
  <2>7. ASSUME NEW r \in Roles, UpdateUserRole(r) PROVE RightsKinds'
    BY <2>7 DEF UpdateUserRole, RightsKinds
  <2>8. CASE IssueCard
    BY <2>8 DEF IssueCard, RightsKinds
  <2>9. CASE SignOut
    BY <2>9 DEF SignOut, RightsKinds
  <2>10. CASE Tick
    BY <2>10 DEF Tick, RightsKinds
  <2>11. CASE RedisFlips \/ UNCHANGED rightsVars
    BY <2>11 DEF RedisFlips, rightsVars, RightsKinds
  <2> QED
    BY <2>1, <2>2, <2>3, <2>4, <2>5, <2>6, <2>7, <2>8, <2>9, <2>10, <2>11 DEF RightsNext
<1>3. RightsKinds => RightsTypeOK
    BY DEF RightsKinds, RightsTypeOK
<1> QED
    BY <1>1, <1>2, <1>3, PTL DEF RightsSpec
=============================================================================
