------------------------------- MODULE Resilience -------------------------------
(* What stands between order-service and catalog-service: a circuit breaker     *)
(* (pkg/circuitbreaker) around a bounded retry (pkg/retry), as put together by  *)
(* catalogclient/resilience.go. Calls are concurrent: the answer of a call is   *)
(* recorded in whatever state the circuit is by then. Backoff and metrics are   *)
(* left out.                                                                    *)
EXTENDS Integers, FiniteSets

CONSTANTS Calls,            \* goroutines that call the catalog
          FailureThreshold, HalfOpenMaxCalls, SuccessesToClose, \* Config
          MaxAttempts,      \* Policy.MaxAttempts
          SafetyOf,         \* Policy.Safety of each call
          MaxPeriods        \* half-open periods in one behaviour

ASSUME ResilienceAssumption ==
    /\ {FailureThreshold, HalfOpenMaxCalls, SuccessesToClose, MaxAttempts} \subseteq Nat \ {0}
    /\ SafetyOf \in [Calls -> {"idempotent", "non_idempotent"}]
    /\ MaxPeriods \in Nat /\ IsFiniteSet(Calls)

VARIABLES circuit, \* the fields of Breaker; `cooled` is Cooldown elapsed since openedAt
          call,    \* each goroutine: outside, or at an attempt
          round,  \* history: how many half-open periods there were
          stale    \* history: answers recorded in this round by calls of earlier times

resilienceVars == <<circuit, call, round, stale>>
Outside == [step |-> "outside"]
Running == {c \in Calls : call[c] # Outside}

ResilienceInit ==
    /\ circuit = [state |-> "closed", failures |-> 0, cooled |-> FALSE,
                  inFlight |-> 0, successes |-> 0]
    /\ call = [c \in Calls |-> Outside]
    /\ round = 0 /\ stale = 0

Attempts(c) == IF SafetyOf[c] = "idempotent" THEN MaxAttempts ELSE 1

(* maybeHalfOpenLocked, looked at whenever a call wants in. *)
HalfOpens == circuit.state = "open" /\ circuit.cooled
Current == IF HalfOpens THEN [circuit EXCEPT !.state = "half_open", !.inFlight = 0,
                                             !.successes = 0]
           ELSE circuit
CountPeriod == IF HalfOpens THEN round < MaxPeriods /\ round' = round + 1 /\ stale' = 0
                            ELSE UNCHANGED <<round, stale>>

\* Mutant: the half-open circuit lets everybody through.
AllowEverybody(c) ==
    /\ call[c] = Outside /\ CountPeriod
    /\ Current.state \in {"closed", "half_open"}
    /\ circuit' = [Current EXCEPT !.inFlight = IF Current.state = "half_open" THEN @ + 1 ELSE @]
    /\ call' = [call EXCEPT ![c] =
         [step |-> "running", attempt |-> 1,
          probe |-> IF Current.state = "half_open" THEN round' ELSE 0]]
(* allow: in the half-open state only so many probes at a time. *)
Allow(c) ==
    /\ call[c] = Outside /\ CountPeriod
    /\ \/ /\ Current.state = "closed"
          /\ circuit' = Current
       \/ /\ Current.state = "half_open" /\ Current.inFlight < HalfOpenMaxCalls
          /\ circuit' = [Current EXCEPT !.inFlight = @ + 1]
    /\ call' = [call EXCEPT ![c] =
         [step |-> "running", attempt |-> 1,
          probe |-> IF Current.state = "half_open" THEN round' ELSE 0]]
Refused == \/ Current.state = "open"
           \/ Current.state = "half_open" /\ Current.inFlight >= HalfOpenMaxCalls
\* Mutant: a refused call takes its slot before it is refused.
RefuseCounted(c) ==
    /\ call[c] = Outside /\ CountPeriod
    /\ Refused
    /\ circuit' = IF Current.state = "half_open" THEN [Current EXCEPT !.inFlight = @ + 1] ELSE Current
    /\ UNCHANGED call
Refuse(c) ==
    /\ call[c] = Outside /\ CountPeriod
    /\ Refused
    /\ circuit' = Current
    /\ UNCHANGED call
(* record: one failure of a probe opens again, enough successes close; in the   *)
(* other states (open included) failures are counted and a success forgets them.*)
Opened == [circuit EXCEPT !.state = "open", !.cooled = FALSE, !.inFlight = 0, !.successes = 0]
Recorded(failure) ==
    IF circuit.state = "half_open"
    THEN IF failure THEN Opened
         ELSE IF circuit.successes + 1 >= SuccessesToClose
         THEN [circuit EXCEPT !.state = "closed", !.failures = 0, !.inFlight = 0, !.successes = 0]
         ELSE [circuit EXCEPT !.successes = @ + 1,
                              !.inFlight = IF @ > 0 THEN @ - 1 ELSE 0]
    ELSE IF ~failure THEN [circuit EXCEPT !.failures = 0]
    ELSE IF circuit.failures + 1 >= FailureThreshold
         THEN [Opened EXCEPT !.failures = IF @ < FailureThreshold THEN @ + 1 ELSE @]
         ELSE [circuit EXCEPT !.failures = @ + 1]

(* An attempt fails because the catalog does, and is repeated while attempts    *)
(* are left and the client waits: one that gives up during the back-off gets    *)
(* the failure of the last attempt. Any other answer ends the call too: a good  *)
(* one, a definitive 4xx, or the client giving up while it runs, none of which  *)
(* counts as a failure.                                                         *)
TryAgain(c) ==
    /\ call[c].step = "running" /\ call[c].attempt < Attempts(c)
    /\ call' = [call EXCEPT ![c].attempt = @ + 1]
    /\ UNCHANGED <<circuit, round, stale>>
EndCall(c, failure) ==
    /\ call[c].step = "running"
    /\ circuit' = Recorded(failure)
    /\ stale' = IF circuit.state = "half_open" /\ call[c].probe # round THEN stale + 1 ELSE stale
    /\ call' = [call EXCEPT ![c] = Outside]
    /\ UNCHANGED round
CooldownPasses == /\ circuit.state = "open" /\ ~circuit.cooled
                  /\ circuit' = [circuit EXCEPT !.cooled = TRUE]
                  /\ UNCHANGED <<call, round, stale>>

ResilienceNext ==
    \/ \E c \in Calls : \/ Allow(c) \/ Refuse(c) \/ TryAgain(c)
                        \/ \E failure \in BOOLEAN : EndCall(c, failure)
    \/ CooldownPasses
ResilienceSpec == ResilienceInit /\ [][ResilienceNext]_resilienceVars
-----------------------------------------------------------------------------
(* Every variable holds a value of its kind. *)
ResilienceTypeOK ==
    /\ circuit.state \in {"closed", "open", "half_open"} /\ circuit.cooled \in BOOLEAN
    /\ circuit.failures \in 0..FailureThreshold /\ circuit.inFlight \in 0..HalfOpenMaxCalls
    /\ \A c \in Running : call[c].attempt \in 1..Attempts(c)

(* A half-open circuit can always get better: every slot it counts as taken is  *)
(* held by a call that is still running, so it never refuses everybody for      *)
(* ever. And it does not drown the catalog: it lets no more probes through at a *)
(* time than configured, but for the slots that late answers of older calls     *)
(* gave back in their place.                                                    *)
Probes == {c \in Running : call[c].probe = round}
ProbeSlotsAreHeld ==
    circuit.state = "half_open" =>
        /\ circuit.inFlight <= Cardinality(Running)
        /\ Cardinality(Probes) <= HalfOpenMaxCalls + stale
=============================================================================
