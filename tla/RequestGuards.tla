------------------------------ MODULE RequestGuards ------------------------------
(* The two middlewares in front of checkout and charge, both kept in Redis and  *)
(* both letting requests pass when it does not answer: the idempotency store    *)
(* (pkg/idempotency), here for one key sent by several retries, and the rate    *)
(* limiter (pkg/ratelimit), here for one client.                                *)
EXTENDS Integers, FiniteSets

CONSTANTS Retries,     \* requests that carry the same Idempotency-Key
          MaxSlipUps, \* commands to Redis that fail, and keys that lapse, in each guard
          LimitMax, LimitWindow, \* Limit
          LastTick     \* the clock stops there

ASSUME GuardAssumption ==
    /\ IsFiniteSet(Retries) /\ Retries \cap {"absent", "in_flight"} = {} /\ MaxSlipUps \in Nat
    /\ LimitMax \in Nat /\ LimitWindow \in Nat \ {0} /\ LastTick \in Nat

VARIABLES key,      \* "absent", "in_flight", or the response saved under the key
          retry,    \* what each request is doing, and what it was answered
          effects,  \* what the handler did: one per execution
          slipUps,  \* failed commands, lapsed keys, and requests let through by a lapse
          tick,     \* clock of the limiter
          counter,  \* its key: hits so far and the tick at which it lapses
          admitted  \* history: the requests it let through, blindly when Redis failed

idemVars == <<key, retry, effects, slipUps>>
limitVars == <<tick, counter, admitted>>
guardVars == <<idemVars, limitVars>>

NotSent == [step |-> "not_sent"]
GuardInit ==
    /\ key = "absent" /\ retry = [r \in Retries |-> NotSent]
    /\ effects = {} /\ slipUps = 0
    /\ tick = 0 /\ counter = [hits |-> 0, until |-> 0] /\ admitted = {}

RedisFails == slipUps < MaxSlipUps /\ slipUps' = slipUps + 1
Set(r, state) == retry' = [retry EXCEPT ![r] = state]

\* Mutant: a GET and a SET, so that two requests may find the key absent.
ReserveByReading(r) ==
    /\ retry[r] = NotSent
    /\ key \in {"absent", "in_flight"}
    /\ key' = "in_flight" /\ Set(r, [step |-> "run", owner |-> TRUE])
    /\ UNCHANGED <<effects, slipUps, limitVars>>
(* Reserve is SETNX: one request gets the key, the others look at what it holds.*)
Reserve(r) ==
    /\ retry[r] = NotSent
    /\ \/ /\ key = "absent" /\ key' = "in_flight"
          /\ Set(r, [step |-> "run", owner |-> TRUE]) /\ UNCHANGED slipUps
       \/ /\ key # "absent"
          /\ Set(r, [step |-> "lookup"]) /\ UNCHANGED <<key, slipUps>>
       \/ /\ RedisFails
          /\ Set(r, [step |-> "run", owner |-> FALSE]) /\ UNCHANGED key
    /\ UNCHANGED <<effects, limitVars>>

(* Lookup: 409 while the first request runs, its answer once there is one; a    *)
(* key that lapsed in between, or an error, lets the request through.           *)
Lookup(r) ==
    /\ retry[r].step = "lookup"
    /\ \/ /\ key = "in_flight"
          /\ Set(r, [step |-> "answered", with |-> {}]) /\ UNCHANGED slipUps
       \/ /\ key = "absent" /\ slipUps' = slipUps + 1
          /\ Set(r, [step |-> "run", owner |-> FALSE])
       \/ /\ key \notin {"in_flight", "absent"}
          /\ Set(r, [step |-> "answered", with |-> {key}]) /\ UNCHANGED slipUps
       \/ /\ RedisFails
          /\ Set(r, [step |-> "run", owner |-> FALSE])
    /\ UNCHANGED <<key, effects, limitVars>>

(* The handler; then the answer is kept, whatever its status, by the request    *)
(* that had the key. A Save that fails (the client is gone, and its context     *)
(* with it) or a crash leaves the key in flight until it lapses.                *)
RunHandler(r) ==
    /\ retry[r].step = "run"
    /\ effects' = effects \union {r}
    /\ Set(r, [step |-> IF retry[r].owner THEN "save" ELSE "answered", with |-> {r}])
    /\ UNCHANGED <<key, slipUps, limitVars>>
Save(r) ==
    /\ retry[r].step = "save"
    /\ key' = r
    /\ Set(r, [retry[r] EXCEPT !.step = "answered"])
    /\ UNCHANGED <<effects, slipUps, limitVars>>
SaveFails(r) ==
    /\ retry[r].step \in {"run", "save"}
    /\ Set(r, [step |-> "answered", with |-> {}])
    /\ UNCHANGED <<key, effects, slipUps, limitVars>>
KeyLapses == /\ key # "absent" /\ RedisFails
             /\ key' = "absent"
             /\ UNCHANGED <<retry, effects, limitVars>>

(* Allow: INCR and EXPIRE in one MULTI. The EXPIRE has no NX, and no condition   *)
(* on the count: every hit, refused ones included, gives the key a whole window  *)
(* more. (The hits are counted up to two above the limit.)                       *)
Hits == IF tick < counter.until THEN counter.hits + 1 ELSE 1
CountHit == Hits <= LimitMax + 2 /\ counter' = [hits |-> Hits, until |-> tick + LimitWindow]
\* Mutant: the fixed window the comments of limiter.go describe, begun by the first hit.
AllowInFixedWindow ==
    /\ Hits <= LimitMax + 2
    /\ counter' = [hits |-> Hits,
                   until |-> IF tick < counter.until THEN counter.until ELSE tick + LimitWindow]
    /\ admitted' = IF Hits > LimitMax THEN admitted
                   ELSE admitted \union {[at |-> tick, nth |-> Hits, blind |-> FALSE]}
    /\ UNCHANGED <<idemVars, tick>>
AllowRequest ==
    /\ CountHit
    /\ admitted' = IF Hits > LimitMax THEN admitted
                   ELSE admitted \union {[at |-> tick, nth |-> Hits, blind |-> FALSE]}
    /\ UNCHANGED <<idemVars, tick>>
(* Redis fails: the request is let through all the same, whether the MULTI was   *)
(* lost or only its answer.                                                     *)
Blind == {p \in admitted : p.blind}
LimitFailsOpen ==
    /\ Cardinality(Blind) < MaxSlipUps
    /\ CountHit \/ UNCHANGED counter
    /\ admitted' = admitted \union {[at |-> tick, nth |-> Cardinality(Blind) + 1, blind |-> TRUE]}
    /\ UNCHANGED <<idemVars, tick>>
AdvanceTick == tick < LastTick /\ tick' = tick + 1 /\ UNCHANGED <<idemVars, counter, admitted>>

IdemNext ==
    \/ \E r \in Retries : Reserve(r) \/ Lookup(r) \/ RunHandler(r) \/ Save(r) \/ SaveFails(r)
    \/ KeyLapses
LimitNext == AllowRequest \/ LimitFailsOpen \/ AdvanceTick
GuardNext == IdemNext \/ LimitNext
GuardSpec == GuardInit /\ [][GuardNext]_guardVars
-----------------------------------------------------------------------------
(* Every variable holds a value of its kind. *)
GuardTypeOK ==
    /\ key \in Retries \union {"absent", "in_flight"} /\ effects \subseteq Retries
    /\ \A r \in Retries : retry[r].step \in {"not_sent", "lookup", "run", "save", "answered"}
    /\ tick \in 0..LastTick /\ counter.hits \in Nat
    /\ \A p \in admitted : p.at \in 0..tick /\ p.blind \in BOOLEAN

(* However many times a checkout is sent again, and in whatever order its       *)
(* copies meet: it happens once, but for one more per command Redis refused,    *)
(* per key it forgot and per request that was looking at it just then;          *)
(* and nobody is answered with something that did not happen.                  *)
ARetryHappensOnce ==
    /\ Cardinality(effects) <= 1 + slipUps
    /\ \A r \in Retries : retry[r].step = "answered" => retry[r].with \subseteq effects

(* Whatever the pace of a client, no stretch of time as long as the window lets *)
(* more of its requests through than the limit, but for those let through       *)
(* because Redis failed at them.                                               *)
AdmittedFrom(from) == {p \in admitted : p.at \in from..(from + LimitWindow - 1)}
NoBurstOverTheLimit ==
    \A from \in 0..LastTick :
        Cardinality(AdmittedFrom(from)) <= LimitMax + Cardinality(AdmittedFrom(from) \intersect Blind)
=============================================================================
