------------------------------ MODULE Copurchase ------------------------------
(* The job that counts which products are bought together (reco/copurchase.go). *)
(* Every replica of catalog-service runs it, an administrator can have the      *)
(* whole table rebuilt, and orders are confirmed meanwhile. A confirmed row     *)
(* carries the time its transaction began and is seen only once it commits.     *)
EXTENDS Integers, FiniteSets, FiniteSetsExt

CONSTANTS Baskets,       \* the orders, each with the set of its products
          Refreshers,    \* transactions that count: replicas, the administrator
          LagWindow,     \* minutes a confirmation has to commit
          CommitDelay,   \* minutes a confirmation takes at most
          MaxBasketSize, BatchOrders,
          LastMinute

ASSUME CopurchaseAssumption ==
    /\ IsFiniteSet(DOMAIN Baskets)
    /\ LagWindow \in Nat \ {0} /\ CommitDelay \in 0..(LagWindow - 1)
    /\ MaxBasketSize \in Nat /\ BatchOrders \in Nat \ {0} /\ LastMinute \in Nat \ {0}

VARIABLES minute,
          confirmed,   \* stock_reservations, one entry for the rows of an order
          together,    \* table product_copurchase
          watermark,   \* copurchase_refresh_state.watermark
          refresher    \* the transactions that count

copurchaseVars == <<minute, confirmed, together, watermark, refresher>>

BasketOrders == DOMAIN Baskets
BasketPairs == LET goods == UNION {Baskets[o] : o \in BasketOrders}
               IN {pq \in goods \X goods : pq[1] # pq[2]}
Nothing == [pq \in BasketPairs |-> 0]
AtRest == [step |-> "off"]

(* Postgres' epoch is 0 here, and the clock starts after it. *)
CopurchaseInit ==
    /\ minute = 1 /\ watermark = 0 /\ together = Nothing
    /\ confirmed = [o \in BasketOrders |-> [step |-> "active", at |-> 0]]
    /\ refresher = [r \in Refreshers |-> AtRest]
-----------------------------------------------------------------------------
(* settle with status committed: updated_at is now(), which is when the         *)
(* transaction began; until it commits nobody sees the row.                     *)
Confirm(o) == /\ confirmed[o].step = "active"
              /\ confirmed' = [confirmed EXCEPT ![o] = [step |-> "writing", at |-> minute]]
              /\ UNCHANGED <<minute, together, watermark, refresher>>
Land(o) == /\ confirmed[o].step = "writing"
           /\ confirmed' = [confirmed EXCEPT ![o].step = "committed"]
           /\ UNCHANGED <<minute, together, watermark, refresher>>
(* A confirmation is never open for longer than CommitDelay. *)
Minute == /\ minute < LastMinute /\ minute' = minute + 1
          /\ \A o \in BasketOrders :
                confirmed[o].step = "writing" => minute < confirmed[o].at + CommitDelay
          /\ UNCHANGED <<confirmed, together, watermark, refresher>>

Between(from, to) == {o \in BasketOrders : /\ confirmed[o].step = "committed"
                                           /\ from < confirmed[o].at /\ confirmed[o].at <= to}
(* The time of the last order of the batch: the earliest BatchOrders, the rest  *)
(* stays for the next round.                                                    *)
BatchEnd(S) == Min({t \in {confirmed[o].at : o \in S} :
                       Cardinality({o \in S : confirmed[o].at <= t})
                           >= IF Cardinality(S) < BatchOrders THEN Cardinality(S)
                              ELSE BatchOrders})
Counts(S, pq) == Cardinality({o \in S : /\ Cardinality(Baskets[o]) \in 2..MaxBasketSize
                                        /\ {pq[1], pq[2]} \subseteq Baskets[o]})

\* Mutant: the job counts up to this minute.
CutoffNow(r) == refresher[r].since
Cutoff(r) == refresher[r].since - LagWindow

BeginCount(r, task) ==
    /\ refresher[r].step = "off"
    /\ refresher' = [refresher EXCEPT ![r] = [step |-> "waiting", task |-> task, since |-> minute,
                                              from |-> 0, upTo |-> 0, mine |-> Nothing]]
    /\ UNCHANGED <<minute, confirmed, together, watermark>>

(* SELECT ... FOR UPDATE: one at a time, and who waited reads what the other    *)
(* wrote. A refresh with nothing old enough is done; a rebuild deletes every    *)
(* pair and starts at the beginning of time.                                    *)
Locked == \E r \in Refreshers : refresher[r].step \in {"window", "count", "save"}
LockWatermark(r) ==
    /\ refresher[r].step = "waiting" /\ ~Locked
    /\ refresher' = [refresher EXCEPT ![r] =
         IF @.task = "rebuild" THEN [@ EXCEPT !.step = "window"]
         ELSE IF Cutoff(r) <= watermark THEN AtRest
         ELSE [@ EXCEPT !.step = "window", !.from = watermark]]
    /\ UNCHANGED <<minute, confirmed, together, watermark>>

(* The first statement of accumulate looks how far the batch goes. An empty     *)
(* window moves the watermark to the cutoff, and ends a rebuild.                *)
SeeWindow(r) ==
    /\ refresher[r].step = "window"
    /\ LET S == Between(refresher[r].from, Cutoff(r))
       IN refresher' = [refresher EXCEPT ![r] =
            IF S = {} THEN [@ EXCEPT !.step = "save", !.from = Cutoff(r)]
            ELSE [@ EXCEPT !.step = "count", !.upTo = BatchEnd(S)]]
    /\ UNCHANGED <<minute, confirmed, together, watermark>>
(* Its second statement takes the same times, and sees what committed since. *)
CountWindow(r) ==
    /\ refresher[r].step = "count"
    /\ LET S == Between(refresher[r].from, refresher[r].upTo)
       IN refresher' = [refresher EXCEPT ![r] =
            [@ EXCEPT !.mine = [pq \in BasketPairs |-> refresher[r].mine[pq] + Counts(S, pq)],
                      !.from = refresher[r].upTo,
                      !.step = IF refresher[r].task = "rebuild" THEN "window" ELSE "save"]]
    /\ UNCHANGED <<minute, confirmed, together, watermark>>
(* A refresh adds to the numbers that are there by now (order_count + EXCLUDED); *)
(* a rebuild has deleted them.                                                  *)
KeptBy(r) == IF refresher[r].task = "rebuild" THEN Nothing ELSE together
SaveCount(r) ==
    /\ refresher[r].step = "save"
    /\ together' = [pq \in BasketPairs |-> KeptBy(r)[pq] + refresher[r].mine[pq]]
    /\ watermark' = refresher[r].from
    /\ refresher' = [refresher EXCEPT ![r] = AtRest]
    /\ UNCHANGED <<minute, confirmed>>
(* An error or the end of the process: the transaction leaves nothing. *)
AbandonCount(r) == /\ refresher[r].step # "off"
                   /\ refresher' = [refresher EXCEPT ![r] = AtRest]
                   /\ UNCHANGED <<minute, confirmed, together, watermark>>

CopurchaseNext ==
    \/ Minute
    \/ \E o \in BasketOrders : Confirm(o) \/ Land(o)
    \/ \E r \in Refreshers : \/ \E task \in {"refresh", "rebuild"} : BeginCount(r, task)
                             \/ LockWatermark(r) \/ SeeWindow(r) \/ CountWindow(r)
                             \/ SaveCount(r) \/ AbandonCount(r)
CopurchaseSpec == CopurchaseInit /\ [][CopurchaseNext]_copurchaseVars
-----------------------------------------------------------------------------
(* Every variable holds a value of its kind. *)
CopurchaseTypeOK ==
    /\ minute \in 1..LastMinute /\ watermark \in Int
    /\ together \in [BasketPairs -> 0..Cardinality(BasketOrders)]
    /\ \A o \in BasketOrders : confirmed[o].step \in {"active", "writing", "committed"}
    /\ \A r \in Refreshers : refresher[r].step \in {"off", "waiting", "window", "count", "save"}

(* Every basket counts once: the number kept for two products is the number of  *)
(* orders up to the watermark that hold both, whoever counted them, however the *)
(* replicas and a rebuild took turns, and however late a confirmation committed.*)
EveryBasketCountsOnce ==
    \A pq \in BasketPairs :
        together[pq] = Counts({o \in BasketOrders : /\ confirmed[o].step # "active"
                                                    /\ confirmed[o].at <= watermark}, pq)
=============================================================================
