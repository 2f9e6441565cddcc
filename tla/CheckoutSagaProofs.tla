--------------------------- MODULE CheckoutSagaProofs ---------------------------
(***************************************************************************)
(* Every step of the saga is one of OrderJourney, as OrderTransactions     *)
(* promises of each of its transactions, and its stock implements          *)
(* StockReservation, for any number of orders, products, payments and      *)
(* faults: whoever moves an order or its reservation, and whatever is lost *)
(* on the way, every step of the saga is a step of an order or leaves the  *)
(* orders alone, and so for the stock.  The theorems of OrderJourneyProofs *)
(* and StockProofs then hold of the saga.                                  *)
(***************************************************************************)
EXTENDS CheckoutSaga, StockProofs, TLAPS

Orderly == INSTANCE OrderJourneyProofs

-----------------------------------------------------------------------------
\* Create touches the order with the INSERT only.
LEMMA CreateSteps ==
  ASSUME NEW o \in Orders,
         \/ StartCreate(o) \/ ReserveTimesOut(o) \/ PlaceOrder(o) \/ PlaceOrderFails(o)
         \/ PlaceOrderInDoubt(o) \/ CreateDies(o)
  PROVE  [Journey!JourneyNext]_orderVars
PROOF
  <1> USE DEF Journey!JourneyNext, orderVars
  <1>1. CASE StartCreate(o)
    BY <1>1 DEF StartCreate
  <1>2. CASE ReserveTimesOut(o)
    BY <1>2 DEF ReserveTimesOut
  <1>3. CASE PlaceOrder(o)
    BY <1>3 DEF PlaceOrder
  <1>4. CASE PlaceOrderFails(o)
    BY <1>4 DEF PlaceOrderFails
  <1>5. CASE PlaceOrderInDoubt(o)
    BY <1>5 DEF PlaceOrderInDoubt
  <1>6. CASE CreateDies(o)
    BY <1>6 DEF CreateDies
  <1> QED
    BY <1>1, <1>2, <1>3, <1>4, <1>5, <1>6

\* Customers and operators move the order by Advance.
LEMMA PeopleSteps ==
  ASSUME NEW o \in Orders, NEW to \in {"picking", "shipped", "delivered"},
         Cancel(o) \/ Fulfil(o, to)
  PROVE  [Journey!JourneyNext]_orderVars
PROOF
  <1>1. "cancelled" \in Journey!OrderStatuses /\ to \in Journey!OrderStatuses
    BY DEF Journey!OrderStatuses
  <1>2. CASE Cancel(o)
    BY <1>1, <1>2 DEF Cancel, Journey!JourneyNext
  <1>3. CASE Fulfil(o, to)
    BY <1>1, <1>3 DEF Fulfil, Journey!JourneyNext
  <1> QED
    BY <1>2, <1>3

\* catalog-service knows the number of an order and nothing else of it.
LEMMA CatalogSteps ==
  ASSUME \/ \E o \in Orders : ServeSettle(o)
         \/ \E o \in Orders, a \in Attempts : ServeReserve(o, a) \/ RefuseReserve(o, a)
         \/ \E c \in calls : LoseCall(c)
         \/ SweepOrLapse
  PROVE  UNCHANGED orderVars
  BY DEF ServeSettle, ServeReserve, RefuseReserve, LoseCall, SweepOrLapse

\* The payment side and the offsets leave the orders alone.
LEMMA EventSteps ==
  ASSUME \/ \E p \in Payments, s \in Reported : PspReports(p, s) \/ Publish(p, s)
         \/ \E e \in Events : Republish(e) \/ HandleFails(e)
         \/ PollFetches \/ CommitOffsets \/ ConsumerDies
  PROVE  UNCHANGED orderVars
  BY DEF PspReports, Publish, Republish, HandleFails, PollFetches, CommitOffsets, ConsumerDies

\* An event moves its order by Advance, or not at all.
LEMMA HandleSteps ==
  ASSUME SagaAssumption, NEW e \in Events, Handle(e)
  PROVE  [Journey!JourneyNext]_orderVars
PROOF
  <1>1. OrderOf[e[2]] \in Orders
    BY DEF SagaAssumption, Events
  <1>2. TargetStatus(e[1]) \in Journey!OrderStatuses
    BY DEF TargetStatus, Journey!OrderStatuses
  <1>3. \/ Journey!Advance(OrderOf[e[2]], TargetStatus(e[1]))
        \/ UNCHANGED orderVars
    BY DEF Handle
  <1> QED
    BY <1>1, <1>2, <1>3 DEF Journey!JourneyNext

\* Every step of the saga is a step of an order, or leaves the orders alone.
LEMMA SagaSteps == [SagaNext]_sagaVars => [Journey!JourneyNext]_orderVars
PROOF
  <1> SUFFICES ASSUME [SagaNext]_sagaVars PROVE [Journey!JourneyNext]_orderVars
    OBVIOUS
  <1>1. CASE UNCHANGED sagaVars
    BY <1>1 DEF sagaVars, orderVars
  <1>2. CASE SagaNext
    BY <1>2, CreateSteps, PeopleSteps, CatalogSteps, EventSteps, HandleSteps, SagaAssumption
       DEF SagaNext
  <1> QED
    BY <1>1, <1>2

-----------------------------------------------------------------------------
(* What OrderJourneyProofs shows of an order holds of the orders of the saga *)

\* The two instances of OrderJourney have the same steps.
LEMMA SameJourney ==
  /\ Journey!JourneyInit => Orderly!JourneyInit
  /\ [Journey!JourneyNext]_orderVars => [Orderly!JourneyNext]_Orderly!journey
  BY DEF Journey!JourneyInit, Orderly!JourneyInit, orderVars, Orderly!journey,
         Journey!JourneyNext, Journey!Place, Journey!Advance, Journey!CanTransition,
         Journey!OrderStatuses, Journey!AllowedTransitions, Journey!TimestampColumn,
         Orderly!JourneyNext, Orderly!Place, Orderly!Advance, Orderly!CanTransition,
         Orderly!OrderStatuses, Orderly!AllowedTransitions, Orderly!TimestampColumn

\* The inductive invariant of an order is one of the saga.
LEMMA SagaKeepsJourneyInv == SagaSpec => []Orderly!JourneyInv
PROOF
  <1>1. SagaInit => Orderly!JourneyInv
    BY SameJourney, Orderly!InitInv DEF SagaInit
  <1>2. Orderly!JourneyInv /\ [SagaNext]_sagaVars => Orderly!JourneyInv'
    BY SagaSteps, SameJourney, Orderly!NextInv
  <1> QED
    BY <1>1, <1>2, PTL DEF SagaSpec

\* The timeline a customer reads is a path of the state machine that ends at the order's
\* status, in every interleaving of customers, operators, calls and events.
THEOREM SagaTimelineIsPath == SagaSpec => []TimelineIsPath
PROOF
  <1>1. Orderly!JourneyInv => TimelineIsPath
    BY DEF Orderly!JourneyInv, Orderly!TimelineIsPath, Orderly!CanTransition,
           Orderly!OrderStatuses, Orderly!AllowedTransitions, TimelineIsPath,
           Journey!TimelineIsPath, Journey!CanTransition, Journey!OrderStatuses,
           Journey!AllowedTransitions
  <1> QED
    BY <1>1, SagaKeepsJourneyInv, PTL

\* The timestamps of an order are those of the statuses it went through.
THEOREM SagaStampsAgree == SagaSpec => []StampsTellTheTimeline
PROOF
  <1>1. Orderly!JourneyInv => StampsTellTheTimeline
    BY DEF Orderly!JourneyInv, Orderly!StampsTellTheTimeline, Orderly!TimestampColumn,
           StampsTellTheTimeline, Journey!StampsTellTheTimeline, Journey!TimestampColumn
  <1> QED
    BY <1>1, SagaKeepsJourneyInv, PTL

\* Neither a late event nor an operator cancels an order whose goods are with the carrier.
THEOREM SagaNeverCancelsDispatched == SagaSpec => NoCancelAfterDispatch
PROOF
  <1>1. Orderly!JourneyInv /\ [SagaNext]_sagaVars
           => [\A o \in Orders : status[o] \in {"shipped", "delivered"}
                                    => status'[o] # "cancelled"]_Journey!journey
    BY SagaSteps, SameJourney, Orderly!DispatchIsFinal
       DEF Orderly!NotCancelledNow, Orderly!journey, Journey!journey
  <1> QED
    BY <1>1, SagaKeepsJourneyInv, PTL
       DEF SagaSpec, NoCancelAfterDispatch, Journey!NoCancelAfterDispatch

-----------------------------------------------------------------------------
(* Orders, stock and events agree *)

\* An event on its way through the consumer was published, and a request to write off the
\* stock of an order was sent for an order that was paid.
RecordsWerePublished == \A e \in Events : record[e] # "none" => e \in log
CommitsFollowPayment == \A o \in Orders : CommitCall(o) \in calls => WasPaid(o)

SagaInv ==
    /\ DOMAIN stamps = Orders /\ DOMAIN record = Events
    /\ RecordsWerePublished
    /\ PaidImpliesConfirmedEvent
    /\ CommitsFollowPayment
    /\ SoldImpliesPaid

\* The three kinds of requests are told apart by their name.
LEMMA CallsDiffer ==
  ASSUME NEW o \in Orders, NEW x \in Orders, NEW a \in Attempts
  PROVE  /\ CommitCall(o) # ReleaseCall(x)
         /\ CommitCall(o) # ReserveCall(x, a)
         /\ CommitCall(o) = CommitCall(x) => o = x
  BY DEF CommitCall, ReleaseCall, ReserveCall

\* Only Advance to paid fills paid_at, and nothing empties it.
LEMMA PaidStays ==
  ASSUME DOMAIN stamps = Orders, NEW x \in Orders, Journey!Advance(x, "paid")
  PROVE  /\ WasPaid(x)'
         /\ DOMAIN stamps' = Orders
         /\ \A o \in Orders : o # x => (WasPaid(o)' <=> WasPaid(o))
         /\ \A o \in Orders : WasPaid(o) => WasPaid(o)'
  BY DEF Journey!Advance, Journey!TimestampColumn, WasPaid

\* The other transitions leave paid_at as it is.
LEMMA OtherStampsStay ==
  ASSUME DOMAIN stamps = Orders, NEW x \in Orders,
         NEW to \in {"picking", "shipped", "delivered", "cancelled"},
         Journey!Advance(x, to)
  PROVE  /\ DOMAIN stamps' = Orders
         /\ \A o \in Orders : WasPaid(o)' <=> WasPaid(o)
  BY DEF Journey!Advance, Journey!TimestampColumn, WasPaid

\* Nothing was paid, published or sold at first.
LEMMA SagaInitInv == SagaInit => SagaInv
  BY DEF SagaInit, SagaInv, Init, EventsInit, Journey!JourneyInit, RecordsWerePublished,
         PaidImpliesConfirmedEvent, CommitsFollowPayment, SoldImpliesPaid, WasPaid

\* A step that leaves what is paid, committed, published and asked for alone, but for
\* requests other than Commit.
LEMMA Quiet ==
  ASSUME SagaInv,
         DOMAIN stamps' = Orders, \A o \in Orders : WasPaid(o)' <=> WasPaid(o),
         record' = record, log' = log,
         \A o \in Orders : CommitCall(o) \in calls' => CommitCall(o) \in calls,
         \A r \in Rows : reservation'[r] = "committed" => reservation[r] = "committed"
  PROVE  SagaInv'
  BY DEF SagaInv, RecordsWerePublished, PaidImpliesConfirmedEvent, CommitsFollowPayment,
         SoldImpliesPaid, Rows

\* Create sends requests to reserve and to release, never to write off.
LEMMA CreateInv ==
  ASSUME SagaInv, NEW o \in Orders,
         \/ StartCreate(o) \/ ReserveTimesOut(o) \/ PlaceOrder(o) \/ PlaceOrderFails(o)
         \/ PlaceOrderInDoubt(o) \/ CreateDies(o)
  PROVE  SagaInv'
PROOF
  <1>1. /\ stamps' = stamps /\ record' = record /\ log' = log /\ reservation' = reservation
        /\ \/ calls' = calls
           \/ calls' = calls \cup {ReleaseCall(o)}
           \/ \E a \in Attempts \cup {1} : calls' = calls \cup {ReserveCall(o, a)}
    BY DEF StartCreate, ReserveTimesOut, PlaceOrder, PlaceOrderFails, PlaceOrderInDoubt,
           CreateDies, Journey!Place, orderVars, payments, vars
  <1>2. \A x \in Orders : CommitCall(x) \in calls' => CommitCall(x) \in calls
    BY <1>1 DEF CommitCall, ReleaseCall, ReserveCall
  <1>3. DOMAIN stamps' = Orders /\ \A x \in Orders : WasPaid(x)' <=> WasPaid(x)
    BY <1>1 DEF SagaInv, WasPaid
  <1> QED
    BY <1>1, <1>2, <1>3, Quiet

\* Customers and operators neither pay an order nor ask to write off its stock.
LEMMA PeopleInv ==
  ASSUME SagaInv, NEW o \in Orders, NEW to \in {"picking", "shipped", "delivered"},
         Cancel(o) \/ Fulfil(o, to)
  PROVE  SagaInv'
PROOF
  <1>1. Journey!Advance(o, "cancelled") \/ Journey!Advance(o, to)
    BY DEF Cancel, Fulfil
  <1>2. DOMAIN stamps' = Orders /\ \A x \in Orders : WasPaid(x)' <=> WasPaid(x)
    BY <1>1, OtherStampsStay DEF SagaInv
  <1>3. /\ record' = record /\ log' = log /\ reservation' = reservation
        /\ calls' = calls \/ calls' = calls \cup {ReleaseCall(o)}
    BY DEF Cancel, Fulfil, payments, vars
  <1>4. \A x \in Orders : CommitCall(x) \in calls' => CommitCall(x) \in calls
    BY <1>3 DEF CommitCall, ReleaseCall
  <1> QED
    BY <1>2, <1>3, <1>4, Quiet

\* catalog-service writes stock off only on the request to do so.
LEMMA CatalogInv ==
  ASSUME SagaInv,
         \/ \E o \in Orders : ServeSettle(o)
         \/ \E o \in Orders, a \in Attempts : ServeReserve(o, a) \/ RefuseReserve(o, a)
         \/ \E c \in calls : LoseCall(c)
         \/ SweepOrLapse
  PROVE  SagaInv'
PROOF
  <1>1. /\ stamps' = stamps /\ record' = record /\ log' = log /\ calls' \subseteq calls
    BY DEF ServeSettle, ServeReserve, RefuseReserve, LoseCall, SweepOrLapse, orderVars,
           payments
  <1>2. \A o \in Orders : WasPaid(o)' <=> WasPaid(o)
    BY <1>1 DEF WasPaid
  <1>3. ASSUME NEW o \in Orders, CommitCall(o) \in calls, Commit(o, ActiveRows(o))
        PROVE  SoldImpliesPaid'
    <2>1. WasPaid(o)
      BY <1>3 DEF SagaInv, CommitsFollowPayment
    <2>2. \A r \in Rows : reservation'[r] = "committed"
                             => reservation[r] = "committed" \/ r[1] = o
      BY <1>3 DEF Commit, SettleRows, ActiveRows
    <2> QED
      BY <1>2, <2>1, <2>2 DEF SagaInv, SoldImpliesPaid, Rows
  <1>4. CASE \E o \in Orders : CommitCall(o) \in calls /\ Commit(o, ActiveRows(o))
    BY <1>1, <1>2, <1>3, <1>4
       DEF SagaInv, RecordsWerePublished, PaidImpliesConfirmedEvent, CommitsFollowPayment
  <1>5. CASE \A r \in Rows : reservation'[r] = "committed" => reservation[r] = "committed"
    BY <1>1, <1>2, <1>5, Quiet DEF SagaInv
  <1>6. \/ \E o \in Orders : CommitCall(o) \in calls /\ Commit(o, ActiveRows(o))
        \/ \A r \in Rows : reservation'[r] = "committed" => reservation[r] = "committed"
    BY DEF ServeSettle, ServeReserve, RefuseReserve, LoseCall, SweepOrLapse, vars,
           Release, Sweep, Lapse, SettleRows, Reserve
  <1> QED
    BY <1>4, <1>5, <1>6

\* The consumer fetches what was published.
LEMMA EventInv ==
  ASSUME SagaInv,
         \/ \E p \in Payments, s \in Reported : PspReports(p, s) \/ Publish(p, s)
         \/ \E e \in Events : Republish(e) \/ HandleFails(e)
         \/ PollFetches \/ CommitOffsets \/ ConsumerDies
  PROVE  SagaInv'
PROOF
  <1>1. stamps' = stamps /\ calls' = calls /\ reservation' = reservation
    BY DEF PspReports, Publish, Republish, HandleFails, PollFetches, CommitOffsets,
           ConsumerDies, orderVars, vars
  <1> DEFINE Kept == log \subseteq log' /\ DOMAIN record' = Events /\ RecordsWerePublished'
  <1>2. Kept
    <2> USE DEF SagaInv, RecordsWerePublished
    <2>1. ASSUME NEW p \in Payments, NEW s \in Reported, PspReports(p, s)
          PROVE  Kept
      BY <2>1 DEF PspReports, Becomes
    <2>2. ASSUME NEW p \in Payments, NEW s \in Reported, Publish(p, s)
          PROVE  Kept
      BY <2>2 DEF Publish, Announce
    <2>3. CASE \E e \in Events : Republish(e) \/ HandleFails(e)
      BY <2>3 DEF Republish, HandleFails, payments
    <2>4. CASE PollFetches \/ CommitOffsets \/ ConsumerDies
      BY <2>4 DEF PollFetches, CommitOffsets, ConsumerDies, payments, Batch
    <2> QED
      BY <2>1, <2>2, <2>3, <2>4
  <1>3. \A o \in Orders : WasPaid(o)' <=> WasPaid(o)
    BY <1>1 DEF WasPaid
  <1> QED
    BY <1>1, <1>2, <1>3 DEF SagaInv, PaidImpliesConfirmedEvent, CommitsFollowPayment,
                            SoldImpliesPaid, Rows

\* The consumer pays an order on the event it fetched, and asks for its stock afterwards.
LEMMA HandleInv ==
  ASSUME SagaInv, SagaAssumption, NEW e \in Events, Handle(e)
  PROVE  SagaInv'
PROOF
  <1> DEFINE x == OrderOf[e[2]]
             target == TargetStatus(e[1])
             MayMove == e \notin processed /\ Journey!CanTransition(status[x], target)
  <1>1. x \in Orders /\ e[2] \in Payments /\ e = <<e[1], e[2]>> /\ e \in log
    BY DEF SagaAssumption, Events, Handle, SagaInv, RecordsWerePublished
  <1>2. log' = log /\ reservation' = reservation
    BY DEF Handle, vars, payments
  <1>3. DOMAIN record' = Events /\ RecordsWerePublished'
    BY <1>1, <1>2 DEF Handle, SagaInv, RecordsWerePublished
  <1>4. CASE MayMove /\ target = "paid"
    <2>1. e[1] = "payment.confirmed"
      BY <1>4 DEF TargetStatus
    <2>2. Journey!Advance(x, "paid") /\ calls' = calls \cup {CommitCall(x)}
      BY <1>4 DEF Handle
    <2>3. /\ WasPaid(x)' /\ DOMAIN stamps' = Orders
          /\ \A o \in Orders : o # x => (WasPaid(o)' <=> WasPaid(o))
          /\ \A o \in Orders : WasPaid(o) => WasPaid(o)'
      BY <1>1, <2>2, PaidStays DEF SagaInv
    <2>4. PaidImpliesConfirmedEvent'
      BY <1>1, <1>2, <2>1, <2>3 DEF SagaInv, PaidImpliesConfirmedEvent
    <2>5. CommitsFollowPayment'
      BY <1>1, <2>2, <2>3, CallsDiffer DEF SagaInv, CommitsFollowPayment, CommitCall
    <2>6. SoldImpliesPaid'
      BY <1>2, <2>3 DEF SagaInv, SoldImpliesPaid, Rows
    <2> QED
      BY <1>3, <2>3, <2>4, <2>5, <2>6 DEF SagaInv
  <1>5. CASE ~(MayMove /\ target = "paid")
    <2>1. /\ DOMAIN stamps' = Orders /\ \A o \in Orders : WasPaid(o)' <=> WasPaid(o)
          /\ calls' \subseteq calls \cup {ReleaseCall(x)}
      <3>1. CASE MayMove
        <4>1. Journey!Advance(x, "cancelled") /\ calls' = calls \cup {ReleaseCall(x)}
          BY <1>5, <3>1 DEF Handle, TargetStatus
        <4> QED
          BY <1>1, <4>1, OtherStampsStay DEF SagaInv
      <3>2. CASE ~MayMove
        <4>1. stamps' = stamps /\ calls' = calls
          BY <3>2 DEF Handle, orderVars
        <4> QED
          BY <4>1 DEF SagaInv, WasPaid
      <3> QED
        BY <3>1, <3>2
    <2>2. \A o \in Orders : CommitCall(o) \in calls' => CommitCall(o) \in calls
      BY <2>1 DEF CommitCall, ReleaseCall
    <2> QED
      BY <1>2, <1>3, <2>1, <2>2 DEF SagaInv, PaidImpliesConfirmedEvent,
         CommitsFollowPayment, SoldImpliesPaid, Rows
  <1> QED
    BY <1>4, <1>5

\* Every step of the saga keeps orders, stock and events in agreement.
LEMMA SagaNextInv == SagaInv /\ [SagaNext]_sagaVars => SagaInv'
PROOF
  <1> SUFFICES ASSUME SagaInv, [SagaNext]_sagaVars PROVE SagaInv'
    OBVIOUS
  <1>1. CASE UNCHANGED sagaVars
    BY <1>1, Quiet DEF sagaVars, orderVars, vars, payments, SagaInv, WasPaid
  <1>2. CASE SagaNext
    BY <1>2, CreateInv, PeopleInv, CatalogInv, EventInv, HandleInv, SagaAssumption
       DEF SagaNext
  <1> QED
    BY <1>1, <1>2

\* They agree in every reachable state.
LEMMA SagaInvAlways == SagaSpec => []SagaInv
  BY SagaInitInv, SagaNextInv, PTL DEF SagaSpec

\* Units are written off only for an order that was paid, though the request to do so
\* travels outside the order's transaction.
THEOREM SoldOnlyIfPaid == SagaSpec => []SoldImpliesPaid
  BY SagaInvAlways, PTL DEF SagaInv

\* An order is paid only on a confirmation of one of its own payments, however many events
\* come, how often and in which order.
THEOREM PaidOnlyByConfirmation == SagaSpec => []PaidImpliesConfirmedEvent
  BY SagaInvAlways, PTL DEF SagaInv

-----------------------------------------------------------------------------
(* The stock of the saga *)

\* Every step of the saga is a transaction of catalog-service, or leaves the stock alone.
LEMMA SagaStockSteps == [SagaNext]_sagaVars => [Next]_vars
PROOF
  <1> SUFFICES ASSUME [SagaNext]_sagaVars PROVE [Next]_vars
    OBVIOUS
  <1>1. ASSUME NEW o \in Orders,
               \/ StartCreate(o) \/ ReserveTimesOut(o) \/ PlaceOrder(o) \/ PlaceOrderFails(o)
               \/ PlaceOrderInDoubt(o) \/ CreateDies(o) \/ Cancel(o)
               \/ \E to \in {"picking", "shipped", "delivered"} : Fulfil(o, to)
        PROVE  UNCHANGED vars
    BY <1>1 DEF StartCreate, ReserveTimesOut, PlaceOrder, PlaceOrderFails, PlaceOrderInDoubt,
                CreateDies, Cancel, Fulfil
  <1>2. ASSUME NEW o \in Orders, ServeSettle(o) PROVE Next
    <2>1. ActiveRows(o) \in SUBSET ActiveRows(o)
      OBVIOUS
    <2>2. Commit(o, ActiveRows(o)) \/ Release(o, ActiveRows(o))
      BY <1>2 DEF ServeSettle
    <2> QED
      BY <2>1, <2>2 DEF Next
  <1>3. ASSUME NEW o \in Orders, NEW a \in Attempts, ServeReserve(o, a) PROVE Next
    BY <1>3 DEF ServeReserve, Next
  <1>4. ASSUME NEW o \in Orders, NEW a \in Attempts, RefuseReserve(o, a) PROVE UNCHANGED vars
    BY <1>4 DEF RefuseReserve
  <1>5. CASE SweepOrLapse
    BY <1>5 DEF SweepOrLapse, Next
  <1>6. ASSUME \/ \E c \in calls : LoseCall(c)
               \/ \E p \in Payments, s \in Reported : PspReports(p, s) \/ Publish(p, s)
               \/ \E e \in Events : Republish(e) \/ Handle(e) \/ HandleFails(e)
               \/ PollFetches \/ CommitOffsets \/ ConsumerDies
               \/ UNCHANGED sagaVars
        PROVE  UNCHANGED vars
    BY <1>6 DEF LoseCall, PspReports, Publish, Republish, Handle, HandleFails, PollFetches,
                CommitOffsets, ConsumerDies, sagaVars
  <1> QED
    BY <1>1, <1>2, <1>3, <1>4, <1>5, <1>6 DEF SagaNext

\* Called by a saga that retries, gives up and compensates, catalog-service still is what
\* StockReservation says.
THEOREM SagaImplementsStock == SagaSpec => Spec
PROOF
  <1>1. SagaInit => Init
    BY DEF SagaInit
  <1> QED
    BY <1>1, SagaStockSteps, PTL DEF SagaSpec, Spec

\* Its inductive invariant is one of the saga.
LEMMA SagaKeepsStockInv == SagaSpec => []Inv
  BY SagaImplementsStock, InvAlways, PTL

-----------------------------------------------------------------------------
(* Goods that were paid for *)

\* What may make catalog-service give the units of an order back: it was cancelled, the COMMIT
\* of its INSERT is in doubt, or Create ended without it.
GoesBack(o) ==
    \/ status[o] = "cancelled"
    \/ create[o] = "in_doubt"
    \/ create[o] = "answered" /\ status[o] = "none"
ReleasesHaveReasons == \A o \in Orders : ReleaseCall(o) \in calls => GoesBack(o)
ReleasedHaveReasons ==
    \A r \in Rows : reservation[r] = "released" => GoesBack(r[1]) \/ <<r[1], r[3]>> \in lapsed
Unplaced == {"idle", "reserving", "reserved"}
PlacedAtTheEnd == \A o \in Orders : create[o] \in Unplaced => status[o] = "none"
GoodsInv ==
    /\ PlacedAtTheEnd
    /\ status = [o \in Orders |-> status[o]] /\ create = [o \in Orders |-> create[o]]
    /\ reservation = [r \in Rows |-> reservation[r]]
    /\ ReleasesHaveReasons /\ ReleasedHaveReasons

\* A reason stays one: a cancelled order and an answered request are final; and an order is
\* written at the end of its Create.
LEMMA ReasonsStay ==
  ASSUME GoodsInv, [SagaNext]_sagaVars
  PROVE  /\ status' = [o \in Orders |-> status'[o]] /\ create' = [o \in Orders |-> create'[o]]
         /\ \A o \in Orders : GoesBack(o) => GoesBack(o)'
         /\ PlacedAtTheEnd'
PROOF
  <1> DEFINE K == /\ status' = [o \in Orders |-> status'[o]]
                  /\ create' = [o \in Orders |-> create'[o]]
                  /\ \A o \in Orders : GoesBack(o) => GoesBack(o)'
                  /\ PlacedAtTheEnd'
  <1>0. /\ status = [o \in Orders |-> status[o]] /\ create = [o \in Orders |-> create[o]]
        /\ \A o \in Orders : create[o] \in Unplaced => status[o] = "none"
    BY DEF GoodsInv, PlacedAtTheEnd
  <1> USE DEF PlacedAtTheEnd, Unplaced
  <1>1. ASSUME UNCHANGED <<status, create>> PROVE K
    BY <1>0, <1>1 DEF GoesBack
  <1>2. ASSUME NEW o \in Orders, NEW s, create' = [create EXCEPT ![o] = s], status' = status,
               create[o] \in {"idle", "reserving", "reserved"}
        PROVE  K
    BY <1>0, <1>2 DEF GoesBack
  <1>3. ASSUME NEW o \in Orders, NEW s \in {"answered", "in_doubt"},
               create' = [create EXCEPT ![o] = s], Journey!Place(o), create[o] = "reserved"
        PROVE  K
    BY <1>0, <1>3 DEF GoesBack, Journey!Place
  <1>4. ASSUME NEW o \in Orders, NEW to, Journey!Advance(o, to), create' = create
        PROVE  K
    <2>1. status[o] \notin {"none", "cancelled"} /\ status' = [status EXCEPT ![o] = to]
      BY <1>4 DEF Journey!Advance, Journey!CanTransition, Journey!AllowedTransitions,
                  Journey!OrderStatuses
    <2> QED
      BY <1>0, <1>4, <2>1 DEF GoesBack
  <1> HIDE DEF K
  <1>5. ASSUME NEW o \in Orders, StartCreate(o) \/ ReserveTimesOut(o) \/ PlaceOrderFails(o)
                                   \/ CreateDies(o)
        PROVE  K
    <2>1. status' = status
      BY <1>5 DEF StartCreate, ReserveTimesOut, PlaceOrderFails, CreateDies, orderVars
    <2>2. \/ create' = create
          \/ /\ create[o] \in {"idle", "reserving", "reserved"}
             /\ \E s : create' = [create EXCEPT ![o] = s]
      BY <1>5 DEF StartCreate, ReserveTimesOut, PlaceOrderFails, CreateDies
    <2> QED
      BY <1>1, <1>2, <2>1, <2>2
  <1>6. ASSUME NEW o \in Orders, PlaceOrder(o) \/ PlaceOrderInDoubt(o) PROVE K
    <2>1. Journey!Place(o) /\ create[o] = "reserved"
          /\ \E s \in {"answered", "in_doubt"} : create' = [create EXCEPT ![o] = s]
      BY <1>6 DEF PlaceOrder, PlaceOrderInDoubt
    <2> QED
      BY <1>3, <2>1
  <1>7. ASSUME NEW o \in Orders, Cancel(o) \/ \E to \in {"picking", "shipped", "delivered"} : Fulfil(o, to)
        PROVE  K
    <2>1. create' = create /\ \E to : Journey!Advance(o, to)
      BY <1>7 DEF Cancel, Fulfil, createVars
    <2> QED
      BY <1>4, <2>1
  <1>8. ASSUME NEW o \in Orders, NEW a \in Attempts, ServeReserve(o, a) \/ RefuseReserve(o, a)
        PROVE  K
    <2>1. /\ status' = status
          /\ \/ create' = create
             \/ create[o] = "reserving" /\ \E s : create' = [create EXCEPT ![o] = s]
      BY <1>8 DEF ServeReserve, RefuseReserve, Replies, Waiting, orderVars
    <2> QED
      BY <1>1, <1>2, <2>1
  <1>9. ASSUME NEW e \in Events, Handle(e) PROVE K
    <2>1. OrderOf[e[2]] \in Orders
      BY SagaAssumption DEF Events
    <2>2. create' = create /\ (status' = status \/ \E to : Journey!Advance(OrderOf[e[2]], to))
      BY <1>9 DEF Handle, createVars, orderVars
    <2> QED
      BY <1>1, <1>4, <2>1, <2>2
  <1>10. ASSUME \/ \E o \in Orders : ServeSettle(o)
                \/ \E c \in calls : LoseCall(c)
                \/ SweepOrLapse
                \/ \E p \in Payments, s \in Reported : PspReports(p, s) \/ Publish(p, s)
                \/ \E e \in Events : Republish(e) \/ HandleFails(e)
                \/ PollFetches \/ CommitOffsets \/ ConsumerDies
                \/ UNCHANGED sagaVars
         PROVE  K
    <2>1. UNCHANGED <<status, create>>
      BY <1>10 DEF ServeSettle, LoseCall, SweepOrLapse, PspReports, Publish, Republish,
                   HandleFails, PollFetches, CommitOffsets, ConsumerDies, orderVars, createVars,
                   sagaVars
    <2> QED
      BY <1>1, <2>1
  <1>11. K
    BY <1>5, <1>6, <1>7, <1>8, <1>9, <1>10 DEF SagaNext
  <1> QED
    BY <1>11 DEF K

\* A request to release is sent for a reason.
LEMMA ReleasesKeepReasons ==
  ASSUME GoodsInv, [SagaNext]_sagaVars
  PROVE  ReleasesHaveReasons'
PROOF
  <1> DEFINE New(o) == ReleaseCall(o) \in calls' /\ ReleaseCall(o) \notin calls => GoesBack(o)'
  <1> SUFFICES ASSUME NEW o \in Orders PROVE New(o)
    BY ReasonsStay DEF GoodsInv, ReleasesHaveReasons
  <1>0. status = [x \in Orders |-> status[x]] /\ create = [x \in Orders |-> create[x]]
    BY DEF GoodsInv
  <1>1. ASSUME calls' \subseteq calls PROVE New(o)
    BY <1>1
  <1>2. ASSUME NEW x \in Orders, calls' \subseteq calls \cup {ReleaseCall(x)}, GoesBack(x)'
        PROVE  New(o)
    BY <1>2 DEF ReleaseCall
  <1>3. ASSUME NEW c, calls' \subseteq calls \cup {c}, c[1] # "release" PROVE New(o)
    BY <1>3 DEF ReleaseCall
  <1> HIDE DEF New
  <1>4. ASSUME NEW x \in Orders, StartCreate(x) \/ ReserveTimesOut(x) PROVE New(o)
    <2>1. calls' = calls \/ \E a : calls' = calls \cup {ReserveCall(x, a)}
      BY <1>4 DEF StartCreate, ReserveTimesOut
    <2>2. \A a : ReserveCall(x, a)[1] # "release"
      BY DEF ReserveCall
    <2> QED
      BY <1>1, <1>3, <2>1, <2>2
  <1>5. ASSUME NEW x \in Orders, PlaceOrder(x) \/ CreateDies(x) \/ ServeSettle(x) PROVE New(o)
    <2>1. calls' \subseteq calls
      BY <1>5 DEF PlaceOrder, CreateDies, ServeSettle
    <2> QED
      BY <1>1, <2>1
  <1>6. ASSUME NEW x \in Orders, PlaceOrderFails(x) PROVE New(o)
    <2>1. create'[x] = "answered" /\ status' = status /\ calls' = calls \cup {ReleaseCall(x)}
      BY <1>0, <1>6 DEF PlaceOrderFails, orderVars
    <2>2. status[x] = "none"
      BY <1>6 DEF PlaceOrderFails, GoodsInv, PlacedAtTheEnd, Unplaced
    <2> QED
      BY <1>2, <2>1, <2>2 DEF GoesBack
  <1>7. ASSUME NEW x \in Orders, PlaceOrderInDoubt(x) PROVE New(o)
    <2>1. create'[x] = "in_doubt" /\ calls' = calls \cup {ReleaseCall(x)}
      BY <1>0, <1>7 DEF PlaceOrderInDoubt
    <2> QED
      BY <1>2, <2>1 DEF GoesBack
  <1>8. ASSUME NEW x \in Orders, Cancel(x) PROVE New(o)
    <2>1. status'[x] = "cancelled" /\ calls' = calls \cup {ReleaseCall(x)}
      BY <1>0, <1>8 DEF Cancel, Journey!Advance
    <2> QED
      BY <1>2, <2>1 DEF GoesBack
  <1>9. ASSUME NEW x \in Orders, NEW to, Fulfil(x, to) PROVE New(o)
    BY <1>1, <1>9 DEF Fulfil
  <1>10. ASSUME NEW x \in Orders, NEW a \in Attempts, ServeReserve(x, a) \/ RefuseReserve(x, a)
         PROVE  New(o)
    <2>1. calls' \subseteq calls
      BY <1>10 DEF ServeReserve, RefuseReserve
    <2> QED
      BY <1>1, <2>1
  <1>11. ASSUME NEW e \in Events, Handle(e) PROVE New(o)
    <2> DEFINE x == OrderOf[e[2]]
               target == TargetStatus(e[1])
    <2>1. x \in Orders
      BY SagaAssumption DEF Events
    <2>2. \/ calls' = calls
          \/ target = "paid" /\ calls' = calls \cup {CommitCall(x)}
          \/ /\ target = "cancelled" /\ calls' = calls \cup {ReleaseCall(x)}
             /\ Journey!Advance(x, "cancelled")
      BY <1>11 DEF Handle, TargetStatus
    <2>3. Journey!Advance(x, "cancelled") => status'[x] = "cancelled"
      BY <1>0, <2>1 DEF Journey!Advance
    <2>4. CommitCall(x)[1] # "release"
      BY DEF CommitCall
    <2> HIDE DEF x
    <2> QED
      BY <1>1, <1>2, <1>3, <2>1, <2>2, <2>3, <2>4 DEF GoesBack
  <1>12. ASSUME \/ \E c \in calls : LoseCall(c)
                \/ SweepOrLapse
                \/ \E p \in Payments, s \in Reported : PspReports(p, s) \/ Publish(p, s)
                \/ \E e \in Events : Republish(e) \/ HandleFails(e)
                \/ PollFetches \/ CommitOffsets \/ ConsumerDies
                \/ UNCHANGED sagaVars
         PROVE  New(o)
    <2>1. calls' \subseteq calls
      BY <1>12 DEF LoseCall, SweepOrLapse, PspReports, Publish, Republish, HandleFails,
                   PollFetches, CommitOffsets, ConsumerDies, sagaVars
    <2> QED
      BY <1>1, <2>1
  <1> QED
    BY <1>4, <1>5, <1>6, <1>7, <1>8, <1>9, <1>10, <1>11, <1>12 DEF SagaNext

\* Units go back on such a request, or because their reservation has lapsed.
LEMMA ReleasedKeepReasons ==
  ASSUME GoodsInv, [SagaNext]_sagaVars
  PROVE  reservation' = [r \in Rows |-> reservation'[r]] /\ ReleasedHaveReasons'
PROOF
  <1> DEFINE R == \A r \in Rows : reservation'[r] = "released" =>
                    reservation[r] = "released" \/ GoesBack(r[1]) \/ <<r[1], r[3]>> \in lapsed
             F == reservation' = [r \in Rows |-> reservation'[r]]
             L == lapsed \subseteq lapsed'
  <1>0. reservation = [r \in Rows |-> reservation[r]]
    BY DEF GoodsInv
  <1>1. ASSUME UNCHANGED vars PROVE R /\ F /\ L
    BY <1>0, <1>1 DEF vars
  <1>2. ASSUME NEW o \in Orders, ServeSettle(o) PROVE R /\ F /\ L
    <2>1. CASE CommitCall(o) \in calls /\ Commit(o, ActiveRows(o))
      BY <2>1 DEF Commit, SettleRows
    <2>2. CASE ReleaseCall(o) \in calls /\ Release(o, ActiveRows(o))
      <3>1. GoesBack(o)
        BY <2>2 DEF GoodsInv, ReleasesHaveReasons
      <3>2. /\ reservation' = [r \in Rows |-> IF r \in ActiveRows(o) THEN "released"
                                               ELSE reservation[r]]
            /\ lapsed' = lapsed
        BY <2>2 DEF Release, SettleRows
      <3>3. \A r \in ActiveRows(o) : r[1] = o
        BY DEF ActiveRows
      <3> QED
        BY <3>1, <3>2, <3>3
    <2> QED
      BY <1>2, <2>1, <2>2 DEF ServeSettle
  <1>3. ASSUME NEW o \in Orders, NEW a \in Attempts, ServeReserve(o, a) PROVE R /\ F /\ L
    BY <1>3 DEF ServeReserve, Reserve
  <1>4. ASSUME NEW S \in SUBSET LapsedRows, Sweep(S) PROVE R /\ F /\ L
    BY <1>4 DEF Sweep, SettleRows, LapsedRows
  <1>5. ASSUME NEW o \in Orders, NEW a \in Attempts, Lapse(o, a) PROVE R /\ F /\ L
    BY <1>0, <1>5 DEF Lapse
  <1>6. \/ UNCHANGED vars
        \/ \E o \in Orders : ServeSettle(o) \/ \E a \in Attempts : ServeReserve(o, a)
        \/ \E S \in SUBSET LapsedRows : Sweep(S)
        \/ \E o \in Orders, a \in Attempts : Lapse(o, a)
    <2>1. ASSUME NEW o \in Orders,
                 \/ StartCreate(o) \/ ReserveTimesOut(o) \/ PlaceOrder(o) \/ PlaceOrderFails(o)
                 \/ PlaceOrderInDoubt(o) \/ CreateDies(o) \/ Cancel(o)
                 \/ \E to \in {"picking", "shipped", "delivered"} : Fulfil(o, to)
                 \/ \E a \in Attempts : RefuseReserve(o, a)
          PROVE  UNCHANGED vars
      BY <2>1 DEF StartCreate, ReserveTimesOut, PlaceOrder, PlaceOrderFails, PlaceOrderInDoubt,
                  CreateDies, Cancel, Fulfil, RefuseReserve
    <2>2. ASSUME \/ \E c \in calls : LoseCall(c)
                 \/ \E p \in Payments, s \in Reported : PspReports(p, s) \/ Publish(p, s)
                 \/ \E e \in Events : Republish(e) \/ Handle(e) \/ HandleFails(e)
                 \/ PollFetches \/ CommitOffsets \/ ConsumerDies
                 \/ UNCHANGED sagaVars
          PROVE  UNCHANGED vars
      BY <2>2 DEF LoseCall, PspReports, Publish, Republish, Handle, HandleFails, PollFetches,
                  CommitOffsets, ConsumerDies, sagaVars
    <2> QED
      BY <2>1, <2>2 DEF SagaNext, SweepOrLapse
  <1> HIDE DEF R, F, L
  <1>7. R /\ F /\ L
    BY <1>1, <1>2, <1>3, <1>4, <1>5, <1>6
  <1>8. \A r \in Rows : r[1] \in Orders
    BY DEF Rows
  <1>9. ReleasedHaveReasons'
    BY <1>7, <1>8, ReasonsStay DEF R, L, GoodsInv, ReleasedHaveReasons
  <1> QED
    BY <1>7, <1>9 DEF F

\* Every step of the saga keeps the invariant.
LEMMA GoodsInvAlways == SagaSpec => []GoodsInv
PROOF
  <1>1. SagaInit => GoodsInv
    BY DEF SagaInit, Init, Journey!JourneyInit, GoodsInv, PlacedAtTheEnd, ReleasesHaveReasons,
           ReleasedHaveReasons
  <1>2. GoodsInv /\ [SagaNext]_sagaVars => GoodsInv'
    BY ReasonsStay, ReleasesKeepReasons, ReleasedKeepReasons DEF GoodsInv
  <1> QED
    BY <1>1, <1>2, PTL DEF SagaSpec

\* Nobody gives back the units of a paid order that lives, but the sweeper once their
\* reservation has expired and a checkout whose COMMIT was in doubt: neither a late or repeated
\* Release nor an event the order does not follow (order.go Create, fulfillment.go,
\* consumer/payment.go Handle).
THEOREM PaidGoodsAreKept == SagaSpec => []PaidOrderKeepsItsGoods
PROOF
  <1>1. GoodsInv /\ Orderly!JourneyInv => PaidOrderKeepsItsGoods
    <2> SUFFICES ASSUME GoodsInv, Orderly!JourneyInv, NEW r \in Rows,
                        reservation[r] = "released", WasPaid(r[1])
                 PROVE  \/ status[r[1]] = "cancelled" \/ <<r[1], r[3]>> \in lapsed
                        \/ create[r[1]] = "in_doubt"
      BY DEF PaidOrderKeepsItsGoods
    <2>1. r[1] \in Orders
      BY DEF Rows
    <2>2. status[r[1]] # "none"
      <3>1. /\ status[r[1]] = "none" => timeline[r[1]] = <<>>
            /\ stamps[r[1]] = UNION {Orderly!TimestampColumn(timeline[r[1]][i]) :
                                        i \in 1..Len(timeline[r[1]])}
        BY <2>1 DEF Orderly!JourneyInv, Orderly!TimelineIsPath, Orderly!StampsTellTheTimeline
      <3>2. timeline[r[1]] = <<>> => 1..Len(timeline[r[1]]) = {}
        OBVIOUS
      <3>3. stamps[r[1]] # {}
        BY DEF WasPaid
      <3> HIDE DEF Orderly!TimestampColumn
      <3> QED
        BY <3>1, <3>2, <3>3
    <2> QED
      BY <2>1, <2>2 DEF GoodsInv, ReleasedHaveReasons, GoesBack
  <1> QED
    BY <1>1, GoodsInvAlways, SagaKeepsJourneyInv, PTL

-----------------------------------------------------------------------------
(* Types *)

\* The parts of the saga's type that belong to no module it is made of.
RequestTypes ==
    /\ create \in [Orders -> {"idle", "reserving", "reserved", "in_doubt", "answered"}]
    /\ tries \in [Orders -> {0} \cup Attempts]
    /\ calls \subseteq {"reserve", "commit", "release"} \X Orders \X Attempts
EventTypes ==
    /\ was \in [Payments -> SUBSET Reported] /\ log \subseteq Events
    /\ record \in [Events -> {"none", "queued", "fetched", "handled", "refused", "committed"}]
    /\ processed \subseteq log
FaultTypes == faults \in 0..MaxFaults /\ handleErrors \in 0..faults

\* The calls to the catalog are among those there are.
LEMMA CallTypes ==
  ASSUME NEW o \in Orders
  PROVE  /\ 1 \in Attempts
         /\ CommitCall(o) \in {"reserve", "commit", "release"} \X Orders \X Attempts
         /\ ReleaseCall(o) \in {"reserve", "commit", "release"} \X Orders \X Attempts
         /\ \A a \in Attempts :
              ReserveCall(o, a) \in {"reserve", "commit", "release"} \X Orders \X Attempts
PROOF
  <1>1. 1 \in Attempts
    BY SagaAssumption
  <1> QED
    BY <1>1 DEF CommitCall, ReleaseCall, ReserveCall

\* The steps of the requests keep the types of their variables.
LEMMA RequestsKeepTypes == RequestTypes /\ [SagaNext]_sagaVars => RequestTypes'
PROOF
  <1> SUFFICES ASSUME RequestTypes, [SagaNext]_sagaVars PROVE RequestTypes'
    OBVIOUS
  <1> USE DEF RequestTypes
  <1>1. ASSUME NEW o \in Orders, StartCreate(o) PROVE RequestTypes'
    BY <1>1, CallTypes DEF StartCreate
  <1>2. ASSUME NEW o \in Orders, ReserveTimesOut(o) PROVE RequestTypes'
    <2>1. CASE tries[o] + 1 \in Attempts
      BY <1>2, <2>1, CallTypes DEF ReserveTimesOut
    <2>2. CASE tries[o] + 1 \notin Attempts
      BY <1>2, <2>2 DEF ReserveTimesOut
    <2> QED
      BY <2>1, <2>2
  <1>3. ASSUME NEW o \in Orders, PlaceOrder(o) \/ CreateDies(o) PROVE RequestTypes'
    BY <1>3 DEF PlaceOrder, CreateDies
  <1>4. ASSUME NEW o \in Orders, PlaceOrderFails(o) PROVE RequestTypes'
    BY <1>4, CallTypes DEF PlaceOrderFails
  <1>5. ASSUME NEW o \in Orders, PlaceOrderInDoubt(o) PROVE RequestTypes'
    BY <1>5, CallTypes DEF PlaceOrderInDoubt
  <1>6. ASSUME NEW o \in Orders, Cancel(o) PROVE RequestTypes'
    BY <1>6, CallTypes DEF Cancel, createVars
  <1>7. ASSUME NEW o \in Orders, NEW a \in Attempts, ServeReserve(o, a) \/ RefuseReserve(o, a)
        PROVE  RequestTypes'
    <2>1. /\ calls' \subseteq calls /\ tries' = tries
          /\ \/ create' = create
             \/ \E s \in {"reserved", "answered"} : create' = [create EXCEPT ![o] = s]
      BY <1>7 DEF ServeReserve, RefuseReserve, Replies
    <2> QED
      BY <2>1
  <1>8. ASSUME NEW e \in Events, Handle(e) PROVE RequestTypes'
    <2>1. OrderOf[e[2]] \in Orders
      BY SagaAssumption DEF Events
    <2>2. UNCHANGED createVars
          /\ calls' \subseteq calls \cup {CommitCall(OrderOf[e[2]]), ReleaseCall(OrderOf[e[2]])}
      BY <1>8 DEF Handle
    <2> QED
      BY <2>1, <2>2, CallTypes DEF createVars
  <1>9. ASSUME UNCHANGED createVars, calls' \subseteq calls PROVE RequestTypes'
    BY <1>9 DEF createVars
  <1>10. ASSUME \/ \E o \in Orders, to \in {"picking", "shipped", "delivered"} : Fulfil(o, to)
                \/ \E o \in Orders : ServeSettle(o)
                \/ \E c \in calls : LoseCall(c)
                \/ SweepOrLapse
                \/ \E p \in Payments, s \in Reported : PspReports(p, s) \/ Publish(p, s)
                \/ \E e \in Events : Republish(e) \/ HandleFails(e)
                \/ PollFetches \/ CommitOffsets \/ ConsumerDies
                \/ UNCHANGED sagaVars
         PROVE  UNCHANGED createVars /\ calls' \subseteq calls
    BY <1>10 DEF Fulfil, ServeSettle, LoseCall, SweepOrLapse, PspReports, Publish, Republish,
                 HandleFails, PollFetches, CommitOffsets, ConsumerDies, sagaVars
  <1> HIDE DEF RequestTypes
  <1> QED
    BY <1>1, <1>2, <1>3, <1>4, <1>5, <1>6, <1>7, <1>8, <1>9, <1>10 DEF SagaNext

\* So do the steps of the events and of the sweepers.
LEMMA EventsKeepTypes ==
  ASSUME EventTypes, RecordsWerePublished, [SagaNext]_sagaVars
  PROVE  EventTypes'
PROOF
  <1> USE DEF EventTypes
  <1>1. ASSUME NEW p \in Payments, NEW s \in Reported, PspReports(p, s) PROVE EventTypes'
    BY <1>1 DEF PspReports, Becomes
  <1>2. ASSUME NEW p \in Payments, NEW s \in Reported, Publish(p, s) PROVE EventTypes'
    <2> DEFINE e == <<TopicOf(MapPSPStatus[s]), p>>
    <2>1. TopicOf(MapPSPStatus[s]) \in Topics
      BY DEF TopicOf, Topics
    <2>2. e \in Events
      BY <2>1 DEF Events
    <2>3. /\ log' = log \cup {e} /\ record' = [record EXCEPT ![e] = "queued"] /\ was' = was
          /\ processed' = processed
      BY <1>2 DEF Publish, Announce
    <2> HIDE DEF e
    <2> QED
      BY <2>2, <2>3
  <1>3. ASSUME NEW e \in Events, Republish(e) \/ HandleFails(e) PROVE EventTypes'
    BY <1>3 DEF Republish, HandleFails, payments
  <1>4. ASSUME NEW e \in Events, Handle(e) PROVE EventTypes'
    <2>1. e \in log
      BY <1>4 DEF Handle, RecordsWerePublished
    <2> QED
      BY <1>4, <2>1 DEF Handle, payments
  <1>5. CASE PollFetches \/ CommitOffsets \/ ConsumerDies
    <2>1. \E B : \E s \in {"fetched", "committed", "queued"} :
             record' = [e \in Events |-> IF e \in B THEN s ELSE record[e]]
      BY <1>5 DEF PollFetches, CommitOffsets, ConsumerDies
    <2>2. UNCHANGED <<was, log, processed>>
      BY <1>5 DEF PollFetches, CommitOffsets, ConsumerDies, payments
    <2> QED
      BY <2>1, <2>2
  <1>6. ASSUME \/ \E o \in Orders :
                    \/ StartCreate(o) \/ ReserveTimesOut(o) \/ PlaceOrder(o)
                    \/ PlaceOrderFails(o) \/ PlaceOrderInDoubt(o) \/ CreateDies(o)
                    \/ Cancel(o) \/ ServeSettle(o)
                    \/ \E to \in {"picking", "shipped", "delivered"} : Fulfil(o, to)
                    \/ \E a \in Attempts : ServeReserve(o, a) \/ RefuseReserve(o, a)
               \/ \E c \in calls : LoseCall(c)
               \/ SweepOrLapse
               \/ UNCHANGED sagaVars
        PROVE  UNCHANGED <<was, log, record, processed>>
    BY <1>6 DEF StartCreate, ReserveTimesOut, PlaceOrder, PlaceOrderFails, PlaceOrderInDoubt,
                CreateDies, Cancel, ServeSettle, Fulfil, ServeReserve, RefuseReserve, LoseCall,
                SweepOrLapse, sagaVars, payments
  <1>7. ASSUME UNCHANGED <<was, log, record, processed>> PROVE EventTypes'
    BY <1>7
  <1> HIDE DEF EventTypes
  <1> QED
    BY <1>1, <1>2, <1>3, <1>4, <1>5, <1>6, <1>7 DEF SagaNext

\* And those that count what may still go wrong.
LEMMA FaultsKeepTypes == FaultTypes /\ [SagaNext]_sagaVars => FaultTypes'
PROOF
  <1> SUFFICES ASSUME FaultTypes, [SagaNext]_sagaVars PROVE FaultTypes'
    OBVIOUS
  <1>1. ASSUME NEW e \in Events, HandleFails(e) PROVE FaultTypes'
    BY <1>1, SagaAssumption DEF HandleFails, Fault, FaultTypes
  <1>2. ASSUME Fault \/ NoFault, handleErrors' = handleErrors PROVE FaultTypes'
    BY <1>2, SagaAssumption DEF Fault, NoFault, FaultTypes
  <1>3. ASSUME NEW o \in Orders,
               \/ StartCreate(o) \/ ReserveTimesOut(o) \/ PlaceOrder(o) \/ PlaceOrderFails(o)
               \/ PlaceOrderInDoubt(o) \/ CreateDies(o) \/ Cancel(o) \/ ServeSettle(o)
               \/ \E to \in {"picking", "shipped", "delivered"} : Fulfil(o, to)
        PROVE  (Fault \/ NoFault) /\ handleErrors' = handleErrors
    BY <1>3 DEF StartCreate, ReserveTimesOut, PlaceOrder, PlaceOrderFails, PlaceOrderInDoubt,
                CreateDies, Cancel, ServeSettle, Fulfil, NoFault
  <1>4. ASSUME NEW o \in Orders, NEW a \in Attempts, ServeReserve(o, a) \/ RefuseReserve(o, a)
        PROVE  (Fault \/ NoFault) /\ handleErrors' = handleErrors
    BY <1>4 DEF ServeReserve, RefuseReserve, Replies
  <1>5. ASSUME \/ \E c \in calls : LoseCall(c)
               \/ SweepOrLapse
               \/ \E p \in Payments, s \in Reported : PspReports(p, s) \/ Publish(p, s)
               \/ \E e \in Events : Republish(e) \/ Handle(e)
               \/ PollFetches \/ CommitOffsets \/ ConsumerDies
               \/ UNCHANGED sagaVars
        PROVE  (Fault \/ NoFault) /\ handleErrors' = handleErrors
    BY <1>5 DEF LoseCall, SweepOrLapse, PspReports, Publish, Republish, Handle, PollFetches,
                CommitOffsets, ConsumerDies, sagaVars, NoFault
  <1> QED
    BY <1>1, <1>2, <1>3, <1>4, <1>5 DEF SagaNext

\* Every variable of the saga holds a value of its kind, at any bound of faults; no request or
\* event is processed that was not sent or published.
THEOREM SagaTypes == SagaSpec => []SagaTypeOK
PROOF
  <1> DEFINE T == RequestTypes /\ EventTypes /\ FaultTypes
  <1>1. SagaInit => T
    BY SagaAssumption DEF SagaInit, EventsInit, RequestTypes, EventTypes, FaultTypes
  <1>2. T /\ SagaInv /\ [SagaNext]_sagaVars => T'
    BY RequestsKeepTypes, EventsKeepTypes, FaultsKeepTypes DEF SagaInv
  <1>3. T /\ Inv /\ Orderly!JourneyInv => SagaTypeOK
    BY DEF RequestTypes, EventTypes, FaultTypes, Inv, Orderly!JourneyInv,
           Orderly!JourneyTypeOK, Orderly!OrderStatuses, Orderly!TimestampColumn,
           Journey!JourneyTypeOK, Journey!OrderStatuses, Journey!TimestampColumn, SagaTypeOK
  <1> HIDE DEF T
  <1> QED
    BY <1>1, <1>2, <1>3, SagaInvAlways, SagaKeepsStockInv, SagaKeepsJourneyInv, PTL DEF SagaSpec
=============================================================================
