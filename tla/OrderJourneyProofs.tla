--------------------------- MODULE OrderJourneyProofs ---------------------------
(***************************************************************************)
(* Theorems about OrderJourney, for every set of orders and however long   *)
(* they live: what the customer reads in the timeline of an order is a     *)
(* path of the state machine, the timestamps agree with it, and a parcel   *)
(* on its way is never cancelled.                                          *)
(*                                                                         *)
(* The inductive invariant is the conjunction of the three invariants:     *)
(* that the last tracking event is orders.status is what makes the next    *)
(* one a legal successor of it, and the timestamps speak of the same       *)
(* timeline.                                                               *)
(***************************************************************************)
EXTENDS OrderJourney, TLAPS

JourneyInv == JourneyTypeOK /\ TimelineIsPath /\ StampsTellTheTimeline

\* The timestamps a status stands for are among those a status may stand for.
LEMMA ColumnType ==
  \A s \in OrderStatuses :
      TimestampColumn(s) \in SUBSET UNION {TimestampColumn(t) : t \in OrderStatuses}
  OBVIOUS

\* What a timeline of one more event looks like.
LEMMA Extended ==
  ASSUME NEW t \in Seq(OrderStatuses), NEW s \in OrderStatuses
  PROVE  /\ Append(t, s) \in Seq(OrderStatuses)
         /\ Len(Append(t, s)) = Len(t) + 1
         /\ Append(t, s)[Len(t) + 1] = s
         /\ \A i \in 1..Len(t) : Append(t, s)[i] = t[i]
         /\ Append(t, s) # <<>>
  OBVIOUS

\* No order exists at first.
LEMMA InitInv == JourneyInit => JourneyInv
  BY DEF JourneyInit, JourneyInv, JourneyTypeOK, TimelineIsPath, StampsTellTheTimeline

\* The INSERT of a checkout starts a timeline of one event, which has no timestamp.
LEMMA PlaceInv ==
  ASSUME JourneyInv, NEW o \in Orders, Place(o)
  PROVE  JourneyInv'
PROOF
  <1> USE DEF JourneyInv
  <1>1. "pending_payment" \in OrderStatuses
    BY DEF OrderStatuses
  <1>2. TimestampColumn("pending_payment") = {}
    BY DEF TimestampColumn
  <1>3. stamps[o] = {}
    BY DEF Place, TimelineIsPath, StampsTellTheTimeline, JourneyTypeOK
  <1>4. JourneyTypeOK'
    BY <1>1 DEF Place, JourneyTypeOK
  <1>5. TimelineIsPath'
    BY DEF Place, JourneyTypeOK, TimelineIsPath
  <1>6. StampsTellTheTimeline'
    BY <1>2, <1>3 DEF Place, JourneyTypeOK, StampsTellTheTimeline
  <1> QED
    BY <1>4, <1>5, <1>6

\* fulfillment.Advance appends an event the table allows after the last one, and fills the
\* timestamp of that event and no other.
LEMMA AdvanceInv ==
  ASSUME JourneyInv, NEW o \in Orders, NEW to \in OrderStatuses, Advance(o, to)
  PROVE  JourneyInv'
PROOF
  <1> USE DEF JourneyInv
  <1> DEFINE old == timeline[o]
             new == Append(old, to)
  <1>1. old \in Seq(OrderStatuses) /\ status[o] \in OrderStatuses /\ status[o] # "none"
    BY DEF JourneyTypeOK, Advance, CanTransition, OrderStatuses
  <1>2. /\ new \in Seq(OrderStatuses) /\ new # <<>>
        /\ Len(new) = Len(old) + 1 /\ new[Len(old) + 1] = to
        /\ \A i \in 1..Len(old) : new[i] = old[i]
    BY <1>1, Extended
  <1>3. /\ old # <<>> /\ old[1] = "pending_payment" /\ old[Len(old)] = status[o]
        /\ \A i \in 1..Len(old) - 1 : CanTransition(old[i], old[i + 1])
    BY <1>1 DEF TimelineIsPath
  <1>4. Len(old) \in Nat \ {0}
    BY <1>1, <1>3
  <1>5. to # "none"
    BY DEF OrderStatuses
  <1>6. /\ timeline' = [timeline EXCEPT ![o] = new]
        /\ status' = [status EXCEPT ![o] = to]
        /\ stamps' = [stamps EXCEPT ![o] = @ \cup TimestampColumn(to)]
        /\ CanTransition(status[o], to)
    BY DEF Advance
  <1>7. JourneyTypeOK'
    <2>1. stamps' \in [Orders -> SUBSET UNION {TimestampColumn(t) : t \in OrderStatuses}]
      BY <1>6, ColumnType DEF JourneyTypeOK
    <2> QED
      BY <1>2, <1>6, <2>1 DEF JourneyTypeOK
  <1>8. TimelineIsPath'
    <2>1. \A i \in 1..Len(new) - 1 : CanTransition(new[i], new[i + 1])
      <3> SUFFICES ASSUME NEW i \in 1..Len(new) - 1
                   PROVE  CanTransition(new[i], new[i + 1])
        OBVIOUS
      <3>1. CASE i = Len(old)
        BY <3>1, <1>2, <1>3, <1>4, <1>6
      <3>2. CASE i # Len(old)
        <4>1. i \in 1..Len(old) - 1 /\ i \in 1..Len(old) /\ i + 1 \in 1..Len(old)
          BY <3>2, <1>2, <1>4
        <4> QED
          BY <4>1, <1>2, <1>3
      <3> QED
        BY <3>1, <3>2
    <2>2. new[1] = "pending_payment" /\ new[Len(new)] = to
      BY <1>2, <1>3, <1>4
    <2> HIDE DEF old, new
    <2>3. ASSUME NEW x \in Orders
          PROVE  /\ status'[x] = "none" <=> timeline'[x] = <<>>
                 /\ status'[x] # "none" =>
                      /\ timeline'[x][1] = "pending_payment"
                      /\ timeline'[x][Len(timeline'[x])] = status'[x]
                      /\ \A i \in 1..Len(timeline'[x]) - 1 :
                           CanTransition(timeline'[x][i], timeline'[x][i + 1])
      <3>1. CASE x = o
        <4>1. timeline'[x] = new /\ status'[x] = to
          BY <3>1, <1>6 DEF JourneyTypeOK
        <4> QED
          BY <4>1, <2>1, <2>2, <1>2, <1>5
      <3>2. CASE x # o
        <4>1. timeline'[x] = timeline[x] /\ status'[x] = status[x]
          BY <3>2, <1>6 DEF JourneyTypeOK
        <4> QED
          BY <4>1 DEF TimelineIsPath
      <3> QED
        BY <3>1, <3>2
    <2> QED
      BY <2>3 DEF TimelineIsPath
  <1>9. StampsTellTheTimeline'
    <2>1. stamps[o] = UNION {TimestampColumn(old[i]) : i \in 1..Len(old)}
      BY DEF StampsTellTheTimeline
    <2>2. 1..Len(new) = (1..Len(old)) \cup {Len(old) + 1}
      BY <1>2, <1>4
    <2>3. UNION {TimestampColumn(new[i]) : i \in 1..Len(new)}
            = (UNION {TimestampColumn(old[i]) : i \in 1..Len(old)}) \cup TimestampColumn(to)
      <3> HIDE DEF old, new
      <3> QED
        BY <2>2, <1>2
    <2> HIDE DEF old, new
    <2>4. ASSUME NEW x \in Orders
          PROVE  stamps'[x]
                   = UNION {TimestampColumn(timeline'[x][i]) : i \in 1..Len(timeline'[x])}
      <3>1. CASE x = o
        <4>1. timeline'[x] = new /\ stamps'[x] = stamps[o] \cup TimestampColumn(to)
          BY <3>1, <1>6 DEF JourneyTypeOK
        <4> QED
          BY <4>1, <2>1, <2>3
      <3>2. CASE x # o
        <4>1. timeline'[x] = timeline[x] /\ stamps'[x] = stamps[x]
          BY <3>2, <1>6 DEF JourneyTypeOK
        <4> QED
          BY <4>1 DEF StampsTellTheTimeline
      <3> QED
        BY <3>1, <3>2
    <2> QED
      BY <2>4 DEF StampsTellTheTimeline
  <1> QED
    BY <1>7, <1>8, <1>9

\* Both ways of changing an order keep its timeline and timestamps in order.
LEMMA NextInv == JourneyInv /\ [JourneyNext]_journey => JourneyInv'
PROOF
  <1> SUFFICES ASSUME JourneyInv, [JourneyNext]_journey
               PROVE  JourneyInv'
    OBVIOUS
  <1>1. ASSUME NEW o \in Orders, Place(o)
        PROVE  JourneyInv'
    BY <1>1, PlaceInv
  <1>2. ASSUME NEW o \in Orders, NEW to \in OrderStatuses, Advance(o, to)
        PROVE  JourneyInv'
    BY <1>2, AdvanceInv
  <1>3. CASE UNCHANGED journey
    BY <1>3 DEF journey, JourneyInv, JourneyTypeOK, TimelineIsPath, StampsTellTheTimeline
  <1> QED
    BY <1>1, <1>2, <1>3 DEF JourneyNext

\* Everything the journey of an order is about, in every reachable state.
LEMMA InvAlways == JourneySpec => []JourneyInv
  BY InitInv, NextInv, PTL DEF JourneySpec

-----------------------------------------------------------------------------
\* The tracking events of an order start at pending_payment, follow the table of
\* transitions and end at its status, however many times the order is advanced
\* (fulfillment.Advance, model/transition.go).
THEOREM TimelineAlwaysAPath == JourneySpec => []TimelineIsPath
  BY InvAlways, PTL DEF JourneyInv

\* An order has exactly the timestamps of the statuses it went through (TimestampColumn).
THEOREM StampsAlwaysAgree == JourneySpec => []StampsTellTheTimeline
  BY InvAlways, PTL DEF JourneyInv

\* What a step may not do to an order that was shipped.
NotCancelledNow ==
    \A o \in Orders : status[o] \in {"shipped", "delivered"} => status'[o] # "cancelled"

\* The table has no way from shipped or delivered to cancelled, and Advance asks it.
LEMMA DispatchIsFinal == JourneyInv /\ [JourneyNext]_journey => [NotCancelledNow]_journey
PROOF
  <1> SUFFICES ASSUME JourneyInv, JourneyNext,
                      NEW x \in Orders, status[x] \in {"shipped", "delivered"}
               PROVE  status'[x] # "cancelled"
    BY DEF NotCancelledNow
  <1>1. ASSUME NEW o \in Orders, Place(o)
        PROVE  status'[x] # "cancelled"
    BY <1>1 DEF Place, JourneyInv, JourneyTypeOK
  <1>2. ASSUME NEW o \in Orders, NEW to \in OrderStatuses, Advance(o, to)
        PROVE  status'[x] # "cancelled"
    <2>1. CASE o = x
      <3>1. "cancelled" \notin AllowedTransitions[status[x]]
        BY DEF AllowedTransitions
      <3> QED
        BY <1>2, <2>1, <3>1 DEF Advance, CanTransition, JourneyInv, JourneyTypeOK
    <2>2. CASE o # x
      BY <1>2, <2>2 DEF Advance, JourneyInv, JourneyTypeOK
    <2> QED
      BY <2>1, <2>2
  <1> QED
    BY <1>1, <1>2 DEF JourneyNext

\* No order is cancelled once it has been shipped (the business rule in model/transition.go).
THEOREM NeverCancelledAfterDispatch == JourneySpec => NoCancelAfterDispatch
  BY DispatchIsFinal, InvAlways, PTL DEF JourneySpec, NoCancelAfterDispatch, NotCancelledNow
=============================================================================
