------------------------------- MODULE Reviews -------------------------------
(* The reviews of one product (handler/review.go, internal/review, migration    *)
(* 015). A trigger keeps the product's score: after the row is written it counts *)
(* the published rows and then updates the product, in two statements of the     *)
(* same transaction, so under READ COMMITTED what it counted may be old by the   *)
(* time the product's row is free.                                              *)
EXTENDS Integers, FiniteSets, Sums

CONSTANTS Authors, ReviewHands,  \* who writes, and the requests being handled
          ReviewedProduct,       \* the product
          Grants,                \* purchase grants: user, product, order, valid
          CommittedRows,         \* stock_reservations committed: order and product
          Ratings, MaxReviewWrites

ASSUME ReviewsAssumption ==
    /\ IsFiniteSet(Authors)
    /\ \A g \in Grants : g.valid \in BOOLEAN
    /\ Ratings \subseteq 1..5 /\ MaxReviewWrites \in Nat

VARIABLES review,   \* table product_reviews, by author
          score,    \* products.review_count, and the sum its rating comes from
          hand,     \* the writes under way
          reader,   \* the public page being read
          reviewRaced,  \* the score was last written by a write another one overtook
          moderated, \* entries of the audit trail about moderation
          reviewWrites

reviewVars == <<review, score, hand, reader, reviewRaced, moderated, reviewWrites>>

NoReview == [rating |-> 0, status |-> "none"]
FreeHand == [step |-> "idle"]
Away == [step |-> "away"]
ReviewInit ==
    /\ review = [a \in Authors |-> NoReview] /\ score = [count |-> 0, sum |-> 0]
    /\ hand = [h \in ReviewHands |-> FreeHand] /\ reader = Away
    /\ reviewRaced = FALSE /\ moderated = 0 /\ reviewWrites = 0
-----------------------------------------------------------------------------
(* Classify: a link, an address, a telephone number, shouting and repetition go *)
(* to the queue; stars without a text and any other text are public at once.    *)
Classify(text) == IF text = "flagged" THEN "pending" ELSE "published"
(* Both proofs of a purchase: the grant order-service signed, for this author    *)
(* and this product, and the reservation of its order, committed here.          *)
VerifiedPurchase(a, g) == /\ g.valid /\ g.user = a /\ g.product = ReviewedProduct
                          /\ <<g.order, ReviewedProduct>> \in CommittedRows

Published(rows) == {a \in Authors : rows[a].status = "published"}
Tally(rows) == [count |-> Cardinality(Published(rows)),
                sum |-> SumOver([a \in Authors |-> rows[a].rating], Published(rows))]
(* The row is locked until its writer commits; the unique index makes a second  *)
(* insert of one author wait as well.                                           *)
FreeRow(a) == \A h \in ReviewHands : hand[h].step = "wrote" => hand[h].author # a

(* The row is written and the trigger has counted once. *)
WriteReview(h, op, a, row) ==
    /\ hand[h].step = "idle" /\ FreeRow(a)
    /\ reviewWrites < MaxReviewWrites /\ reviewWrites' = reviewWrites + 1
    /\ hand' = [hand EXCEPT ![h] = [step |-> "wrote", op |-> op, author |-> a, row |-> row,
                                    seen |-> Tally([review EXCEPT ![a] = row]),
                                    missed |-> FALSE]]
    /\ UNCHANGED <<review, score, reader, reviewRaced, moderated>>
CreateReview(h, a, g, rating, text) ==
    /\ VerifiedPurchase(a, g) /\ review[a] = NoReview
    /\ WriteReview(h, "insert", a, [rating |-> rating, status |-> Classify(text)])
(* UpdateMine: the new text goes through the same sieve, whatever a moderator   *)
(* said of the old one.                                                         *)
UpdateMine(h, a, rating, text) ==
    /\ review[a] # NoReview
    /\ WriteReview(h, "edit", a, [rating |-> rating, status |-> Classify(text)])
DeleteMine(h, a) == review[a] # NoReview /\ WriteReview(h, "delete", a, NoReview)
Moderate(h, a, status) ==
    /\ review[a] # NoReview
    /\ WriteReview(h, "moderate", a, [review[a] EXCEPT !.status = status])

\* Mutant: the trigger recalculates once whatever the operation.
NeverLooksAgain(op) == FALSE
(* After an UPDATE the trigger recalculates for the old and for the new product: *)
(* the second time it holds the product's row and sees every commit before it.  *)
LooksAgain(op) == op \in {"edit", "moderate"}

(* The product's row is written and the transaction commits. *)
SaveReview(h) ==
    /\ hand[h].step = "wrote"
    /\ LET w == hand[h]
           rows == [review EXCEPT ![w.author] = w.row]
       IN /\ review' = rows
          /\ score' = IF LooksAgain(w.op) THEN Tally(rows) ELSE w.seen
          /\ reviewRaced' = (w.missed /\ w.op \in {"insert", "delete"})
          /\ hand' = [k \in ReviewHands |->
                        IF k = h THEN IF w.op = "moderate" THEN [step |-> "trail"] ELSE FreeHand
                        ELSE IF hand[k].step = "wrote" THEN [hand[k] EXCEPT !.missed = TRUE]
                        ELSE hand[k]]
          /\ reader' = IF reader.step = "away" THEN reader ELSE [reader EXCEPT !.quiet = FALSE]
    /\ UNCHANGED <<moderated, reviewWrites>>
(* The entry of the trail is another statement, and moderation stands without it. *)
AuditModeration(h) ==
    /\ hand[h].step = "trail" /\ hand' = [hand EXCEPT ![h] = FreeHand]
    /\ moderated' \in {moderated, moderated + 1}
    /\ UNCHANGED <<review, score, reader, reviewRaced, reviewWrites>>
LoseWrite(h) == /\ hand[h].step # "idle" /\ hand' = [hand EXCEPT ![h] = FreeHand]
                /\ UNCHANGED <<review, score, reader, reviewRaced, moderated, reviewWrites>>

(* ListByProduct: the score is read from the product, then the shares of the     *)
(* stars and the rows from the reviews, each by a statement of its own.          *)
ReadScore == /\ reader.step = "away"
             /\ reader' = [step |-> "score", count |-> score.count, shares |-> << >>,
                           quiet |-> TRUE]
             /\ UNCHANGED <<review, score, hand, reviewRaced, moderated, reviewWrites>>
ReadShares ==
    /\ reader.step = "score"
    /\ reader' = [reader EXCEPT !.step = "shares",
                    !.shares = [n \in 1..5 |-> Cardinality({a \in Published(review) :
                                                              review[a].rating = n})]]
    /\ UNCHANGED <<review, score, hand, reviewRaced, moderated, reviewWrites>>
LeaveReviews == /\ reader.step = "shares" /\ reader' = Away
                /\ UNCHANGED <<review, score, hand, reviewRaced, moderated, reviewWrites>>

ReviewNext ==
    \/ \E h \in ReviewHands, a \in Authors :
         \/ \E g \in Grants, n \in Ratings, t \in {"none", "flagged"} : CreateReview(h, a, g, n, t)
         \/ \E n \in Ratings, t \in {"none", "flagged"} : UpdateMine(h, a, n, t)
         \/ DeleteMine(h, a)
         \/ \E s \in {"published", "rejected"} : Moderate(h, a, s)
    \/ \E h \in ReviewHands : SaveReview(h) \/ AuditModeration(h) \/ LoseWrite(h)
    \/ ReadScore \/ ReadShares \/ LeaveReviews
ReviewSpec == ReviewInit /\ [][ReviewNext]_reviewVars
-----------------------------------------------------------------------------
(* Every variable holds a value of its kind. *)
ReviewTypeOK ==
    /\ review \in [Authors -> [rating : Ratings \union {0},
                               status : {"none", "pending", "published", "rejected"}]]
    /\ score.count \in 0..Cardinality(Authors) /\ score.sum \in Nat
    /\ \A h \in ReviewHands : hand[h].step \in {"idle", "wrote", "trail"}
    /\ reader.step \in {"away", "score", "shares"}
    /\ reviewRaced \in BOOLEAN /\ moderated \in 0..MaxReviewWrites /\ reviewWrites \in 0..MaxReviewWrites

(* The score tells the published reviews, unless the last to write it was a new  *)
(* or a deleted review that another write overtook: every edit and every        *)
(* decision of a moderator leaves it right, whoever else is writing, and heals  *)
(* what such a race left. A page read with no write in between adds up.         *)
OnlyARaceMissesAReview ==
    ~reviewRaced =>
       /\ score = Tally(review)
       /\ reader.step = "shares" /\ reader.quiet =>
             reader.count = reader.shares[1] + reader.shares[2] + reader.shares[3]
                            + reader.shares[4] + reader.shares[5]
=============================================================================
