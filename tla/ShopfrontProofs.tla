--------------------------- MODULE ShopfrontProofs ----------------------------
(***************************************************************************)
(* What a shopper is shown and what writes it, for any number of           *)
(* administrators, photos, orders, baskets, counters, pages, verdicts and  *)
(* products: the photos of a product, the products bought together, the    *)
(* curated library, the papers of a product, and the pages of the shop.    *)
(***************************************************************************)
EXTENDS Gallery, Copurchase, CuratedLibrary, CatalogWrites, Storefront, WellFoundedInduction,
        FiniteSetTheorems, SequenceTheorems, TLAPS

-----------------------------------------------------------------------------
(* Numbers *)

\* A natural number with a property has a smallest one with it.
LEMMA Smallest ==
    ASSUME NEW T \in SUBSET Nat, T # {}
    PROVE  \E n \in T : \A m \in T : n <= m
<1> DEFINE R == {p \in Nat \X Nat : p[1] < p[2]}
<1>1. IsWellFoundedOn(R, Nat)
    BY NatLessThanWellFounded DEF OpToRel
<1>2. PICK n \in T : \A m \in T : ~(<<m, n>> \in R)
  <2> HIDE DEF R
  <2> QED
    BY <1>1, WFMin
<1>3. \A m \in T : n <= m
  <2> TAKE m \in T
  <2>1. m \in Nat /\ n \in Nat /\ <<m, n>> \in Nat \X Nat
    OBVIOUS
  <2>2. ~(m < n)
    BY <1>2, <2>1
  <2> HIDE DEF R
  <2> QED
    BY <2>1, <2>2
<1> HIDE DEF R
<1> QED
    BY <1>3

\* The largest of a set of naturals that some number bounds.
LEMMA LargestOfBounded ==
    ASSUME NEW T \in SUBSET Nat, T # {}, NEW b \in Nat, \A m \in T : m <= b
    PROVE  Max(T) \in T /\ \A m \in T : m <= Max(T)
<1> DEFINE U == {n \in Nat : \A m \in T : m <= n}
<1>1. PICK n \in U : \A k \in U : n <= k
  <2>1. U \in SUBSET Nat /\ b \in U
    OBVIOUS
  <2> HIDE DEF U
  <2> QED
    BY <2>1, Smallest
<1>2. n \in T
  <2> SUFFICES ASSUME n \notin T PROVE FALSE
    OBVIOUS
  <2>1. PICK m \in T : TRUE
    OBVIOUS
  <2>2. \A k \in T : k <= n - 1
    BY <1>1
  <2>3. n - 1 \in U
    BY <2>1, <2>2, <1>1
  <2> QED
    BY <2>3, <1>1
<1>3. \E x \in T : \A y \in T : x >= y
    BY <1>1, <1>2
<1>4. Max(T) \in T /\ \A y \in T : Max(T) >= y
    BY <1>3 DEF Max
<1> QED
    BY <1>4
-----------------------------------------------------------------------------
(* The photos of a product *)

\* A file has renditions, and every name of a rendition stands for one of them.
LEMMA NamesStandForRenditions ==
    ASSUME NEW p \in Photos
    PROVE  /\ DOMAIN Sides = 1..3 /\ Renditions(p) \subseteq 1..3
           /\ \A v \in 1..3 : Variants(p)[v] \in Renditions(p)
<1>1. DOMAIN Sides = 1..3
    BY DEF Sides
<1>2. Renditions(p) \subseteq 1..3 /\ 1 \in Renditions(p)
    BY <1>1 DEF Renditions
<1>3. ASSUME NEW v \in 1..3
      PROVE  Variants(p)[v] \in Renditions(p)
  <2> DEFINE T == {i \in Renditions(p) : i <= v}
  <2>1. T \in SUBSET Nat /\ 1 \in T /\ \A m \in T : m <= v
    BY <1>2
  <2>2. Max(T) \in T
    <3> HIDE DEF T
    <3> QED
      BY <2>1, LargestOfBounded
  <2>3. Variants(p)[v] = Max(T)
    BY <1>1, <1>3 DEF Variants
  <2> QED
    BY <2>2, <2>3
<1> QED
    BY <1>1, <1>2, <1>3

\* The next of the renditions to store.
LEMMA NextRendition ==
    ASSUME NEW T \in SUBSET (1..3), T # {}
    PROVE  Min(T) \in T
<1>1. PICK n \in T : \A m \in T : n <= m
    BY Smallest
<1> QED
    BY <1>1 DEF Min

Steps == {"idle", "look", "put", "lock", "insert", "undo", "objects"}
\* A request deals with one file; what it wrote are renditions of it.
Editing == [step : Steps, photo : Photos, written : SUBSET (1..3), pos : Nat]
Row == [listed : {TRUE}, pos : Nat, variants : [1..3 -> 1..3]]
At(h, p) == editor[h].step # "idle" /\ editor[h].photo = p

GalleryTypes ==
    /\ gallery \in [Photos -> {Unlisted} \union Row]
    /\ objects \in [Photos -> SUBSET (1..3)]
    /\ editor \in [PhotoHands -> {Free} \union Editing]
    /\ doubtful \subseteq Photos /\ arranged \in BOOLEAN
    /\ \A p \in Photos : gallery[p].listed => gallery[p].variants = Variants(p)
\* Only one request deals with a file nobody doubts, and one inserts at a time.
AloneWithTheFile ==
    \A h, k \in PhotoHands : h # k =>
        /\ \A p \in Photos \ doubtful : ~(At(h, p) /\ At(k, p))
        /\ ~(editor[h].step = "insert" /\ editor[k].step = "insert")
\* What is on show is stored; what is being stored or taken away is not on show.
Careful(h, p) ==
    /\ editor[h].step \in {"put", "lock", "insert", "undo", "objects"} => ~gallery[p].listed
    /\ editor[h].step = "look" => editor[h].written = {}
    /\ editor[h].step = "put" => editor[h].written \subseteq objects[p]
    /\ editor[h].step \in {"lock", "insert"} => Renditions(p) \subseteq objects[p]
StoredBeforeShown ==
    \A p \in Photos \ doubtful :
        /\ gallery[p].listed => Renditions(p) \subseteq objects[p]
        /\ \A h \in PhotoHands : At(h, p) => Careful(h, p)
\* Until someone arranges the photos, each has a place of its own, and who inserts one has
\* a place behind all of them.
PlacesAreTaken ==
    /\ \E b \in Nat : \A p \in Listed : gallery[p].pos \in 0..b
    /\ ~arranged =>
        /\ \A p, q \in Listed : p # q => gallery[p].pos # gallery[q].pos
        /\ \A h \in PhotoHands : editor[h].step = "insert" =>
             \A p \in Listed : gallery[p].pos < editor[h].pos
GalleryInv == GalleryTypes /\ AloneWithTheFile /\ StoredBeforeShown /\ PlacesAreTaken

\* The invariant gives the promise.
LEMMA GalleryInvHolds == GalleryInv => EveryPhotoCanBeDrawn
<1> SUFFICES ASSUME GalleryInv PROVE EveryPhotoCanBeDrawn
    OBVIOUS
<1>1. \A p \in Listed \ doubtful : \A v \in DOMAIN Sides : gallery[p].variants[v] \in objects[p]
    BY NamesStandForRenditions DEF GalleryInv, GalleryTypes, StoredBeforeShown, Listed
<1>2. ~arranged => \A p, q \in Listed : p # q => gallery[p].pos # gallery[q].pos
    BY DEF GalleryInv, PlacesAreTaken
<1> QED
    BY <1>1, <1>2 DEF EveryPhotoCanBeDrawn

\* A gallery without photos keeps it.
LEMMA GalleryInitInv == GalleryInit => GalleryInv
<1> SUFFICES ASSUME GalleryInit PROVE GalleryInv
    OBVIOUS
<1> USE DEF GalleryInit
<1>1. GalleryTypes
    BY DEF GalleryTypes, Unlisted, Free
<1>2. AloneWithTheFile
    BY DEF AloneWithTheFile, At, Free
<1>3. StoredBeforeShown
    BY DEF StoredBeforeShown, At, Free, Unlisted
<1>4. Listed = {}
    BY DEF Listed, Unlisted
<1>5. PlacesAreTaken
    BY <1>4 DEF PlacesAreTaken, Free
<1> QED
    BY <1>1, <1>2, <1>3, <1>5 DEF GalleryInv

\* A request that ends takes nothing from the others.
LEMMA DoneKeepsGallery ==
    ASSUME GalleryInv, NEW h \in PhotoHands, Done(h),
           UNCHANGED <<gallery, objects, doubtful, arranged>>
    PROVE  GalleryInv'
<1>1. /\ editor' \in [PhotoHands -> {Free} \union Editing]
      /\ editor'[h] = Free /\ editor'[h].step = "idle"
      /\ \A k \in PhotoHands : k # h => editor'[k] = editor[k]
    BY DEF GalleryInv, GalleryTypes, Done, Free
<1>2. \A k \in PhotoHands : \A p \in Photos : At(k, p)' => k # h /\ At(k, p)
    BY <1>1 DEF At
<1>3. GalleryTypes'
    BY <1>1 DEF GalleryInv, GalleryTypes, Variants, Renditions, Longest
<1>4. AloneWithTheFile'
    BY <1>1, <1>2 DEF GalleryInv, AloneWithTheFile
<1>5. StoredBeforeShown'
    BY <1>1, <1>2 DEF GalleryInv, StoredBeforeShown, Careful, Renditions, Longest
<1>6. PlacesAreTaken'
    BY <1>1 DEF GalleryInv, PlacesAreTaken, Listed
<1> QED
    BY <1>3, <1>4, <1>5, <1>6 DEF GalleryInv

\* A request goes on with its file: to store it when it is not on show, to the lock when it
\* is all stored, or to undo what it did.
LEMMA GotoKeepsGallery ==
    ASSUME GalleryInv, NEW h \in PhotoHands, NEW step \in {"put", "lock", "undo"},
           editor[h].step # "idle", Goto(h, step),
           UNCHANGED <<gallery, objects, doubtful, arranged>>,
           editor[h].photo \notin doubtful => ~gallery[editor[h].photo].listed,
           step = "put" => editor[h].step = "look",
           step = "lock" => Renditions(editor[h].photo) \subseteq editor[h].written
                            /\ editor[h].step = "put"
    PROVE  GalleryInv'
<1>1. /\ editor[h] \in Editing
      /\ editor' = [editor EXCEPT ![h] = [editor[h] EXCEPT !.step = step]]
    BY DEF GalleryInv, GalleryTypes, Free, Goto
<1>2. /\ editor' \in [PhotoHands -> {Free} \union Editing]
      /\ editor'[h].step = step /\ editor'[h].photo = editor[h].photo
      /\ editor'[h].written = editor[h].written
      /\ \A k \in PhotoHands : k # h => editor'[k] = editor[k]
    BY <1>1 DEF GalleryInv, GalleryTypes, Editing, Steps
<1>3. \A k \in PhotoHands : \A p \in Photos : At(k, p)' => At(k, p)
    BY <1>2 DEF At
<1>4. GalleryTypes'
    BY <1>2 DEF GalleryInv, GalleryTypes, Variants, Renditions, Longest
<1>5. AloneWithTheFile'
    BY <1>2, <1>3 DEF GalleryInv, AloneWithTheFile
<1>6. StoredBeforeShown'
  <2> SUFFICES ASSUME NEW p \in Photos \ doubtful, NEW k \in PhotoHands, At(k, p)'
               PROVE  Careful(k, p)'
    BY DEF GalleryInv, StoredBeforeShown, Renditions, Longest
  <2>1. At(k, p) /\ Careful(k, p) /\ editor[k].photo = p
    BY <1>3 DEF GalleryInv, StoredBeforeShown, At
  <2>2. CASE k # h
    BY <1>2, <2>1, <2>2 DEF Careful, Renditions, Longest
  <2>3. CASE k = h
    BY <1>2, <2>1, <2>3 DEF Careful, Renditions, Longest
  <2> QED
    BY <2>2, <2>3
<1>7. PlacesAreTaken'
    BY <1>2 DEF GalleryInv, PlacesAreTaken, Listed
<1> QED
    BY <1>4, <1>5, <1>6, <1>7 DEF GalleryInv

\* An object more is stored of a file that is not on show.
LEMMA PutKeepsGallery ==
    ASSUME GalleryInv, NEW h \in PhotoHands, Put(h)
    PROVE  GalleryInv'
<1> DEFINE p == editor[h].photo
           left == Renditions(p) \ editor[h].written
<1>1. editor[h] \in Editing /\ p \in Photos /\ At(h, p) /\ editor[h].step = "put"
    BY DEF Put, GalleryInv, GalleryTypes, Free, Editing, At
<1>2. p \notin doubtful => Careful(h, p)
    BY <1>1 DEF GalleryInv, StoredBeforeShown
<1>3. CASE left = {}
  <2>1. Goto(h, "lock") /\ UNCHANGED <<gallery, objects, doubtful, arranged>>
    BY <1>3 DEF Put
  <2>2. Renditions(p) \subseteq editor[h].written
    BY <1>3
  <2> QED
    BY <1>1, <1>2, <2>1, <2>2, GotoKeepsGallery DEF Careful
<1>4. CASE left # {}
  <2> DEFINE i == Min(left)
  <2>1. i \in Renditions(p) /\ i \in 1..3
    <3>1. left \in SUBSET (1..3)
      BY <1>1, NamesStandForRenditions
    <3>2. Min(left) \in left
      <4> HIDE DEF left
      <4> QED
        BY <1>4, <3>1, NextRendition
    <3> QED
      BY <3>1, <3>2
  <2>2. /\ objects' = [objects EXCEPT ![p] = objects[p] \union {i}]
        /\ editor' = [editor EXCEPT ![h] = [editor[h] EXCEPT !.written = editor[h].written \union {i}]]
        /\ UNCHANGED <<gallery, doubtful, arranged>>
    BY <1>4 DEF Put, StorePut
  <2> HIDE DEF i
  <2>3. /\ editor' \in [PhotoHands -> {Free} \union Editing]
        /\ editor'[h].step = "put" /\ editor'[h].photo = p
        /\ editor'[h].written = editor[h].written \union {i}
        /\ \A k \in PhotoHands : k # h => editor'[k] = editor[k]
    BY <1>1, <2>1, <2>2 DEF GalleryInv, GalleryTypes, Editing, Steps
  <2>4. \A k \in PhotoHands : \A q \in Photos : At(k, q)' => At(k, q)
    BY <1>1, <2>3 DEF At
  <2>5. /\ objects' \in [Photos -> SUBSET (1..3)] /\ objects'[p] = objects[p] \union {i}
        /\ \A q \in Photos : objects[q] \subseteq objects'[q]
    BY <1>1, <2>1, <2>2 DEF GalleryInv, GalleryTypes
  <2>6. GalleryTypes'
    BY <2>2, <2>3, <2>5 DEF GalleryInv, GalleryTypes, Variants, Renditions, Longest
  <2>7. AloneWithTheFile'
    BY <1>1, <2>2, <2>3, <2>4 DEF GalleryInv, AloneWithTheFile
  <2>8. StoredBeforeShown'
    <3>1. ASSUME NEW q \in Photos \ doubtful, NEW k \in PhotoHands, At(k, q)'
          PROVE  Careful(k, q)'
      <4>1. At(k, q) /\ Careful(k, q) /\ editor[k].photo = q
        BY <2>4, <3>1 DEF GalleryInv, StoredBeforeShown, At
      <4>2. CASE k # h
        BY <2>2, <2>3, <2>5, <4>1, <4>2 DEF Careful, Renditions, Longest
      <4>3. CASE k = h
        BY <1>1, <2>2, <2>3, <2>5, <4>1, <4>3 DEF Careful, Renditions, Longest
      <4> QED
        BY <4>2, <4>3
    <3>2. ASSUME NEW q \in Photos \ doubtful, gallery[q].listed
          PROVE  Renditions(q) \subseteq objects'[q]
      BY <2>5, <3>2 DEF GalleryInv, StoredBeforeShown
    <3> QED
      BY <2>2, <3>1, <3>2 DEF StoredBeforeShown, Renditions, Longest
  <2>9. PlacesAreTaken'
    BY <1>1, <2>2, <2>3 DEF GalleryInv, PlacesAreTaken, Listed
  <2> QED
    BY <2>6, <2>7, <2>8, <2>9 DEF GalleryInv
<1> QED
    BY <1>3, <1>4

\* Behind every photo on show there is a place.
LEMMA NextPlace ==
    ASSUME GalleryInv
    PROVE  /\ NextPosition \in Nat
           /\ \A p \in Listed : gallery[p].pos < NextPosition
<1> DEFINE T == {gallery[p].pos : p \in Listed}
<1>1. CASE Listed = {}
    BY <1>1 DEF NextPosition
<1>2. CASE Listed # {}
  <2>1. PICK b \in Nat : \A p \in Listed : gallery[p].pos \in 0..b
    BY DEF GalleryInv, PlacesAreTaken
  <2>2. T \in SUBSET Nat /\ T # {} /\ \A m \in T : m <= b
    BY <1>2, <2>1
  <2>3. Max(T) \in T /\ \A m \in T : m <= Max(T)
    <3> HIDE DEF T
    <3> QED
      BY <2>2, LargestOfBounded
  <2>4. NextPosition = Max(T) + 1
    BY <1>2 DEF NextPosition
  <2>5. \A p \in Listed : gallery[p].pos \in T
    OBVIOUS
  <2> HIDE DEF T
  <2>6. \A p \in Listed : gallery[p].pos \in Nat /\ gallery[p].pos <= Max(T)
    BY <2>2, <2>3, <2>5
  <2>7. Max(T) \in Nat
    BY <2>2, <2>3
  <2> DEFINE largest == Max(T)
  <2> HIDE DEF largest
  <2>8. largest \in Nat /\ NextPosition = largest + 1 /\ \A p \in Listed : gallery[p].pos <= largest
    BY <2>4, <2>6, <2>7 DEF largest
  <2>9. \A p \in Listed : gallery[p].pos < NextPosition
    BY <2>6, <2>8
  <2> QED
    BY <2>8, <2>9
<1> QED
    BY <1>1, <1>2

\* Under the lock one request at a time takes the next place.
LEMMA LockKeepsGallery ==
    ASSUME GalleryInv, NEW h \in PhotoHands, LockGallery(h)
    PROVE  GalleryInv'
<1> DEFINE p == editor[h].photo
           n == NextPosition
<1>1. editor[h] \in Editing /\ p \in Photos /\ At(h, p) /\ editor[h].step = "lock"
    BY DEF LockGallery, GalleryInv, GalleryTypes, Free, Editing, At
<1>2. n \in Nat /\ \A q \in Listed : gallery[q].pos < n
    BY NextPlace
<1>3. /\ editor' = [editor EXCEPT ![h] = [[editor[h] EXCEPT !.step = "insert"] EXCEPT !.pos = n]]
      /\ \A k \in PhotoHands : editor[k].step # "insert"
      /\ UNCHANGED <<gallery, objects, doubtful, arranged>>
    BY DEF LockGallery
<1> HIDE DEF n
<1>4. /\ editor' \in [PhotoHands -> {Free} \union Editing]
      /\ editor'[h].step = "insert" /\ editor'[h].photo = p /\ editor'[h].pos = n
      /\ \A k \in PhotoHands : k # h => editor'[k] = editor[k]
    BY <1>1, <1>2, <1>3 DEF GalleryInv, GalleryTypes, Editing, Steps
<1>5. \A k \in PhotoHands : \A q \in Photos : At(k, q)' => At(k, q)
    BY <1>1, <1>4 DEF At
<1>6. GalleryTypes'
    BY <1>3, <1>4 DEF GalleryInv, GalleryTypes, Variants, Renditions, Longest
<1>7. AloneWithTheFile'
    BY <1>3, <1>4, <1>5 DEF GalleryInv, AloneWithTheFile
<1>8. StoredBeforeShown'
  <2>1. ASSUME NEW q \in Photos \ doubtful, NEW k \in PhotoHands, At(k, q)'
        PROVE  Careful(k, q)'
    <3>1. At(k, q) /\ Careful(k, q) /\ editor[k].photo = q
      BY <1>5, <2>1 DEF GalleryInv, StoredBeforeShown, At
    <3>2. CASE k # h
      BY <1>3, <1>4, <3>1, <3>2 DEF Careful, Renditions, Longest
    <3>3. CASE k = h
      BY <1>1, <1>3, <1>4, <3>1, <3>3 DEF Careful, Renditions, Longest
    <3> QED
      BY <3>2, <3>3
  <2> QED
    BY <1>3, <2>1 DEF GalleryInv, StoredBeforeShown, Renditions, Longest
<1>9. PlacesAreTaken'
    BY <1>2, <1>3, <1>4 DEF GalleryInv, PlacesAreTaken, Listed
<1> QED
    BY <1>6, <1>7, <1>8, <1>9 DEF GalleryInv

\* The row of a photo nobody stored before: behind the others, or in doubt.
LEMMA InsertKeepsGallery ==
    ASSUME GalleryInv, NEW h \in PhotoHands, NEW answered \in BOOLEAN, InsertPhoto(h, answered)
    PROVE  GalleryInv'
<1> DEFINE p == editor[h].photo
           row == [listed |-> TRUE, pos |-> editor[h].pos, variants |-> Variants(p)]
<1>1. editor[h] \in Editing /\ p \in Photos /\ At(h, p) /\ editor[h].step = "insert"
    BY DEF InsertPhoto, GalleryInv, GalleryTypes, Free, Editing, At
<1>2. CASE gallery[p].listed
    BY <1>2, DoneKeepsGallery DEF InsertPhoto
<1>3. CASE ~gallery[p].listed
  <2>1. row \in Row /\ row.listed /\ row.variants = Variants(p) /\ row.pos = editor[h].pos
    <3>1. Variants(p) \in [1..3 -> 1..3]
      BY <1>1, NamesStandForRenditions DEF Variants
    <3> QED
      BY <1>1, <3>1 DEF Row, Editing
  <2> HIDE DEF row
  <2>2. /\ gallery' = [gallery EXCEPT ![p] = row]
        /\ UNCHANGED <<objects, arranged>>
        /\ \/ editor' = [editor EXCEPT ![h] = Free] /\ doubtful' = doubtful
           \/ editor' = [editor EXCEPT ![h] = [editor[h] EXCEPT !.step = "undo"]]
              /\ doubtful' = doubtful \union {p}
    BY <1>3 DEF InsertPhoto, Done, Goto, row
  <2>3. /\ gallery' \in [Photos -> {Unlisted} \union Row] /\ gallery'[p] = row
        /\ \A q \in Photos : q # p => gallery'[q] = gallery[q]
    BY <1>1, <2>1, <2>2 DEF GalleryInv, GalleryTypes
  <2>4. /\ editor' \in [PhotoHands -> {Free} \union Editing]
        /\ editor'[h].step \in {"idle", "undo"}
        /\ editor'[h].step = "undo" => editor'[h].photo = p /\ doubtful' = doubtful \union {p}
        /\ \A k \in PhotoHands : k # h => editor'[k] = editor[k]
    <3>1. CASE editor' = [editor EXCEPT ![h] = Free]
      BY <3>1 DEF GalleryInv, GalleryTypes, Free
    <3>2. CASE /\ editor' = [editor EXCEPT ![h] = [editor[h] EXCEPT !.step = "undo"]]
               /\ doubtful' = doubtful \union {p}
      BY <1>1, <3>2 DEF GalleryInv, GalleryTypes, Editing, Steps
    <3> QED
      BY <2>2, <3>1, <3>2
  <2>5. doubtful \subseteq doubtful' /\ doubtful' \subseteq Photos
    BY <1>1, <2>2 DEF GalleryInv, GalleryTypes
  <2>6. \A k \in PhotoHands : \A q \in Photos : At(k, q)' => At(k, q)
    BY <1>1, <2>4 DEF At
  <2>7. GalleryTypes'
    <3>1. \A q \in Photos : gallery'[q].listed => gallery'[q].variants = Variants(q)
      BY <2>1, <2>3 DEF GalleryInv, GalleryTypes
    <3> QED
      BY <2>2, <2>3, <2>4, <2>5, <3>1 DEF GalleryInv, GalleryTypes, Variants, Renditions, Longest
  <2>8. AloneWithTheFile'
    BY <2>2, <2>4, <2>5, <2>6 DEF GalleryInv, AloneWithTheFile
  <2>9. StoredBeforeShown'
    <3>1. ASSUME NEW q \in Photos \ doubtful', NEW k \in PhotoHands, At(k, q)'
          PROVE  Careful(k, q)'
      <4>1. At(k, q) /\ Careful(k, q) /\ q \notin doubtful
        BY <2>5, <2>6, <3>1 DEF GalleryInv, StoredBeforeShown
      <4>2. k # h
        <5> SUFFICES ASSUME k = h PROVE FALSE
          OBVIOUS
        <5>1. editor'[h].step = "undo" /\ editor'[h].photo = q
          BY <2>4, <3>1 DEF At
        <5> QED
          BY <2>4, <3>1, <5>1
      <4>3. q # p
        BY <1>1, <4>1, <4>2 DEF GalleryInv, AloneWithTheFile
      <4> QED
        BY <2>2, <2>3, <2>4, <4>1, <4>2, <4>3 DEF Careful, Renditions, Longest
    <3>2. ASSUME NEW q \in Photos \ doubtful', gallery'[q].listed
          PROVE  Renditions(q) \subseteq objects[q]
      <4>1. CASE q = p
        BY <1>1, <2>5, <3>2, <4>1 DEF GalleryInv, StoredBeforeShown, Careful
      <4>2. CASE q # p
        BY <2>3, <2>5, <3>2, <4>2 DEF GalleryInv, StoredBeforeShown
      <4> QED
        BY <4>1, <4>2
    <3> QED
      BY <2>2, <3>1, <3>2 DEF StoredBeforeShown, Renditions, Longest
  <2>10. PlacesAreTaken'
    <3>1. Listed' = Listed \union {p} /\ p \notin Listed
      BY <1>1, <1>3, <2>1, <2>3 DEF Listed
    <3>2. /\ gallery'[p].pos = editor[h].pos /\ editor[h].pos \in Nat
          /\ \A q \in Listed : gallery'[q].pos = gallery[q].pos
      BY <1>1, <2>1, <2>3, <3>1 DEF Editing, Listed
    <3>3. \E b \in Nat : \A q \in Listed' : gallery'[q].pos \in 0..b
      <4>1. PICK b \in Nat : \A q \in Listed : gallery[q].pos \in 0..b
        BY DEF GalleryInv, PlacesAreTaken
      <4> DEFINE n == b + editor[h].pos
      <4>2. n \in Nat /\ \A q \in Listed' : gallery'[q].pos \in 0..n
        BY <3>1, <3>2, <4>1
      <4> HIDE DEF n
      <4> QED
        BY <4>2
    <3>4. ASSUME ~arranged
          PROVE  \A q, r \in Listed' : q # r => gallery'[q].pos # gallery'[r].pos
      <4>1. \A q \in Listed : gallery[q].pos \in Nat /\ gallery[q].pos < editor[h].pos
        BY <1>1, <3>4 DEF GalleryInv, PlacesAreTaken
      <4>2. \A q, r \in Listed : q # r => gallery[q].pos # gallery[r].pos
        BY <3>4 DEF GalleryInv, PlacesAreTaken
      <4> QED
        BY <3>1, <3>2, <4>1, <4>2
    <3>5. \A k \in PhotoHands : editor'[k].step # "insert"
      BY <1>1, <2>4 DEF GalleryInv, AloneWithTheFile
    <3> QED
      BY <2>2, <3>3, <3>4, <3>5 DEF PlacesAreTaken
  <2> QED
    BY <2>7, <2>8, <2>9, <2>10 DEF GalleryInv
<1> QED
    BY <1>2, <1>3

\* A request begins with a file: alone with it, or the file is in doubt from then on. The
\* photo to take away is off the shelf before its objects go.
LEMMA BeginKeepsGallery ==
    ASSUME GalleryInv, NEW h \in PhotoHands, NEW step \in {"look", "objects"},
           NEW p \in Photos, Begin(h, step, p), UNCHANGED <<objects, arranged>>,
           \/ step = "look" /\ gallery' = gallery
           \/ step = "objects" /\ gallery' = [gallery EXCEPT ![p] = Unlisted]
    PROVE  GalleryInv'
<1> DEFINE going == [step |-> step, photo |-> p, written |-> {}, pos |-> 0]
<1>1. /\ editor[h].step = "idle" /\ editor' = [editor EXCEPT ![h] = going]
      /\ doubtful' = IF \E k \in PhotoHands : editor[k].step # "idle" /\ editor[k].photo = p
                     THEN doubtful \union {p} ELSE doubtful
    BY DEF Begin, Work
<1>2. /\ going \in Editing /\ going.step = step /\ going.photo = p /\ going.written = {}
    BY DEF Editing, Steps
<1> HIDE DEF going
<1>3. /\ editor' \in [PhotoHands -> {Free} \union Editing] /\ editor'[h] = going
      /\ \A k \in PhotoHands : k # h => editor'[k] = editor[k]
    BY <1>1, <1>2 DEF GalleryInv, GalleryTypes
<1>4. /\ gallery' \in [Photos -> {Unlisted} \union Row]
      /\ \A q \in Photos : gallery'[q] = gallery[q] \/ (q = p /\ ~gallery'[q].listed)
      /\ step = "objects" => ~gallery'[p].listed
  <2>1. Unlisted \in {Unlisted} \union Row /\ ~Unlisted.listed
    BY DEF Unlisted
  <2>2. CASE gallery' = gallery /\ step = "look"
    BY <2>2 DEF GalleryInv, GalleryTypes
  <2>3. CASE gallery' = [gallery EXCEPT ![p] = Unlisted]
    BY <2>1, <2>3 DEF GalleryInv, GalleryTypes
  <2> QED
    BY <2>2, <2>3
<1>5. doubtful \subseteq doubtful' /\ doubtful' \subseteq Photos
    BY <1>1 DEF GalleryInv, GalleryTypes
<1>6. p \notin doubtful' => \A k \in PhotoHands : ~At(k, p)
    BY <1>1 DEF At
<1>7. \A k \in PhotoHands : \A q \in Photos : At(k, q)' => (k = h /\ q = p) \/ (k # h /\ At(k, q))
    BY <1>2, <1>3 DEF At
<1>8. GalleryTypes'
  <2>1. \A q \in Photos : gallery'[q].listed => gallery'[q].variants = Variants(q)
    BY <1>4 DEF GalleryInv, GalleryTypes
  <2> QED
    BY <1>3, <1>4, <1>5, <2>1 DEF GalleryInv, GalleryTypes, Variants, Renditions, Longest
<1>9. AloneWithTheFile'
  <2>1. ASSUME NEW i \in PhotoHands, NEW k \in PhotoHands, i # k
        PROVE  /\ \A q \in Photos \ doubtful' : ~(At(i, q)' /\ At(k, q)')
               /\ ~(editor'[i].step = "insert" /\ editor'[k].step = "insert")
    BY <1>2, <1>3, <1>5, <1>6, <1>7, <2>1 DEF GalleryInv, AloneWithTheFile
  <2> QED
    BY <2>1 DEF AloneWithTheFile
<1>10. StoredBeforeShown'
  <2>1. ASSUME NEW q \in Photos \ doubtful', NEW k \in PhotoHands, At(k, q)'
        PROVE  Careful(k, q)'
    <3>1. CASE k = h /\ q = p
      BY <1>2, <1>3, <1>4, <3>1 DEF Careful
    <3>2. CASE k # h /\ At(k, q)
      <4>1. q # p /\ q \in Photos \ doubtful
        BY <1>5, <1>6, <3>2
      <4>2. Careful(k, q)
        BY <3>2, <4>1 DEF GalleryInv, StoredBeforeShown
      <4> QED
        BY <1>3, <1>4, <3>2, <4>1, <4>2 DEF Careful, Renditions, Longest
    <3> QED
      BY <1>7, <2>1, <3>1, <3>2
  <2>2. ASSUME NEW q \in Photos \ doubtful', gallery'[q].listed
        PROVE  Renditions(q) \subseteq objects[q]
    BY <1>4, <1>5, <2>2 DEF GalleryInv, StoredBeforeShown
  <2> QED
    BY <2>1, <2>2 DEF StoredBeforeShown, Renditions, Longest
<1>11. PlacesAreTaken'
  <2>1. \A q \in Listed' : q \in Listed /\ gallery'[q] = gallery[q]
    BY <1>4 DEF Listed
  <2>2. \A k \in PhotoHands : editor'[k].step = "insert" => k # h /\ editor'[k] = editor[k]
    BY <1>2, <1>3
  <2>3. \E b \in Nat : \A q \in Listed' : gallery'[q].pos \in 0..b
    BY <2>1 DEF GalleryInv, PlacesAreTaken
  <2>4. ASSUME ~arranged
        PROVE  /\ \A q, r \in Listed' : q # r => gallery'[q].pos # gallery'[r].pos
               /\ \A k \in PhotoHands : editor'[k].step = "insert" =>
                    \A q \in Listed' : gallery'[q].pos < editor'[k].pos
    BY <2>1, <2>2, <2>4 DEF GalleryInv, PlacesAreTaken
  <2> QED
    BY <2>3, <2>4 DEF PlacesAreTaken
<1> QED
    BY <1>8, <1>9, <1>10, <1>11 DEF GalleryInv

\* Objects go, and the request with them: of a file in doubt, or one that is not on show
\* and that nobody else deals with.
LEMMA TakingAwayKeepsGallery ==
    ASSUME GalleryInv, NEW h \in PhotoHands, editor[h].step \in {"undo", "objects"},
           NEW keys, StoreDelete(editor[h].photo, keys), Done(h),
           UNCHANGED <<gallery, doubtful, arranged>>
    PROVE  GalleryInv'
<1> DEFINE p == editor[h].photo
<1>1. p \in Photos /\ At(h, p) /\ (p \notin doubtful => ~gallery[p].listed)
  <2>1. p \in Photos /\ At(h, p)
    BY DEF GalleryInv, GalleryTypes, Free, Editing, At
  <2> QED
    BY <2>1 DEF GalleryInv, StoredBeforeShown, Careful
<1>2. /\ objects' \in [Photos -> SUBSET (1..3)]
      /\ \A q \in Photos : q # p => objects'[q] = objects[q]
    BY <1>1 DEF StoreDelete, GalleryInv, GalleryTypes
<1>3. /\ editor' \in [PhotoHands -> {Free} \union Editing]
      /\ editor'[h].step = "idle"
      /\ \A k \in PhotoHands : k # h => editor'[k] = editor[k]
    BY DEF GalleryInv, GalleryTypes, Done, Free
<1>4. \A k \in PhotoHands : \A q \in Photos : At(k, q)' => k # h /\ At(k, q)
    BY <1>3 DEF At
<1>5. GalleryTypes'
    BY <1>2, <1>3 DEF GalleryInv, GalleryTypes, Variants, Renditions, Longest
<1>6. AloneWithTheFile'
    BY <1>3, <1>4 DEF GalleryInv, AloneWithTheFile
<1>7. StoredBeforeShown'
  <2>1. ASSUME NEW q \in Photos \ doubtful, NEW k \in PhotoHands, At(k, q)'
        PROVE  Careful(k, q)'
    <3>1. k # h /\ At(k, q) /\ Careful(k, q) /\ q # p
      BY <1>1, <1>4, <2>1 DEF GalleryInv, StoredBeforeShown, AloneWithTheFile
    <3> QED
      BY <1>2, <1>3, <3>1 DEF Careful, Renditions, Longest
  <2>2. ASSUME NEW q \in Photos \ doubtful, gallery[q].listed
        PROVE  Renditions(q) \subseteq objects'[q]
    BY <1>1, <1>2, <2>2 DEF GalleryInv, StoredBeforeShown
  <2> QED
    BY <2>1, <2>2 DEF StoredBeforeShown, Renditions, Longest
<1>8. PlacesAreTaken'
    BY <1>3 DEF GalleryInv, PlacesAreTaken, Listed
<1> QED
    BY <1>5, <1>6, <1>7, <1>8 DEF GalleryInv

\* Who arranges the photos moves them, and neither shows nor hides one.
LEMMA ArrangingKeepsGallery ==
    ASSUME GalleryInv, arranged' = TRUE, UNCHANGED <<objects, editor, doubtful>>,
           gallery' \in [Photos -> {Unlisted} \union Row],
           \A p \in Photos : gallery'[p].listed <=> gallery[p].listed,
           \A p \in Listed : gallery'[p].variants = gallery[p].variants,
           \E b \in Nat : \A p \in Listed : gallery'[p].pos \in 0..b
    PROVE  GalleryInv'
<1>1. Listed' = Listed
    BY DEF Listed
<1>2. GalleryTypes'
  <2>1. \A q \in Photos : gallery'[q].listed => gallery'[q].variants = Variants(q)
    BY DEF GalleryInv, GalleryTypes, Listed
  <2> QED
    BY <2>1 DEF GalleryInv, GalleryTypes, Variants, Renditions, Longest
<1>3. AloneWithTheFile'
    BY DEF GalleryInv, AloneWithTheFile, At
<1>4. StoredBeforeShown'
    BY DEF GalleryInv, StoredBeforeShown, At, Careful, Renditions, Longest
<1>5. PlacesAreTaken'
    BY <1>1 DEF PlacesAreTaken
<1> QED
    BY <1>2, <1>3, <1>4, <1>5 DEF GalleryInv

\* A photo moves to another place.
LEMMA Moved ==
    ASSUME GalleryInv, NEW p \in Listed, NEW n \in Nat
    PROVE  LET row == [gallery[p] EXCEPT !.pos = n]
           IN row \in Row /\ row.listed /\ row.pos = n /\ row.variants = gallery[p].variants
<1>1. gallery[p] \in Row
    BY DEF GalleryInv, GalleryTypes, Listed, Unlisted
<1> QED
    BY <1>1 DEF Row

\* Reorder: who is in the list goes to the last place it has there.
LEMMA ReorderKeepsGallery ==
    ASSUME GalleryInv, NEW list \in Seq(Photos), Reorder(list)
    PROVE  GalleryInv'
<1> DEFINE Places(p) == {i \in DOMAIN list : list[i] = p}
<1>1. DOMAIN list = 1..Len(list) /\ Len(list) \in Nat
    OBVIOUS
<1>2. /\ arranged' = TRUE /\ UNCHANGED <<objects, editor, doubtful>>
      /\ \A i \in DOMAIN list : list[i] \in Listed
      /\ gallery' = [p \in Photos |-> IF Places(p) = {} THEN gallery[p]
                                      ELSE [gallery[p] EXCEPT !.pos = Max(Places(p)) - 1]]
    BY <1>1 DEF Reorder, Listed
<1>3. ASSUME NEW p \in Photos, Places(p) # {}
      PROVE  p \in Listed /\ Max(Places(p)) \in 1..Len(list)
  <2>1. Places(p) \in SUBSET Nat /\ Places(p) \in SUBSET (1..Len(list)) /\ \A m \in Places(p) : m <= Len(list)
    BY <1>1
  <2>2. Max(Places(p)) \in Places(p)
    <3> HIDE DEF Places
    <3> QED
      BY <1>1, <1>3, <2>1, LargestOfBounded
  <2>3. PICK i \in DOMAIN list : list[i] = p
    BY <1>3
  <2> HIDE DEF Places
  <2> QED
    BY <1>2, <2>1, <2>2, <2>3
<1> HIDE DEF Places
<1>4. ASSUME NEW p \in Photos
      PROVE  /\ gallery'[p] \in {Unlisted} \union Row
             /\ gallery'[p].listed <=> gallery[p].listed
             /\ p \in Listed => gallery'[p].variants = gallery[p].variants
             /\ p \in Listed => gallery'[p].pos = gallery[p].pos \/ gallery'[p].pos \in 0..Len(list)
  <2>1. CASE Places(p) = {}
    BY <1>2, <2>1 DEF GalleryInv, GalleryTypes
  <2>2. CASE Places(p) # {}
    <3>1. p \in Listed /\ Max(Places(p)) - 1 \in Nat /\ Max(Places(p)) - 1 \in 0..Len(list)
      BY <1>1, <1>3, <2>2
    <3>2. gallery'[p] = [gallery[p] EXCEPT !.pos = Max(Places(p)) - 1]
      BY <1>2, <2>2
    <3> QED
      BY <3>1, <3>2, Moved DEF Listed
  <2> QED
    BY <2>1, <2>2
<1>5. gallery' \in [Photos -> {Unlisted} \union Row]
  <2>1. gallery' = [p \in Photos |-> gallery'[p]]
    BY <1>2
  <2> QED
    BY <1>4, <2>1
<1>6. \E b \in Nat : \A p \in Listed : gallery'[p].pos \in 0..b
  <2>1. PICK b \in Nat : \A p \in Listed : gallery[p].pos \in 0..b
    BY DEF GalleryInv, PlacesAreTaken
  <2>2. \A p \in Listed : gallery'[p].pos \in 0..(b + Len(list))
    BY <1>1, <1>4, <2>1 DEF Listed
  <2> QED
    BY <1>1, <2>2
<1>7. /\ \A p \in Photos : gallery'[p].listed <=> gallery[p].listed
      /\ \A p \in Listed : gallery'[p].variants = gallery[p].variants
    BY <1>4 DEF Listed
<1> QED
    BY <1>2, <1>5, <1>6, <1>7, ArrangingKeepsGallery

\* SetCover: one photo goes to the front, the others one place back.
LEMMA SetCoverKeepsGallery ==
    ASSUME GalleryInv, NEW p \in Photos, SetCover(p)
    PROVE  GalleryInv'
<1>1. PICK b \in Nat : \A q \in Listed : gallery[q].pos \in 0..b
    BY DEF GalleryInv, PlacesAreTaken
<1>2. /\ arranged' = TRUE /\ UNCHANGED <<objects, editor, doubtful>>
      /\ gallery' = [q \in Photos |-> IF ~gallery[q].listed THEN gallery[q]
                                      ELSE IF q = p THEN [gallery[q] EXCEPT !.pos = 0]
                                      ELSE [gallery[q] EXCEPT !.pos = gallery[q].pos + 1]]
    BY DEF SetCover
<1>3. ASSUME NEW q \in Photos
      PROVE  /\ gallery'[q] \in {Unlisted} \union Row
             /\ gallery'[q].listed <=> gallery[q].listed
             /\ q \in Listed => gallery'[q].variants = gallery[q].variants
             /\ q \in Listed => gallery'[q].pos \in 0..(b + 1)
  <2>1. CASE q \notin Listed
    BY <1>2, <2>1 DEF GalleryInv, GalleryTypes, Listed
  <2>2. CASE q \in Listed
    <3>1. PICK n \in 0..(b + 1) : gallery'[q] = [gallery[q] EXCEPT !.pos = n]
      <4>1. gallery[q].pos + 1 \in 0..(b + 1) /\ 0 \in 0..(b + 1)
        BY <1>1, <2>2
      <4>2. \/ gallery'[q] = [gallery[q] EXCEPT !.pos = 0]
            \/ gallery'[q] = [gallery[q] EXCEPT !.pos = gallery[q].pos + 1]
        BY <1>2, <2>2 DEF Listed
      <4> QED
        BY <4>1, <4>2
    <3>2. n \in Nat
      OBVIOUS
    <3> QED
      BY <2>2, <3>1, <3>2, Moved DEF Listed
  <2> QED
    BY <2>1, <2>2
<1>4. gallery' \in [Photos -> {Unlisted} \union Row]
  <2>1. gallery' = [q \in Photos |-> gallery'[q]]
    BY <1>2
  <2> QED
    BY <1>3, <2>1
<1>5. /\ \A q \in Photos : gallery'[q].listed <=> gallery[q].listed
      /\ \A q \in Listed : gallery'[q].variants = gallery[q].variants
      /\ \E c \in Nat : \A q \in Listed : gallery'[q].pos \in 0..c
  <2>1. b + 1 \in Nat /\ \A q \in Listed : q \in Photos
    BY DEF Listed
  <2> QED
    BY <1>3, <2>1
<1> QED
    BY <1>2, <1>4, <1>5, ArrangingKeepsGallery

\* The invariant of the gallery holds of every behaviour.
LEMMA GalleryInvAlways == GallerySpec => []GalleryInv
<1>1. GalleryInv /\ [GalleryNext]_galleryVars => GalleryInv'
  <2> SUFFICES ASSUME GalleryInv, [GalleryNext]_galleryVars PROVE GalleryInv'
    OBVIOUS
  <2>1. ASSUME NEW h \in PhotoHands, NEW p \in Photos, Upload(h, p) PROVE GalleryInv'
    BY <2>1, BeginKeepsGallery DEF Upload
  <2>2. ASSUME NEW h \in PhotoHands, NEW p \in Photos, DeletePhoto(h, p) PROVE GalleryInv'
    BY <2>2, BeginKeepsGallery DEF DeletePhoto
  <2>3. ASSUME NEW h \in PhotoHands, FindByChecksum(h) PROVE GalleryInv'
    <3>1. CASE gallery[editor[h].photo].listed
      BY <2>3, <3>1, DoneKeepsGallery DEF FindByChecksum
    <3>2. CASE ~gallery[editor[h].photo].listed
      <4>1. Goto(h, "put") /\ editor[h].step = "look" /\ UNCHANGED <<gallery, objects, doubtful, arranged>>
        BY <2>3, <3>2 DEF FindByChecksum
      <4> QED
        BY <3>2, <4>1, GotoKeepsGallery
    <3> QED
      BY <3>1, <3>2
  <2>4. ASSUME NEW h \in PhotoHands, Put(h) PROVE GalleryInv'
    BY <2>4, PutKeepsGallery
  <2>5. ASSUME NEW h \in PhotoHands, Fail(h) PROVE GalleryInv'
    <3>1. editor[h].photo \notin doubtful => ~gallery[editor[h].photo].listed
      <4>1. editor[h].photo \in Photos /\ At(h, editor[h].photo)
        BY <2>5 DEF Fail, GalleryInv, GalleryTypes, Free, Editing, At
      <4> QED
        BY <2>5, <4>1 DEF Fail, GalleryInv, StoredBeforeShown, Careful
    <3> QED
      BY <2>5, <3>1, GotoKeepsGallery DEF Fail
  <2>6. ASSUME NEW h \in PhotoHands, Undo(h) \/ DeleteObjects(h) PROVE GalleryInv'
    BY <2>6, TakingAwayKeepsGallery DEF Undo, DeleteObjects
  <2>7. ASSUME NEW h \in PhotoHands, LockGallery(h) PROVE GalleryInv'
    BY <2>7, LockKeepsGallery
  <2>8. ASSUME NEW h \in PhotoHands, NEW answered \in BOOLEAN, InsertPhoto(h, answered)
        PROVE  GalleryInv'
    BY <2>8, InsertKeepsGallery
  <2>9. ASSUME NEW h \in PhotoHands, StopUpload(h) PROVE GalleryInv'
    BY <2>9, DoneKeepsGallery DEF StopUpload
  <2>10. ASSUME NEW p \in Photos, SetCover(p) PROVE GalleryInv'
    BY <2>10, SetCoverKeepsGallery
  <2>11. ASSUME NEW list \in Seq(Photos), Reorder(list) PROVE GalleryInv'
    BY <2>11, ReorderKeepsGallery
  <2>12. \A p, q \in Photos : <<p>> \in Seq(Photos) /\ <<p, q>> \in Seq(Photos)
    OBVIOUS
  <2>13. CASE UNCHANGED galleryVars
    BY <2>13 DEF galleryVars, GalleryInv, GalleryTypes, AloneWithTheFile, StoredBeforeShown,
       PlacesAreTaken, At, Careful, Listed, Variants, Renditions, Longest
  <2> QED
    BY <2>1, <2>2, <2>3, <2>4, <2>5, <2>6, <2>7, <2>8, <2>9, <2>10, <2>11, <2>12, <2>13
       DEF GalleryNext
<1> QED
    BY <1>1, GalleryInitInv, PTL DEF GallerySpec

\* The photos of a product, for any files and any number of requests: every photo on show
\* has the objects its row names, unless its file is in doubt, and a place of its own until
\* someone arranges them.
THEOREM PhotosStayWhole == GallerySpec => []EveryPhotoCanBeDrawn
    BY GalleryInvAlways, GalleryInvHolds, PTL
-----------------------------------------------------------------------------
(* The products bought together *)

Confirmation == [step : {"active", "writing", "committed"}, at : Nat]
Counting == [step : {"waiting", "window", "count", "save"}, task : {"refresh", "rebuild"},
             since : Nat, from : Int, upTo : Int, mine : [BasketPairs -> Nat]]
CopurchaseTypes ==
    /\ minute \in Nat \ {0} /\ watermark \in Int
    /\ together \in [BasketPairs -> Nat]
    /\ confirmed \in [BasketOrders -> Confirmation]
    /\ refresher \in [Refreshers -> {AtRest} \union Counting]

\* The orders up to a time, landed or not.
Until(t) == {o \in BasketOrders : confirmed[o].step # "active" /\ confirmed[o].at <= t}
\* Nobody can be confirmed with such a time any more, and who was has landed.
Past(t) == t <= 0 \/ t <= minute - LagWindow
\* A confirmation carries a time that was, and is open only so long.
TimesAreTrue ==
    \A o \in BasketOrders : confirmed[o].step # "active" =>
        /\ confirmed[o].at \in 1..minute
        /\ confirmed[o].step = "writing" => minute <= confirmed[o].at + CommitDelay
\* Whoever counts holds the right number for the orders up to where it is.
RightSoFar(r) ==
    /\ Past(refresher[r].from)
    /\ \A pq \in BasketPairs :
         KeptBy(r)[pq] + refresher[r].mine[pq] = Counts(Until(refresher[r].from), pq)
CountIsRight(r) ==
    /\ refresher[r].since <= minute
    /\ CASE refresher[r].step = "waiting" -> refresher[r].mine = Nothing /\ refresher[r].from = 0
         [] refresher[r].step = "window" ->
              RightSoFar(r) /\ (refresher[r].from = 0 \/ refresher[r].from <= Cutoff(r))
         [] refresher[r].step = "count" ->
              /\ RightSoFar(r)
              /\ refresher[r].from < refresher[r].upTo /\ refresher[r].upTo <= Cutoff(r)
         [] OTHER -> RightSoFar(r)
CountsAreRight ==
    \A r \in Refreshers :
        refresher[r].step \in {"waiting", "window", "count", "save"} => CountIsRight(r)
\* One at a time is past the lock.
Inside(r) == refresher[r].step \in {"window", "count", "save"}
OneAtATime == \A r, k \in Refreshers : Inside(r) /\ Inside(k) => r = k
CopurchaseInv ==
    /\ CopurchaseTypes /\ TimesAreTrue /\ CountsAreRight /\ OneAtATime /\ Past(watermark)
    /\ EveryBasketCountsOnce

\* What is past has landed.
LEMMA PastHasLanded ==
    ASSUME CopurchaseInv, NEW t \in Int, Past(t), NEW o \in Until(t)
    PROVE  confirmed[o].step = "committed" /\ confirmed[o].at \in 1..minute
<1>1. /\ o \in BasketOrders /\ confirmed[o].step # "active" /\ confirmed[o].at <= t
      /\ confirmed[o].at \in 1..minute /\ minute \in Nat
      /\ confirmed[o].step = "writing" => minute <= confirmed[o].at + CommitDelay
      /\ confirmed[o].step \in {"active", "writing", "committed"}
    BY DEF CopurchaseInv, CopurchaseTypes, TimesAreTrue, Until, Confirmation
<1>2. t <= minute - LagWindow
    BY <1>1 DEF Past
<1>3. LagWindow \in Nat /\ CommitDelay \in Nat /\ CommitDelay < LagWindow
    BY CopurchaseAssumption
<1>4. confirmed[o].step # "writing"
    BY <1>1, <1>2, <1>3
<1> QED
    BY <1>1, <1>4

\* Two batches that follow each other are counted apart.
LEMMA CountsAddUp ==
    ASSUME NEW S \in SUBSET BasketOrders, NEW T \in SUBSET BasketOrders, S \cap T = {},
           NEW pq \in BasketPairs
    PROVE  /\ Counts(S, pq) \in Nat
           /\ Counts(S \union T, pq) = Counts(S, pq) + Counts(T, pq)
           /\ Counts({}, pq) = 0
<1> DEFINE F(U) == {o \in U : /\ Cardinality(Baskets[o]) \in 2..MaxBasketSize
                              /\ {pq[1], pq[2]} \subseteq Baskets[o]}
<1>1. IsFiniteSet(F(S)) /\ IsFiniteSet(F(T))
    BY CopurchaseAssumption, FS_Subset DEF BasketOrders
<1>2. F(S \union T) = F(S) \union F(T) /\ F(S) \cap F(T) = {} /\ F({}) = {}
    OBVIOUS
<1>3. \A U : Counts(U, pq) = Cardinality(F(U))
    BY DEF Counts
<1> HIDE DEF F
<1>4. Cardinality(F(S) \union F(T)) = Cardinality(F(S)) + Cardinality(F(T))
  <2>1. Cardinality(F(S) \union F(T))
          = Cardinality(F(S)) + Cardinality(F(T)) - Cardinality(F(S) \cap F(T))
    BY <1>1, FS_Union
  <2>2. Cardinality(F(S) \cap F(T)) = 0
    BY <1>2, FS_EmptySet
  <2>3. Cardinality(F(S)) \in Nat /\ Cardinality(F(T)) \in Nat
    BY <1>1, FS_CardinalityType
  <2> QED
    BY <2>1, <2>2, <2>3
<1>5. Cardinality(F(S)) \in Nat /\ Cardinality(F({})) = 0
    BY <1>1, <1>2, FS_EmptySet, FS_CardinalityType
<1>6. Counts(S \union T, pq) = Cardinality(F(S) \union F(T)) /\ Counts({}, pq) = Cardinality(F({}))
    BY <1>2, <1>3
<1> QED
    BY <1>3, <1>4, <1>5, <1>6

\* A batch ends at the time of one of its orders.
LEMMA BatchEndsInTheBatch ==
    ASSUME CopurchaseInv, NEW S \in SUBSET BasketOrders, S # {}, NEW b \in Nat,
           \A o \in S : confirmed[o].at <= b
    PROVE  \E o \in S : BatchEnd(S) = confirmed[o].at
<1> DEFINE Times == {confirmed[o].at : o \in S}
           Few == IF Cardinality(S) < BatchOrders THEN Cardinality(S) ELSE BatchOrders
           T == {t \in Times : Cardinality({o \in S : confirmed[o].at <= t}) >= Few}
<1>1. Times \in SUBSET Nat /\ Times # {} /\ \A m \in Times : m <= b
    BY DEF CopurchaseInv, CopurchaseTypes, Confirmation
<1>2. Max(Times) \in Times /\ \A m \in Times : m <= Max(Times)
  <2> HIDE DEF Times
  <2> QED
    BY <1>1, LargestOfBounded
<1>3. {o \in S : confirmed[o].at <= Max(Times)} = S
    BY <1>2
<1>4. Cardinality(S) \in Nat /\ BatchOrders \in Nat
    BY CopurchaseAssumption, FS_Subset, FS_CardinalityType DEF BasketOrders
<1>5. Cardinality(S) >= Few
    BY <1>4
<1>6. Max(Times) \in T
  <2> HIDE DEF Times, Few
  <2> QED
    BY <1>2, <1>3, <1>5
<1>7. T \in SUBSET Nat /\ T # {} /\ T \subseteq Times
    BY <1>1, <1>6
<1>8. BatchEnd(S) = Min(T)
    BY DEF BatchEnd
<1>9. Min(T) \in T
  <2> HIDE DEF T
  <2>1. PICK n \in T : \A m \in T : n <= m
    BY <1>7, Smallest
  <2> QED
    BY <2>1 DEF Min
<1>10. BatchEnd(S) \in Times
  <2> HIDE DEF T, Times
  <2> QED
    BY <1>7, <1>8, <1>9
<1> QED
    BY <1>10

\* Nothing that is past changes when a minute passes or an order is confirmed or lands.
LEMMA PastStays ==
    ASSUME CopurchaseInv, NEW t \in Int, Past(t),
           Minute \/ \E o \in BasketOrders : Confirm(o) \/ Land(o)
    PROVE  Past(t)' /\ Until(t)' = Until(t)
<1>1. minute \in Nat \ {0} /\ LagWindow \in Nat \ {0}
    BY CopurchaseAssumption DEF CopurchaseInv, CopurchaseTypes
<1>2. CASE Minute
    BY <1>1, <1>2 DEF Minute, Past, Until
<1>3. ASSUME NEW o \in BasketOrders, Confirm(o)
      PROVE  Past(t)' /\ Until(t)' = Until(t)
  <2>1. /\ minute' = minute /\ confirmed[o].step = "active" /\ confirmed'[o].at = minute
        /\ \A p \in BasketOrders : p # o => confirmed'[p] = confirmed[p]
    BY <1>3 DEF Confirm, CopurchaseInv, CopurchaseTypes
  <2>2. ~(minute <= t)
    BY <1>1 DEF Past
  <2> QED
    BY <2>1, <2>2 DEF Past, Until
<1>4. ASSUME NEW o \in BasketOrders, Land(o)
      PROVE  Past(t)' /\ Until(t)' = Until(t)
  <2>1. /\ minute' = minute /\ confirmed[o].step # "active" /\ confirmed'[o].step # "active"
        /\ confirmed'[o].at = confirmed[o].at
        /\ \A p \in BasketOrders : p # o => confirmed'[p] = confirmed[p]
    BY <1>4 DEF Land, CopurchaseInv, CopurchaseTypes, Confirmation
  <2> QED
    BY <2>1 DEF Past, Until
<1> QED
    BY <1>2, <1>3, <1>4

\* The world goes on while others count.
LEMMA WorldKeepsCopurchase ==
    ASSUME CopurchaseInv, Minute \/ \E o \in BasketOrders : Confirm(o) \/ Land(o)
    PROVE  CopurchaseInv'
<1>1. UNCHANGED <<together, watermark, refresher>> /\ minute' \in Nat \ {0} /\ minute <= minute'
    BY DEF Minute, Confirm, Land, CopurchaseInv, CopurchaseTypes
<1>2. confirmed' \in [BasketOrders -> Confirmation] /\ TimesAreTrue'
  <2>1. minute \in Nat \ {0} /\ CommitDelay \in Nat /\ confirmed \in [BasketOrders -> Confirmation]
    BY CopurchaseAssumption DEF CopurchaseInv, CopurchaseTypes
  <2>2. CASE Minute
    BY <2>1, <2>2 DEF Minute, CopurchaseInv, TimesAreTrue, Confirmation
  <2>3. ASSUME NEW o \in BasketOrders, Confirm(o)
        PROVE  confirmed' \in [BasketOrders -> Confirmation] /\ TimesAreTrue'
    <3>1. /\ confirmed' = [confirmed EXCEPT ![o] = [step |-> "writing", at |-> minute]]
          /\ minute' = minute
      BY <2>3 DEF Confirm
    <3>2. [step |-> "writing", at |-> minute] \in Confirmation
      BY <2>1 DEF Confirmation
    <3>3. confirmed' \in [BasketOrders -> Confirmation]
      BY <2>1, <3>1, <3>2
    <3>4. confirmed'[o].at = minute /\ \A p \in BasketOrders : p # o => confirmed'[p] = confirmed[p]
      BY <2>1, <3>1
    <3> QED
      BY <2>1, <3>1, <3>3, <3>4 DEF CopurchaseInv, TimesAreTrue
  <2>4. ASSUME NEW o \in BasketOrders, Land(o)
        PROVE  confirmed' \in [BasketOrders -> Confirmation] /\ TimesAreTrue'
    <3>1. /\ confirmed' \in [BasketOrders -> Confirmation] /\ minute' = minute
          /\ confirmed'[o].step = "committed" /\ confirmed'[o].at = confirmed[o].at
          /\ \A p \in BasketOrders : p # o => confirmed'[p] = confirmed[p]
          /\ confirmed[o].step = "writing"
      BY <2>1, <2>4 DEF Land, Confirmation
    <3> QED
      BY <2>1, <3>1 DEF CopurchaseInv, TimesAreTrue
  <2> QED
    BY <2>2, <2>3, <2>4
<1>3. CopurchaseTypes'
    BY <1>1, <1>2 DEF CopurchaseInv, CopurchaseTypes, BasketPairs, BasketOrders, Counting, AtRest
<1>4. Past(watermark)' /\ EveryBasketCountsOnce'
  <2>1. Past(watermark) /\ watermark \in Int /\ watermark' = watermark
    BY <1>1 DEF CopurchaseInv, CopurchaseTypes
  <2>2. PICK w \in Int : w = watermark
    BY <2>1
  <2>3. Past(w)' /\ Until(w)' = Until(w)
    BY <2>1, <2>2, PastStays
  <2>4. /\ EveryBasketCountsOnce <=> \A pq \in BasketPairs : together[pq] = Counts(Until(w), pq)
        /\ EveryBasketCountsOnce' <=> \A pq \in BasketPairs : together'[pq] = Counts(Until(w)', pq)
    BY <2>1, <2>2 DEF EveryBasketCountsOnce, Until, Counts, BasketPairs, BasketOrders
  <2> QED
    BY <1>1, <2>1, <2>2, <2>3, <2>4 DEF CopurchaseInv, Past
<1>5. CountsAreRight'
  <2> SUFFICES ASSUME NEW r \in Refreshers, refresher[r].step \in {"waiting", "window", "count", "save"}
               PROVE  CountIsRight(r)'
    BY <1>1 DEF CountsAreRight
  <2>1. CountIsRight(r) /\ refresher[r] \in Counting
    BY DEF CopurchaseInv, CopurchaseTypes, CountsAreRight, AtRest
  <2>2. PICK t \in Int : t = refresher[r].from
    BY <2>1 DEF Counting
  <2>3. Past(t) => Past(t)' /\ Until(t)' = Until(t)
    BY PastStays
  <2>4. refresher[r].since <= minute'
    BY <1>1, <2>1 DEF CountIsRight, Counting, CopurchaseInv, CopurchaseTypes
  <2>5. \A pq \in BasketPairs : Until(t)' = Until(t) => Counts(Until(t), pq)' = Counts(Until(t), pq)
    BY DEF Counts
  <2>6. RightSoFar(r) => RightSoFar(r)'
    BY <1>1, <2>2, <2>3, <2>5 DEF RightSoFar, KeptBy, Past, BasketPairs, BasketOrders, Nothing
  <2> QED
    BY <1>1, <2>1, <2>4, <2>6 DEF CountIsRight, Cutoff, BasketPairs, BasketOrders, Nothing
<1>6. OneAtATime'
    BY <1>1 DEF CopurchaseInv, OneAtATime, Inside
<1> QED
    BY <1>2, <1>3, <1>4, <1>5, <1>6 DEF CopurchaseInv

\* One counter steps, and its own number stays right.
LEMMA CounterKeepsCopurchase ==
    ASSUME CopurchaseInv, NEW r \in Refreshers, NEW c, refresher' = [refresher EXCEPT ![r] = c],
           UNCHANGED <<minute, confirmed>>,
           c = AtRest \/ (c \in Counting /\ CountIsRight(r)'),
           Inside(r) \/ ~Locked \/ c = AtRest \/ c.step = "waiting",
           Inside(r) \/ UNCHANGED together,
           together' \in [BasketPairs -> Nat], watermark' \in Int,
           Past(watermark)', EveryBasketCountsOnce'
    PROVE  CopurchaseInv'
<1>1. /\ refresher' \in [Refreshers -> {AtRest} \union Counting] /\ refresher'[r] = c
      /\ \A k \in Refreshers : k # r => refresher'[k] = refresher[k]
    BY DEF CopurchaseInv, CopurchaseTypes
<1>2. CopurchaseTypes'
    BY <1>1 DEF CopurchaseInv, CopurchaseTypes, BasketPairs, BasketOrders, Counting, AtRest
<1>3. TimesAreTrue'
    BY DEF CopurchaseInv, TimesAreTrue
<1>4. CountsAreRight'
  <2>1. ASSUME NEW k \in Refreshers, k # r, refresher'[k].step \in {"waiting", "window", "count", "save"}
        PROVE  CountIsRight(k)'
    <3>1. CountIsRight(k) /\ refresher[k] \in Counting
      BY <1>1, <2>1 DEF CopurchaseInv, CopurchaseTypes, CountsAreRight, AtRest
    <3>2. Inside(k) => together' = together
      BY <2>1 DEF CopurchaseInv, OneAtATime
    <3>3. Inside(k) /\ RightSoFar(k) => RightSoFar(k)'
      BY <1>1, <2>1, <3>2 DEF RightSoFar, KeptBy, Past, Until, Counts, BasketPairs, BasketOrders, Nothing
    <3>4. Inside(k) \/ refresher[k].step = "waiting"
      BY <3>1 DEF Inside, Counting
    <3> QED
      BY <1>1, <2>1, <3>1, <3>3, <3>4 DEF CountIsRight, Inside, Cutoff, BasketPairs, BasketOrders, Nothing
  <2>2. refresher'[r].step \in {"waiting", "window", "count", "save"} => CountIsRight(r)'
    BY <1>1 DEF AtRest
  <2> QED
    BY <2>1, <2>2 DEF CountsAreRight
<1>5. OneAtATime'
  <2>1. \A k \in Refreshers : Inside(k)' => Inside(k) \/ (k = r /\ ~Locked)
    BY <1>1 DEF Inside, AtRest
  <2>2. \A k \in Refreshers : Inside(k) => Locked
    BY DEF Inside, Locked
  <2>3. \A k \in Refreshers : k # r => (Inside(k)' <=> Inside(k))
    BY <1>1 DEF Inside
  <2> QED
    BY <2>1, <2>2, <2>3 DEF CopurchaseInv, OneAtATime
<1> QED
    BY <1>2, <1>3, <1>4, <1>5 DEF CopurchaseInv

\* What a counter needs to know of itself.
LEMMA ACounter ==
    ASSUME CopurchaseInv, NEW r \in Refreshers, refresher[r].step # "off"
    PROVE  /\ refresher[r] \in Counting /\ CountIsRight(r)
           /\ minute \in Nat \ {0} /\ LagWindow \in Nat \ {0} /\ Cutoff(r) \in Int /\ Past(Cutoff(r))
<1>1. refresher[r] \in Counting
    BY DEF CopurchaseInv, CopurchaseTypes, AtRest
<1>2. CountIsRight(r)
    BY <1>1 DEF CopurchaseInv, CountsAreRight, Counting
<1>3. minute \in Nat \ {0} /\ LagWindow \in Nat \ {0}
    BY CopurchaseAssumption DEF CopurchaseInv, CopurchaseTypes
<1> QED
    BY <1>1, <1>2, <1>3 DEF Counting, CountIsRight, Cutoff, Past

\* While a counter counts, the table keeps what it has.
LEMMA TheTableStays ==
    ASSUME CopurchaseInv, UNCHANGED <<minute, confirmed, together, watermark>>
    PROVE  /\ together' \in [BasketPairs -> Nat] /\ watermark' \in Int
           /\ Past(watermark)' /\ EveryBasketCountsOnce'
<1>1. Until(watermark)' = Until(watermark)
    BY DEF Until, BasketOrders
<1> QED
    BY DEF CopurchaseInv, CopurchaseTypes, Past, EveryBasketCountsOnce, BasketPairs, BasketOrders, Counts

\* A counter begins with nothing.
LEMMA BeginKeepsCopurchase ==
    ASSUME CopurchaseInv, NEW r \in Refreshers, NEW task \in {"refresh", "rebuild"}, BeginCount(r, task)
    PROVE  CopurchaseInv'
<1> DEFINE c == [step |-> "waiting", task |-> task, since |-> minute,
                 from |-> 0, upTo |-> 0, mine |-> Nothing]
<1>1. refresher' = [refresher EXCEPT ![r] = c] /\ UNCHANGED <<minute, confirmed, together, watermark>>
    BY DEF BeginCount
<1>2. c \in Counting
  <2>1. Nothing \in [BasketPairs -> Nat] /\ minute \in Nat
    BY DEF Nothing, CopurchaseInv, CopurchaseTypes
  <2> QED
    BY <2>1 DEF Counting
<1>3. /\ c.step = "waiting" /\ c.since = minute /\ c.from = 0 /\ c.mine = Nothing
    OBVIOUS
<1> HIDE DEF c
<1>4. refresher'[r] = c /\ minute \in Nat
    BY <1>1 DEF CopurchaseInv, CopurchaseTypes
<1>5. CountIsRight(r)'
    BY <1>1, <1>3, <1>4 DEF CountIsRight, Nothing, BasketPairs, BasketOrders
<1> QED
    BY <1>1, <1>2, <1>3, <1>5, TheTableStays, CounterKeepsCopurchase

\* The first one past the lock reads where the last one stopped.
LEMMA LockKeepsCopurchase ==
    ASSUME CopurchaseInv, NEW r \in Refreshers, LockWatermark(r)
    PROVE  CopurchaseInv'
<1> DEFINE was == refresher[r]
<1>1. /\ was.step = "waiting" /\ ~Locked /\ UNCHANGED <<minute, confirmed, together, watermark>>
      /\ \/ /\ was.task = "rebuild"
            /\ refresher' = [refresher EXCEPT ![r] = [was EXCEPT !.step = "window"]]
         \/ refresher' = [refresher EXCEPT ![r] = AtRest]
         \/ /\ was.task # "rebuild" /\ ~(Cutoff(r) <= watermark)
            /\ refresher' = [refresher EXCEPT ![r] =
                 [[was EXCEPT !.step = "window"] EXCEPT !.from = watermark]]
    BY DEF LockWatermark
<1>2. /\ was \in Counting /\ was.mine = Nothing /\ was.from = 0 /\ was.since <= minute
      /\ watermark \in Int /\ Cutoff(r) \in Int
    BY <1>1, ACounter DEF CountIsRight, CopurchaseInv, CopurchaseTypes
<1>3. CASE refresher' = [refresher EXCEPT ![r] = AtRest]
    BY <1>1, <1>3, TheTableStays, CounterKeepsCopurchase
<1>4. CASE /\ was.task = "rebuild"
           /\ refresher' = [refresher EXCEPT ![r] = [was EXCEPT !.step = "window"]]
  <2> DEFINE c == [was EXCEPT !.step = "window"]
  <2>1. /\ c \in Counting /\ c.step = "window" /\ c.mine = Nothing /\ c.from = 0
        /\ c.since = was.since /\ c.task = "rebuild"
    BY <1>2, <1>4 DEF Counting
  <2> HIDE DEF c
  <2>2. refresher' = [refresher EXCEPT ![r] = c] /\ refresher'[r] = c
    BY <1>4 DEF c, CopurchaseInv, CopurchaseTypes
  <2>3. Until(0)' = {}
    BY <1>1 DEF Until, CopurchaseInv, TimesAreTrue, CopurchaseTypes
  <2>4. \A pq \in BasketPairs : Counts({}, pq) = 0
    BY CountsAddUp
  <2>5. Until(refresher[r].from)' = {} /\ Past(refresher[r].from)'
    BY <2>1, <2>2, <2>3 DEF Until, Past
  <2>6. \A pq \in BasketPairs : c.mine[pq] = 0 /\ Nothing[pq] = 0
    BY <2>1 DEF Nothing
  <2>7. KeptBy(r)' = Nothing
    BY <2>1, <2>2 DEF KeptBy, Nothing, BasketPairs, BasketOrders
  <2>8. RightSoFar(r)'
    <3>1. ASSUME NEW pq \in BasketPairs
          PROVE  (KeptBy(r)[pq] + refresher[r].mine[pq] = Counts(Until(refresher[r].from), pq))'
      <4>1. Counts(Until(refresher[r].from), pq)' = Counts({}, pq)
        BY <2>5 DEF Counts
      <4>2. KeptBy(r)'[pq] = 0 /\ refresher'[r].mine[pq] = 0
        BY <2>2, <2>6, <2>7
      <4> QED
        BY <2>4, <4>1, <4>2
    <3> QED
      BY <2>5, <3>1 DEF RightSoFar, BasketPairs, BasketOrders
  <2>9. CountIsRight(r)'
    BY <1>1, <1>2, <2>1, <2>2, <2>8 DEF CountIsRight
  <2> QED
    BY <1>1, <2>1, <2>2, <2>9, TheTableStays, CounterKeepsCopurchase
<1>5. CASE /\ was.task # "rebuild" /\ ~(Cutoff(r) <= watermark)
           /\ refresher' = [refresher EXCEPT ![r] =
                 [[was EXCEPT !.step = "window"] EXCEPT !.from = watermark]]
  <2> DEFINE c == [[was EXCEPT !.step = "window"] EXCEPT !.from = watermark]
  <2>1. /\ c \in Counting /\ c.step = "window" /\ c.mine = Nothing /\ c.from = watermark
        /\ c.since = was.since /\ c.task # "rebuild"
    BY <1>2, <1>5 DEF Counting
  <2> HIDE DEF c
  <2>2. refresher' = [refresher EXCEPT ![r] = c] /\ refresher'[r] = c
    BY <1>5 DEF c, CopurchaseInv, CopurchaseTypes
  <2>3. PICK w \in Int : w = watermark
    BY <1>2
  <2>4. \A pq \in BasketPairs : together[pq] = Counts(Until(w), pq) /\ together[pq] \in Nat
    BY <2>3 DEF CopurchaseInv, CopurchaseTypes, EveryBasketCountsOnce, Until
  <2>5. Past(w) /\ Past(w)' /\ Until(w)' = Until(w) /\ Cutoff(r)' = Cutoff(r)
    BY <1>1, <2>1, <2>2, <2>3 DEF CopurchaseInv, Past, Until, BasketOrders, Cutoff
  <2>6. KeptBy(r)' = together /\ \A pq \in BasketPairs : Nothing[pq] = 0
    BY <1>1, <2>1, <2>2 DEF KeptBy, Nothing
  <2>7. \A pq \in BasketPairs : KeptBy(r)'[pq] + c.mine[pq] = Counts(Until(w), pq)
    BY <2>1, <2>4, <2>6
  <2>8. RightSoFar(r)'
    BY <2>1, <2>2, <2>3, <2>5, <2>7 DEF RightSoFar, Past, Until, Counts, BasketPairs, BasketOrders
  <2>9. CountIsRight(r)'
    BY <1>1, <1>2, <1>5, <2>1, <2>2, <2>3, <2>5, <2>8 DEF CountIsRight
  <2> QED
    BY <1>1, <2>1, <2>2, <2>9, TheTableStays, CounterKeepsCopurchase
<1> QED
    BY <1>1, <1>3, <1>4, <1>5

\* The next batch ends before the orders that may still land.
LEMMA SeeKeepsCopurchase ==
    ASSUME CopurchaseInv, NEW r \in Refreshers, SeeWindow(r)
    PROVE  CopurchaseInv'
<1> DEFINE was == refresher[r]
           S == Between(was.from, Cutoff(r))
<1>1. /\ was.step = "window" /\ UNCHANGED <<minute, confirmed, together, watermark>>
      /\ S = {} => refresher' = [refresher EXCEPT ![r] =
                                  [[was EXCEPT !.step = "save"] EXCEPT !.from = Cutoff(r)]]
      /\ S # {} => refresher' = [refresher EXCEPT ![r] =
                                  [[was EXCEPT !.step = "count"] EXCEPT !.upTo = BatchEnd(S)]]
    BY DEF SeeWindow
<1>2. /\ was \in Counting /\ RightSoFar(r) /\ was.since <= minute
      /\ was.from = 0 \/ was.from <= Cutoff(r)
      /\ Cutoff(r) \in Int /\ Past(Cutoff(r)) /\ was.from \in Int
    BY <1>1, ACounter DEF CountIsRight, Counting
<1>3. PICK f \in Int : f = was.from
    BY <1>2
<1>4. PICK t \in Int : t = Cutoff(r)
    BY <1>2
<1>5. \A o \in BasketOrders : confirmed[o].at \in Nat /\ (confirmed[o].step # "active" => confirmed[o].at \in 1..minute)
    BY DEF CopurchaseInv, CopurchaseTypes, TimesAreTrue, Confirmation
<1>6. /\ \A pq \in BasketPairs : KeptBy(r)[pq] + was.mine[pq] = Counts(Until(f), pq)
      /\ Past(f) /\ Past(t) /\ Past(f)' /\ Past(t)'
      /\ Until(f)' = Until(f) /\ Until(t)' = Until(t)
    BY <1>1, <1>2, <1>3, <1>4 DEF RightSoFar, Past, Until, BasketOrders
<1>7. CASE S = {}
  <2> DEFINE c == [[was EXCEPT !.step = "save"] EXCEPT !.from = Cutoff(r)]
  <2>1. /\ c \in Counting /\ c.step = "save" /\ c.mine = was.mine /\ c.from = t /\ c.since = was.since
        /\ c.task = was.task
    BY <1>2, <1>4 DEF Counting
  <2>2. refresher' = [refresher EXCEPT ![r] = c]
    BY <1>1, <1>7
  <2> HIDE DEF c
  <2>3. refresher'[r] = c
    BY <2>2 DEF CopurchaseInv, CopurchaseTypes
  <2>4. Until(t) = Until(f)
    <3>1. CASE f <= t
      <4>1. \A o \in Until(t) : o \in Until(f)
        <5>1. ASSUME NEW o \in Until(t), ~(confirmed[o].at <= f) PROVE FALSE
          <6>1. confirmed[o].step = "committed" /\ confirmed[o].at \in 1..minute /\ o \in BasketOrders
            BY <1>6, <5>1, PastHasLanded DEF Until
          <6>2. o \in S
            BY <1>3, <1>4, <5>1, <6>1 DEF Between, Until
          <6> QED
            BY <1>7, <6>2
        <5> QED
          BY <5>1 DEF Until
      <4> QED
        BY <1>5, <3>1, <4>1 DEF Until
    <3>2. CASE f = 0 /\ t < 0
      BY <1>5, <3>2 DEF Until
    <3> QED
      BY <1>2, <1>3, <1>4, <3>1, <3>2
  <2>5. KeptBy(r)' = KeptBy(r)
    BY <1>1, <2>1, <2>3 DEF KeptBy, Nothing, BasketPairs, BasketOrders
  <2>6. RightSoFar(r)'
    BY <1>6, <2>1, <2>3, <2>4, <2>5 DEF RightSoFar, Past, Until, Counts, BasketPairs, BasketOrders
  <2>7. CountIsRight(r)'
    BY <1>1, <1>2, <2>1, <2>3, <2>6 DEF CountIsRight
  <2> QED
    BY <1>1, <2>1, <2>2, <2>7, TheTableStays, CounterKeepsCopurchase DEF Inside
<1>8. CASE S # {}
  <2> DEFINE n == BatchEnd(S)
             c == [[was EXCEPT !.step = "count"] EXCEPT !.upTo = n]
  <2>1. n \in Int /\ f < n /\ n <= t
    <3>1. S \in SUBSET BasketOrders /\ \A o \in S : confirmed[o].at \in 1..minute /\ f < confirmed[o].at /\ confirmed[o].at <= t
      BY <1>3, <1>4, <1>5 DEF Between
    <3>2. minute \in Nat /\ \A o \in S : confirmed[o].at <= minute
      BY <3>1 DEF CopurchaseInv, CopurchaseTypes
    <3> HIDE DEF S
    <3>3. PICK o \in S : BatchEnd(S) = confirmed[o].at
      BY <1>8, <3>1, <3>2, BatchEndsInTheBatch
    <3> QED
      BY <3>1, <3>3
  <2>2. refresher' = [refresher EXCEPT ![r] = c]
    BY <1>1, <1>8
  <2> HIDE DEF n
  <2>3. /\ c \in Counting /\ c.step = "count" /\ c.mine = was.mine /\ c.from = f /\ c.since = was.since /\ c.upTo = n
        /\ c.task = was.task
    BY <1>2, <1>3, <2>1 DEF Counting
  <2> HIDE DEF c
  <2>4. refresher'[r] = c /\ Cutoff(r)' = t
    BY <1>1, <1>4, <2>2, <2>3 DEF CopurchaseInv, CopurchaseTypes, Cutoff
  <2>5. KeptBy(r)' = KeptBy(r)
    BY <1>1, <2>3, <2>4 DEF KeptBy, Nothing, BasketPairs, BasketOrders
  <2>6. RightSoFar(r)'
    BY <1>6, <2>3, <2>4, <2>5 DEF RightSoFar, Past, Until, Counts, BasketPairs, BasketOrders
  <2>7. CountIsRight(r)'
    BY <1>1, <1>2, <2>1, <2>3, <2>4, <2>6 DEF CountIsRight
  <2> QED
    BY <1>1, <2>2, <2>3, <2>7, TheTableStays, CounterKeepsCopurchase DEF Inside
<1> QED
    BY <1>7, <1>8

\* The orders of a batch are added once.
LEMMA CountKeepsCopurchase ==
    ASSUME CopurchaseInv, NEW r \in Refreshers, CountWindow(r)
    PROVE  CopurchaseInv'
<1> DEFINE was == refresher[r]
           S == Between(was.from, was.upTo)
           sum == [pq \in BasketPairs |-> was.mine[pq] + Counts(S, pq)]
           next == IF was.task = "rebuild" THEN "window" ELSE "save"
           c == [[[was EXCEPT !.mine = sum] EXCEPT !.from = was.upTo] EXCEPT !.step = next]
<1>1. /\ was.step = "count" /\ UNCHANGED <<minute, confirmed, together, watermark>>
      /\ refresher' = [refresher EXCEPT ![r] = c]
  <2>1. refresher' = [refresher EXCEPT ![r] =
                       [was EXCEPT !.mine = sum, !.from = was.upTo, !.step = next]]
    BY DEF CountWindow
  <2> HIDE DEF sum, next
  <2> QED
    BY <2>1 DEF CountWindow
<1>2. /\ was \in Counting /\ RightSoFar(r) /\ was.since <= minute
      /\ was.from < was.upTo /\ was.upTo <= Cutoff(r)
      /\ Cutoff(r) \in Int /\ Past(Cutoff(r)) /\ was.from \in Int /\ was.upTo \in Int
      /\ minute \in Nat \ {0} /\ LagWindow \in Nat \ {0}
    BY <1>1, ACounter DEF CountIsRight, Counting
<1>3. PICK f \in Int : f = was.from
    BY <1>2
<1>4. PICK t \in Int : t = was.upTo
    BY <1>2
<1>5. Past(t) /\ f < t
    BY <1>2, <1>3, <1>4 DEF Past
<1>6. Until(t) = Until(f) \union S /\ Until(f) \cap S = {}
  <2>1. \A o \in BasketOrders : confirmed[o].at \in Nat
    BY DEF CopurchaseInv, CopurchaseTypes, Confirmation
  <2>2. \A o \in Until(t) : confirmed[o].step = "committed"
    BY <1>5, PastHasLanded
  <2> QED
    BY <1>3, <1>4, <1>5, <2>1, <2>2 DEF Until, Between
<1>7. \A pq \in BasketPairs : sum[pq] \in Nat /\ KeptBy(r)[pq] + sum[pq] = Counts(Until(t), pq)
  <2> TAKE pq \in BasketPairs
  <2>1. Until(f) \in SUBSET BasketOrders /\ S \in SUBSET BasketOrders
    BY DEF Until, Between
  <2>2. /\ KeptBy(r)[pq] + was.mine[pq] = Counts(Until(f), pq)
        /\ KeptBy(r)[pq] \in Nat /\ was.mine[pq] \in Nat
    BY <1>2, <1>3 DEF RightSoFar, KeptBy, Nothing, Counting, CopurchaseInv, CopurchaseTypes
  <2>3. sum[pq] = was.mine[pq] + Counts(S, pq)
    OBVIOUS
  <2>4. S \cap Until(f) = {}
    BY <1>6
  <2> HIDE DEF S, sum
  <2>5. /\ Counts(Until(f), pq) \in Nat /\ Counts(S, pq) \in Nat
        /\ Counts(Until(f) \union S, pq) = Counts(Until(f), pq) + Counts(S, pq)
    BY <1>6, <2>1, <2>4, CountsAddUp
  <2> QED
    BY <1>6, <2>2, <2>3, <2>5
<1>8. sum \in [BasketPairs -> Nat] /\ next \in {"window", "save"}
    BY <1>7
<1> HIDE DEF sum, next
<1>9. /\ c \in Counting /\ c.step = next /\ c.mine = sum /\ c.from = t /\ c.since = was.since
      /\ c.task = was.task
    BY <1>2, <1>4, <1>8 DEF Counting
<1> HIDE DEF c
<1>10. refresher'[r] = c /\ Cutoff(r)' = Cutoff(r)
    BY <1>1, <1>9 DEF CopurchaseInv, CopurchaseTypes, Cutoff
<1>11. Until(t)' = Until(t) /\ Past(t)'
    BY <1>1, <1>5 DEF Until, Past, BasketOrders
<1>12. KeptBy(r)' = KeptBy(r)
    BY <1>1, <1>9, <1>10 DEF KeptBy, Nothing, BasketPairs, BasketOrders
<1>13. RightSoFar(r)'
    BY <1>7, <1>9, <1>10, <1>11, <1>12 DEF RightSoFar, Past, Until, Counts, BasketPairs, BasketOrders
<1>14. CountIsRight(r)'
    BY <1>1, <1>2, <1>4, <1>8, <1>9, <1>10, <1>13 DEF CountIsRight
<1> QED
    BY <1>1, <1>9, <1>14, TheTableStays, CounterKeepsCopurchase DEF Inside

\* What was counted and the watermark go into the tables together.
LEMMA SaveKeepsCopurchase ==
    ASSUME CopurchaseInv, NEW r \in Refreshers, SaveCount(r)
    PROVE  CopurchaseInv'
<1>1. /\ refresher[r].step = "save" /\ UNCHANGED <<minute, confirmed>>
      /\ together' = [pq \in BasketPairs |-> KeptBy(r)[pq] + refresher[r].mine[pq]]
      /\ watermark' = refresher[r].from
      /\ refresher' = [refresher EXCEPT ![r] = AtRest]
    BY DEF SaveCount
<1>2. refresher[r] \in Counting /\ RightSoFar(r)
    BY <1>1, ACounter DEF CountIsRight
<1>3. together' \in [BasketPairs -> Nat] /\ watermark' \in Int
  <2>1. \A pq \in BasketPairs : KeptBy(r)[pq] \in Nat /\ refresher[r].mine[pq] \in Nat
    BY <1>2 DEF Counting, KeptBy, Nothing, CopurchaseInv, CopurchaseTypes
  <2> QED
    BY <1>1, <1>2, <2>1 DEF Counting
<1>4. PICK f \in Int : f = refresher[r].from
    BY <1>2 DEF Counting
<1>5. Past(f) /\ \A pq \in BasketPairs : KeptBy(r)[pq] + refresher[r].mine[pq] = Counts(Until(f), pq)
    BY <1>2, <1>4 DEF RightSoFar
<1>6. Past(f)' /\ Until(f)' = Until(f)
    BY <1>1, <1>5 DEF Past, Until, BasketOrders
<1>7. Past(watermark)' /\ EveryBasketCountsOnce'
    BY <1>1, <1>4, <1>5, <1>6 DEF Past, EveryBasketCountsOnce, Until, Counts, BasketPairs, BasketOrders
<1>8. together' \in [BasketPairs' -> Nat]
    BY <1>3 DEF BasketPairs, BasketOrders
<1> QED
    BY <1>1, <1>3, <1>7, CounterKeepsCopurchase DEF Inside

\* The invariant of the counting job holds of every behaviour.
LEMMA CopurchaseInvAlways == CopurchaseSpec => []CopurchaseInv
<1>1. CopurchaseInit => CopurchaseInv
  <2> SUFFICES ASSUME CopurchaseInit PROVE CopurchaseInv
    OBVIOUS
  <2>1. CopurchaseTypes
    BY DEF CopurchaseInit, CopurchaseTypes, Nothing, AtRest, Confirmation
  <2>2. TimesAreTrue /\ CountsAreRight /\ Past(watermark)
    BY DEF CopurchaseInit, TimesAreTrue, CountsAreRight, Past, AtRest
  <2>3. OneAtATime
    BY DEF CopurchaseInit, OneAtATime, Inside, AtRest
  <2>4. EveryBasketCountsOnce
    <3>1. \A pq \in BasketPairs : Counts({}, pq) = 0
      <4>1. {} \in SUBSET BasketOrders /\ {} \cap {} = {}
        OBVIOUS
      <4> QED
        BY <4>1, CountsAddUp
    <3>2. \A pq \in BasketPairs : together[pq] = 0
      BY DEF CopurchaseInit, Nothing
    <3>3. {o \in BasketOrders : confirmed[o].step # "active" /\ confirmed[o].at <= watermark} = {}
      BY DEF CopurchaseInit
    <3> QED
      BY <3>1, <3>2, <3>3 DEF EveryBasketCountsOnce
  <2> QED
    BY <2>1, <2>2, <2>4, <2>3 DEF CopurchaseInv
<1>2. CopurchaseInv /\ [CopurchaseNext]_copurchaseVars => CopurchaseInv'
  <2> SUFFICES ASSUME CopurchaseInv, [CopurchaseNext]_copurchaseVars PROVE CopurchaseInv'
    OBVIOUS
  <2>1. CASE Minute \/ \E o \in BasketOrders : Confirm(o) \/ Land(o)
    BY <2>1, WorldKeepsCopurchase
  <2>2. ASSUME NEW r \in Refreshers, AbandonCount(r) PROVE CopurchaseInv'
    BY <2>2, TheTableStays, CounterKeepsCopurchase DEF AbandonCount
  <2>3. ASSUME NEW r \in Refreshers,
               \/ \E task \in {"refresh", "rebuild"} : BeginCount(r, task)
               \/ LockWatermark(r) \/ SeeWindow(r) \/ CountWindow(r) \/ SaveCount(r)
        PROVE  CopurchaseInv'
    BY <2>3, BeginKeepsCopurchase, LockKeepsCopurchase, SeeKeepsCopurchase, CountKeepsCopurchase,
       SaveKeepsCopurchase
  <2>4. CASE UNCHANGED copurchaseVars
    <3>1. UNCHANGED <<minute, confirmed, together, watermark, refresher>>
      BY <2>4 DEF copurchaseVars
    <3>2. CopurchaseTypes' /\ TimesAreTrue'
      BY <3>1 DEF CopurchaseInv, CopurchaseTypes, TimesAreTrue, BasketPairs, BasketOrders, Counting
    <3>3. CountsAreRight'
      <4>1. ASSUME NEW r \in Refreshers, refresher'[r].step \in {"waiting", "window", "count", "save"}
            PROVE  CountIsRight(r)'
        <5>1. CountIsRight(r)
          BY <3>1, <4>1 DEF CopurchaseInv, CountsAreRight
        <5>2. RightSoFar(r) => RightSoFar(r)'
          BY <3>1 DEF RightSoFar, KeptBy, Past, Until, Counts, BasketPairs, BasketOrders, Nothing
        <5> QED
          BY <3>1, <5>1, <5>2 DEF CountIsRight, Cutoff, BasketPairs, BasketOrders, Nothing
      <4> QED
        BY <4>1 DEF CountsAreRight
    <3>4. OneAtATime'
      BY <3>1 DEF CopurchaseInv, OneAtATime, Inside
    <3> QED
      BY <3>1, <3>2, <3>3, <3>4, TheTableStays DEF CopurchaseInv
  <2> QED
    BY <2>1, <2>2, <2>3, <2>4 DEF CopurchaseNext
<1> QED
    BY <1>1, <1>2, PTL DEF CopurchaseSpec

\* The number the store shows for two products is the number of orders up to the watermark
\* that hold both, for any orders and any number of replicas that take turns with a rebuild:
\* it rests on the lag, which is longer than a confirmation, and on the lock.
THEOREM BasketsCountOnce == CopurchaseSpec => []EveryBasketCountsOnce
    BY CopurchaseInvAlways, PTL DEF CopurchaseInv
-----------------------------------------------------------------------------
(* The curated library *)

\* What the library keeps of a version: once published it was read, unless a verdict fell
\* on another text than the one read.
Vetted(v) == /\ v \in Version
             /\ v.status = "published" => overtaken \/ v.text \in read
LibraryInv ==
    /\ Vetted(page)
    /\ earlier \in Seq(Version) /\ \A i \in 1..Len(earlier) : Vetted(earlier[i])
    /\ reading = NoText \/ reading \in read
    /\ overtaken \in BOOLEAN

\* Ingerir: whatever comes in waits in staging.
LEMMA IngerirKeepsLibrary ==
    ASSUME LibraryInv, NEW text \in Texts, Ingerir(text)
    PROVE  LibraryInv'
<1> DEFINE new == page'
<1>1. new \in Version /\ new.status = "staging"
  BY DEF Ingerir, Staged, Sanitizar, Version, Said
<1>2. Vetted(page)'
  BY <1>1 DEF Vetted
<1>3. earlier' \in Seq(Version) /\ \A i \in 1..Len(earlier') : Vetted(earlier'[i])
  <2>1. CASE page = NoPage
    BY <2>1 DEF Ingerir, LibraryInv, Vetted
  <2>2. CASE page # NoPage
    <3>1. earlier' = <<page>> \o earlier
      BY <2>2 DEF Ingerir
    <3>2. <<page>> \in Seq(Version) /\ Len(<<page>>) = 1 /\ <<page>>[1] = page
      BY DEF LibraryInv, Vetted
    <3>3. \A i \in 1..Len(earlier') : earlier'[i] = page \/ \E j \in 1..Len(earlier) : earlier'[i] = earlier[j]
      BY <3>1, <3>2 DEF LibraryInv
    <3>4. earlier' \in Seq(Version)
      BY <3>1, <3>2 DEF LibraryInv
    <3> QED
      BY <3>3, <3>4 DEF LibraryInv
  <2> QED
    BY <2>1, <2>2
<1>4. reading' = reading /\ read' = read /\ overtaken' = overtaken
  BY DEF Ingerir
<1>5. \A i \in 1..Len(earlier') : Vetted(earlier[i])' 
  BY <1>3, <1>4 DEF Vetted
<1> QED
  BY <1>2, <1>3, <1>4, <1>5 DEF LibraryInv

\* A verdict: what becomes citable was read, or the reviewer had another text open.
LEMMA JudgedKeepsLibrary ==
    ASSUME LibraryInv, NEW status \in {"published", "rejected"}, Judged(status)
    PROVE  LibraryInv'
<1>1. /\ reading \in read /\ page' = [page EXCEPT !.status = status]
      /\ earlier' = earlier /\ read' = read /\ reading' = NoText
      /\ overtaken' = (overtaken \/ page.text # reading)
  BY DEF Judged, LibraryInv
<1>2. page' \in Version /\ page'.text = page.text
  BY <1>1 DEF LibraryInv, Vetted, Version
<1>3. overtaken' \in BOOLEAN /\ (overtaken => overtaken') /\ (overtaken' \/ page.text \in read)
  BY <1>1 DEF LibraryInv
<1>4. Vetted(page)'
  BY <1>1, <1>2, <1>3 DEF LibraryInv, Vetted
<1>5. \A i \in 1..Len(earlier) : Vetted(earlier[i])'
  BY <1>1, <1>3 DEF LibraryInv, Vetted
<1>6. \A i \in 1..Len(earlier') : Vetted(earlier[i])'
  BY <1>1, <1>5
<1> QED
  BY <1>1, <1>3, <1>4, <1>6 DEF LibraryInv

\* Reverter takes back a version that was read if it was published.
LEMMA ReverterKeepsLibrary ==
    ASSUME LibraryInv, Reverter
    PROVE  LibraryInv'
<1>1. /\ earlier # <<>> /\ page' = earlier[1] /\ earlier' = Tail(earlier)
      /\ reading' = reading /\ read' = read /\ overtaken' = overtaken
  BY DEF Reverter, LibraryInv
<1>2. /\ Len(earlier) \in Nat \ {0} /\ earlier' \in Seq(Version)
      /\ \A i \in 1..Len(earlier') : i + 1 \in 1..Len(earlier) /\ earlier'[i] = earlier[i + 1]
  BY <1>1 DEF LibraryInv
<1>3. Vetted(page)'
  BY <1>1, <1>2 DEF LibraryInv, Vetted
<1>4. \A i \in 1..Len(earlier') : Vetted(earlier[i])'
  BY <1>1, <1>2 DEF LibraryInv, Vetted
<1> QED
  BY <1>1, <1>2, <1>3, <1>4 DEF LibraryInv

\* The invariant of the library holds of every behaviour.
LEMMA LibraryInvAlways == LibrarySpec => []LibraryInv
<1>1. LibraryInit => LibraryInv
  <2> SUFFICES ASSUME LibraryInit PROVE LibraryInv
    OBVIOUS
  <2>1. Vetted(page)
    BY DEF LibraryInit, Vetted, NoPage, NoText, Version, Said
  <2>2. earlier \in Seq(Version) /\ Len(earlier) = 0
    BY DEF LibraryInit
  <2>3. \A i \in 1..Len(earlier) : Vetted(earlier[i])
    BY <2>2
  <2>4. overtaken \in BOOLEAN /\ reading = NoText
    BY DEF LibraryInit
  <2> QED
    BY <2>1, <2>2, <2>3, <2>4 DEF LibraryInv
<1>2. LibraryInv /\ [LibraryNext]_libraryVars => LibraryInv'
  <2> SUFFICES ASSUME LibraryInv, [LibraryNext]_libraryVars PROVE LibraryInv'
    OBVIOUS
  <2>1. ASSUME NEW text \in Texts, Ingerir(text) PROVE LibraryInv'
    BY <2>1, IngerirKeepsLibrary
  <2>2. CASE Pendentes
    BY <2>2 DEF Pendentes, LibraryInv, Vetted
  <2>3. CASE Publicar \/ Rejeitar
    BY <2>3, JudgedKeepsLibrary DEF Publicar, Rejeitar
  <2>4. CASE Reverter
    BY <2>4, ReverterKeepsLibrary
  <2>5. CASE LibraryRestarts
    BY <2>5 DEF LibraryRestarts, LibraryInv, Vetted, NoPage, NoText, Version, Said
  <2>6. CASE UNCHANGED libraryVars
    BY <2>6 DEF libraryVars, LibraryInv, Vetted
  <2> QED
    BY <2>1, <2>2, <2>3, <2>4, <2>5, <2>6 DEF LibraryNext
<1> QED
  BY <1>1, <1>2, PTL DEF LibrarySpec

\* "Staging nunca chega à Alice" (curadoria): whatever the documents say, the sanitizer lets
\* through, and however many versions they had, every text that she can cite was read as it
\* is before it was published, or a verdict fell on another text than the one read.
THEOREM StagingNeverReachesAlice == LibrarySpec => []OnlyReadPagesAreCited
<1>1. LibraryInv => OnlyReadPagesAreCited
  BY DEF LibraryInv, Vetted, OnlyReadPagesAreCited, Buscar
<1> QED
  BY <1>1, LibraryInvAlways, PTL
-----------------------------------------------------------------------------
(* The papers of a product *)

\* A product, and what a request read of one.
IsProduct(p) ==
    /\ p = [status |-> p.status, reviewed |-> p.reviewed, supplied |-> p.supplied,
            price |-> p.price, cost |-> p.cost, stock |-> p.stock]
    /\ p.price \in Int /\ p.stock \in Int
InTable(p) == p = Absent \/ IsProduct(p)
\* A batch that was planned: what is to be written has an SKU, what is missing was there.
Planned(b, table) ==
    /\ b = [status |-> b.status, sheet |-> b.sheet, plan |-> b.plan, missing |-> b.missing]
    /\ b.status # "none" /\ b.sheet \in Sheets
    /\ DOMAIN b.plan = DOMAIN b.sheet.rows /\ DOMAIN b.plan = 1..Len(b.plan)
    /\ Len(b.plan) \in Nat
    /\ \A i \in DOMAIN b.plan : b.plan[i] \in {"create", "update"} => b.sheet.rows[i].sku \in Skus
    /\ \A s \in b.missing : s \in Skus /\ table[s] # Absent
BatchOK(b, table) == b = NoBatch \/ Planned(b, table)
\* What a request is at.
AtRow(w, batches) ==
    /\ w.batch \in Batches /\ batches[w.batch].status # "none"
    /\ w.row = 0 \/ /\ w.row \in DOMAIN batches[w.batch].sheet.rows
                    /\ batches[w.batch].sheet.rows[w.row].sku \in Skus
HandOK(w, batches, table) ==
    \/ w = Resting
    \/ w.job = "commit" /\ w.sku = "none" /\ AtRow(w, batches)
    \/ /\ w.job = "upsert" /\ AtRow(w, batches) /\ w.row # 0
       /\ w.sku = batches[w.batch].sheet.rows[w.row].sku
    \/ /\ w.job \in {"patch", "csv", "trail"} /\ w.sku \in Skus
       /\ w = [job |-> w.job, sku |-> w.sku, seen |-> w.seen, change |-> w.change]
       /\ w.change.price \in Int /\ w.change.stock \in Int
       /\ w.job = "csv" => w.change \in CsvRows
       /\ w.job # "csv" => w.seen.price \in Int /\ w.seen.stock \in Int
       /\ w.job = "patch" => w.seen # Absent /\ table[w.sku] # Absent
CatalogTypes ==
    /\ product = [s \in Skus |-> product[s]] /\ \A s \in Skus : InTable(product[s])
    /\ paper = [s \in Skus |-> paper[s]]
    /\ \A s \in Skus : paper[s] = [told |-> paper[s].told, chained |-> paper[s].chained]
    /\ books \in [Skus -> Int]
    /\ batch = [b \in Batches |-> batch[b]] /\ \A b \in Batches : BatchOK(batch[b], product)
    /\ work = [h \in Hands |-> work[h]] /\ \A h \in Hands : HandOK(work[h], batch, product)

\* A reading that is still what the row says.
Agrees(seen, p) ==
    IF p = Absent THEN seen = Absent
    ELSE seen # Absent /\ seen.price = p.price /\ seen.stock = p.stock
\* The papers of a product, and those that lack the trail of one edit.
Exact(p, note, sum) ==
    /\ note.chained /\ note.told = (IF p = Absent THEN 0 ELSE p.price)
    /\ sum = (IF p = Absent THEN 0 ELSE p.stock)
Owes(w, p, note, sum) ==
    /\ p # Absent /\ note.chained /\ note.told = w.seen.price
    /\ w.seen.price \in Int /\ w.seen.stock \in Int
    /\ p.price = Given(w.change.price, w.seen.price)
    /\ p.stock = sum + Given(w.change.stock, w.seen.stock) - w.seen.stock
Trailing(w, s) == w.job = "trail" /\ w.sku = s
ReadsRow(w, s) == w.job \in {"upsert", "patch", "csv"} /\ w.sku = s
\* A product that nobody wrote while somebody else held a reading of it: all readings are
\* true, and the papers are exact but for the one edit whose trail is not yet written.
Quiet(s, w, p, note, sum) ==
    /\ \A h \in Hands : ReadsRow(w[h], s) => Agrees(w[h].seen, p)
    /\ \A h \in Hands : Trailing(w[h], s) => Owes(w[h], p, note, sum)
    /\ \A g, h \in Hands : Trailing(w[g], s) /\ Trailing(w[h], s) => g = h
    /\ (\A h \in Hands : ~Trailing(w[h], s)) => Exact(p, note, sum)
QuietAll(s) == Quiet(s, work, product[s], paper[s], books[s])
CatalogInv == CatalogTypes /\ \A s \in Skus \ disturbed : QuietAll(s)

\* The invariant gives the promise.
LEMMA CatalogInvHolds == CatalogInv => QuietPapersAreExact
<1> SUFFICES ASSUME CatalogInv, NEW s \in Skus \ disturbed,
                    \A h \in Hands : work[h].job = "trail" => work[h].sku # s
             PROVE  /\ Exists(s) => paper[s].told = product[s].price
                    /\ paper[s].chained
                    /\ Units(s) = books[s]
    BY DEF QuietPapersAreExact
<1>1. Exact(product[s], paper[s], books[s])
    BY DEF CatalogInv, QuietAll, Quiet, Trailing
<1> QED
    BY <1>1 DEF Exact, Exists, Units

\* A request that goes on to something else leaves the papers as they are.
LEMMA ElsewhereIsQuiet ==
    ASSUME NEW s \in Skus, NEW w, NEW p, NEW note, NEW sum, Quiet(s, w, p, note, sum),
           w = [g \in Hands |-> w[g]],
           NEW h \in Hands, NEW x, ~Trailing(w[h], s), ~Trailing(x, s),
           ReadsRow(x, s) => Agrees(x.seen, p)
    PROVE  Quiet(s, [w EXCEPT ![h] = x], p, note, sum)
<1> DEFINE v == [w EXCEPT ![h] = x]
<1>1. v[h] = x /\ \A g \in Hands : g # h => v[g] = w[g]
    OBVIOUS
<1> HIDE DEF v
<1>2. Quiet(s, v, p, note, sum)
    BY <1>1 DEF Quiet
<1> QED
    BY <1>2 DEF v

\* A write that nobody else's reading is of: whoever wrote has nothing more to say, or owes
\* the trail.
LEMMA LoneWriteIsQuiet ==
    ASSUME NEW s \in Skus, NEW w, w = [g \in Hands |-> w[g]], NEW p, NEW note, NEW sum,
           NEW h \in Hands, NEW x, \A g \in Hands : g # h => w[g].sku # s,
           \/ x.sku # s /\ Exact(p, note, sum)
           \/ Trailing(x, s) /\ Owes(x, p, note, sum)
    PROVE  Quiet(s, [w EXCEPT ![h] = x], p, note, sum)
<1> DEFINE v == [w EXCEPT ![h] = x]
<1>1. v[h] = x /\ \A g \in Hands : g # h => v[g] = w[g]
    OBVIOUS
<1> HIDE DEF v
<1>2. Quiet(s, v, p, note, sum)
    BY <1>1 DEF Quiet, ReadsRow, Trailing
<1> QED
    BY <1>2 DEF v

\* A step of one request that writes no row of its product.
LEMMA StepOfAHand ==
    ASSUME CatalogInv, NEW h \in Hands, NEW x, work' = [work EXCEPT ![h] = x],
           UNCHANGED <<product, paper, books>>, disturbed \subseteq disturbed',
           batch' = [b \in Batches |-> batch'[b]],
           \A b \in Batches : BatchOK(batch'[b], product),
           HandOK(x, batch', product), \A g \in Hands : g # h => HandOK(work[g], batch', product),
           \A s \in Skus \ disturbed' :
               /\ ~Trailing(work[h], s) /\ ~Trailing(x, s)
               /\ ReadsRow(x, s) => Agrees(x.seen, product[s])
    PROVE  CatalogInv'
<1>1. /\ work' = [g \in Hands |-> work'[g]] /\ work'[h] = x
      /\ \A g \in Hands : g # h => work'[g] = work[g]
    BY DEF CatalogInv, CatalogTypes
<1>2. \A g \in Hands : HandOK(work'[g], batch', product)
    BY <1>1
<1>3. CatalogTypes'
    BY <1>1, <1>2 DEF CatalogInv, CatalogTypes
<1>4. ASSUME NEW s \in Skus \ disturbed' PROVE QuietAll(s)'
  <2>1. Quiet(s, work, product[s], paper[s], books[s]) /\ work = [g \in Hands |-> work[g]]
    BY <1>4 DEF CatalogInv, CatalogTypes, QuietAll
  <2>2. Quiet(s, [work EXCEPT ![h] = x], product[s], paper[s], books[s])
    BY <1>4, <2>1, ElsewhereIsQuiet
  <2> QED
    BY <2>2 DEF QuietAll
<1> QED
    BY <1>3, <1>4 DEF CatalogInv

\* A product keeps its readings and its papers when only its status changes.
LEMMA StatusIsNoPaper ==
    ASSUME NEW p, NEW q, InTable(p),
           q = p \/ (p # Absent /\ \E status : q = [p EXCEPT !.status = status])
    PROVE  /\ InTable(q) /\ (q = Absent <=> p = Absent)
           /\ \A seen : Agrees(seen, p) => Agrees(seen, q)
           /\ \A w, note, sum : Owes(w, p, note, sum) => Owes(w, q, note, sum)
           /\ \A note, sum : Exact(p, note, sum) => Exact(q, note, sum)
<1>1. CASE q = p
    BY <1>1
<1>2. CASE p # Absent /\ \E status : q = [p EXCEPT !.status = status]
  <2>1. PICK status : q = [p EXCEPT !.status = status]
    BY <1>2
  <2>2. q = [status |-> status, reviewed |-> p.reviewed, supplied |-> p.supplied,
             price |-> p.price, cost |-> p.cost, stock |-> p.stock]
    BY <1>2, <2>1 DEF InTable, IsProduct
  <2>3. q # Absent
    <3>1. "price" \in DOMAIN q /\ "price" \notin DOMAIN Absent
      BY <2>2 DEF Absent
    <3> QED
      BY <3>1
  <2>4. IsProduct(q) /\ q.price = p.price /\ q.stock = p.stock
    BY <1>2, <2>2 DEF InTable, IsProduct
  <2> QED
    BY <1>2, <2>3, <2>4 DEF InTable, Agrees, Owes, Exact
<1> QED
    BY <1>1, <1>2

\* Products are archived: no price and no stock changes, and nobody says anything new.
LEMMA ArchivingIsQuiet ==
    ASSUME CatalogInv, UNCHANGED <<paper, books, disturbed>>,
           product' = [s \in Skus |-> product'[s]],
           \A s \in Skus : \/ product'[s] = product[s]
                           \/ /\ product[s] # Absent
                              /\ \E status : product'[s] = [product[s] EXCEPT !.status = status],
           batch' = [b \in Batches |-> batch'[b]],
           \A b \in Batches : BatchOK(batch'[b], product),
           work' = [h \in Hands |-> work'[h]],
           \A h \in Hands : HandOK(work'[h], batch', product),
           \A s \in Skus \ disturbed : \A p, note, sum :
               Quiet(s, work, p, note, sum) => Quiet(s, work', p, note, sum)
    PROVE  CatalogInv'
<1>1. ASSUME NEW s \in Skus
      PROVE  /\ InTable(product'[s]) /\ (product'[s] = Absent <=> product[s] = Absent)
             /\ \A w, note, sum : Quiet(s, w, product[s], note, sum)
                                    => Quiet(s, w, product'[s], note, sum)
  <2>1. InTable(product[s])
    BY DEF CatalogInv, CatalogTypes
  <2>2. PICK p, q : p = product[s] /\ q = product'[s]
    OBVIOUS
  <2>3. /\ InTable(q) /\ (q = Absent <=> p = Absent)
        /\ \A seen : Agrees(seen, p) => Agrees(seen, q)
        /\ \A w, note, sum : Owes(w, p, note, sum) => Owes(w, q, note, sum)
        /\ \A note, sum : Exact(p, note, sum) => Exact(q, note, sum)
    BY <2>1, <2>2, StatusIsNoPaper
  <2> QED
    BY <2>2, <2>3 DEF Quiet
<1>2. \A b \in Batches : BatchOK(batch'[b], product')
    BY <1>1 DEF BatchOK, Planned
<1>3. \A h \in Hands : HandOK(work'[h], batch', product')
    BY <1>1 DEF HandOK
<1>4. CatalogTypes'
    BY <1>1, <1>2, <1>3 DEF CatalogInv, CatalogTypes
<1>5. ASSUME NEW s \in Skus \ disturbed PROVE QuietAll(s)'
  <2>1. Quiet(s, work, product[s], paper[s], books[s])
    BY DEF CatalogInv, QuietAll
  <2>2. Quiet(s, work', product[s], paper[s], books[s])
    BY <2>1
  <2> QED
    BY <1>1, <2>2 DEF QuietAll
<1> QED
    BY <1>4, <1>5 DEF CatalogInv

\* A write to one row by a request that read it, or that reads nothing.
LEMMA WriteOfAHand ==
    ASSUME CatalogInv, NEW h \in Hands, NEW s \in Skus, NEW p, NEW booked \in Int,
           Write(h, s, p, booked), NEW x, work' = [work EXCEPT ![h] = x], batch' = batch,
           HandOK(x, batch, product'), x.sku \in {s, "none"}, work[h].sku \in {s, "none"},
           IsProduct(p), p # Absent,
           NEW note, paper' = [paper EXCEPT ![s] = note],
           note = [told |-> note.told, chained |-> note.chained],
           s \notin disturbed /\ (\A g \in Hands : g # h => work[g].sku # s) =>
               \/ x.sku = "none" /\ Exact(p, note, books[s] + booked)
               \/ Trailing(x, s) /\ Owes(x, p, note, books[s] + booked)
    PROVE  CatalogInv'
<1>1. /\ work' = [g \in Hands |-> work'[g]] /\ work'[h] = x
      /\ \A g \in Hands : g # h => work'[g] = work[g]
    BY DEF CatalogInv, CatalogTypes
<1>2. /\ product' = [t \in Skus |-> product'[t]] /\ product'[s] = p
      /\ \A t \in Skus : t # s => product'[t] = product[t]
    BY DEF CatalogInv, CatalogTypes, Write
<1>3. /\ paper' = [t \in Skus |-> paper'[t]] /\ paper'[s] = note
      /\ \A t \in Skus : t # s => paper'[t] = paper[t]
    BY DEF CatalogInv, CatalogTypes
<1>4. /\ books' \in [Skus -> Int] /\ books'[s] = books[s] + booked
      /\ \A t \in Skus : t # s => books'[t] = books[t]
    BY DEF CatalogInv, CatalogTypes, Write
<1>5. /\ disturbed \subseteq disturbed'
      /\ s \notin disturbed' => \A g \in Hands : g # h => work[g].sku # s
    BY DEF Write, HoldsReading
<1>6. CatalogTypes'
  <2>1. \A t \in Skus : InTable(product'[t])
    BY <1>2 DEF CatalogInv, CatalogTypes, InTable
  <2>2. \A b \in Batches : BatchOK(batch'[b], product')
    BY <1>2 DEF CatalogInv, CatalogTypes, BatchOK, Planned
  <2>3. ASSUME NEW g \in Hands, g # h PROVE HandOK(work[g], batch, product')
    <3>1. HandOK(work[g], batch, product)
      BY DEF CatalogInv, CatalogTypes
    <3>2. \A t \in Skus : product[t] # Absent => product'[t] # Absent
      BY <1>2
    <3> QED
      BY <3>1, <3>2 DEF HandOK
  <2>4. \A t \in Skus : paper'[t] = [told |-> paper'[t].told, chained |-> paper'[t].chained]
    BY <1>3 DEF CatalogInv, CatalogTypes
  <2>5. batch' = [b \in Batches |-> batch'[b]]
    BY DEF CatalogInv, CatalogTypes
  <2>6. \A g \in Hands : HandOK(work'[g], batch', product')
    BY <1>1, <2>3
  <2> QED
    BY <1>1, <1>2, <1>3, <1>4, <2>1, <2>2, <2>4, <2>5, <2>6 DEF CatalogTypes
<1>7. "none" \notin Skus
    BY CatalogAssumption
<1>8. work = [g \in Hands |-> work[g]]
    BY DEF CatalogInv, CatalogTypes
<1>9. ASSUME NEW t \in Skus \ disturbed' PROVE QuietAll(t)'
  <2>1. Quiet(t, work, product[t], paper[t], books[t])
    BY <1>5, <1>9 DEF CatalogInv, QuietAll
  <2>2. CASE t # s
    <3>1. x.sku # t /\ work[h].sku # t
      BY <1>7, <2>2
    <3>2. ~Trailing(work[h], t) /\ ~Trailing(x, t) /\ ~ReadsRow(x, t)
      BY <3>1 DEF Trailing, ReadsRow
    <3>3. Quiet(t, [work EXCEPT ![h] = x], product[t], paper[t], books[t])
      BY <1>8, <2>1, <3>2, ElsewhereIsQuiet
    <3> QED
      BY <1>2, <1>3, <1>4, <2>2, <3>3 DEF QuietAll
  <2>3. CASE t = s
    <3>1. \A g \in Hands : g # h => work[g].sku # s
      BY <1>5, <1>9, <2>3
    <3>2. \/ x.sku # s /\ Exact(p, note, books'[s])
          \/ Trailing(x, s) /\ Owes(x, p, note, books'[s])
      BY <1>4, <1>5, <1>7, <1>9, <2>3, <3>1
    <3>3. PICK sum : sum = books'[s]
      OBVIOUS
    <3>4. Quiet(s, [work EXCEPT ![h] = x], p, note, sum)
      BY <1>8, <3>1, <3>2, <3>3, LoneWriteIsQuiet
    <3> QED
      BY <1>2, <1>3, <2>3, <3>3, <3>4 DEF QuietAll
  <2> QED
    BY <2>2, <2>3
<1> QED
    BY <1>6, <1>9 DEF CatalogInv

\* What the sheets hold.
LEMMA SheetsAreRows ==
    ASSUME NEW f \in Sheets
    PROVE  /\ Len(f.rows) \in Nat /\ DOMAIN f.rows = 1..Len(f.rows)
           /\ \A i \in DOMAIN f.rows :
                /\ f.rows[i].price \in Int /\ f.rows[i].stock \in Int /\ f.rows[i].cost \in Int
                /\ ~f.rows[i].unreadable => f.rows[i].sku \in Skus
<1> DEFINE row == SheetRow(Skus)
           list == f.rows
<1>1. list \in Seq(row)
    BY CatalogAssumption
<1>2. \A i \in DOMAIN list : list[i].sku = "" => list[i].unreadable
    BY CatalogAssumption
<1> HIDE DEF row, list
<1>3. /\ Len(list) \in Nat /\ DOMAIN list = 1..Len(list)
      /\ \A i \in DOMAIN list : list[i] \in row
    BY <1>1
<1>4. ASSUME NEW i \in DOMAIN list
      PROVE  /\ list[i].price \in Int /\ list[i].stock \in Int /\ list[i].cost \in Int
             /\ ~list[i].unreadable => list[i].sku \in Skus
  <2>1. list[i] \in SheetRow(Skus)
    BY <1>3 DEF row
  <2>2. /\ list[i].price \in Cell /\ list[i].stock \in Cell /\ list[i].cost \in Cell
        /\ list[i].unreadable \in BOOLEAN /\ list[i].sku \in Skus \union {""}
    BY <2>1 DEF SheetRow
  <2>3. Cell \subseteq Int
    BY DEF Cell, None
  <2> QED
    BY <1>2, <2>2, <2>3
<1> QED
    BY <1>3, <1>4 DEF list

\* CreateBatch plans: it writes nothing.
LEMMA DryRunIsQuiet ==
    ASSUME CatalogInv, NEW b \in Batches, NEW sheet \in Sheets, DryRun(b, sheet)
    PROVE  CatalogInv'
<1> DEFINE plan == PlanRows(sheet.rows, product, sheet.profile)
           missing == IF sheet.supplier THEN MissingSKUs(sheet.rows, product, sheet.profile) ELSE {}
           new == [status |-> "validated", sheet |-> sheet, plan |-> plan, missing |-> missing]
<1>1. /\ batch[b] = NoBatch /\ batch' = [batch EXCEPT ![b] = new]
      /\ UNCHANGED <<product, paper, books, disturbed, work>>
    BY DEF DryRun, rowVars
<1>2. /\ DOMAIN plan = DOMAIN sheet.rows /\ DOMAIN plan = 1..Len(plan) /\ Len(plan) \in Nat
      /\ \A i \in DOMAIN plan : plan[i] \in {"create", "update"} => sheet.rows[i].sku \in Skus
  <2>1. Len(sheet.rows) \in Nat /\ DOMAIN sheet.rows = 1..Len(sheet.rows)
    BY SheetsAreRows
  <2>2. PICK n \in Nat : n = Len(sheet.rows)
    BY <2>1
  <2>3. \A i \in DOMAIN sheet.rows : sheet.rows[i].unreadable => plan[i] = "reject"
    BY DEF PlanRows
  <2>4. DOMAIN plan = 1..n
    BY <2>1, <2>2 DEF PlanRows
  <2>5. Len(plan) = n
    BY <2>1, <2>2 DEF PlanRows
  <2> HIDE DEF plan
  <2> QED
    BY <2>1, <2>2, <2>3, <2>4, <2>5, SheetsAreRows
<1>3. \A s \in missing : s \in Skus /\ product[s] # Absent
    BY DEF MissingSKUs, CatalogInv, CatalogTypes
<1> HIDE DEF plan, missing
<1>4. Planned(new, product)
    BY <1>2, <1>3 DEF Planned
<1> HIDE DEF new
<1>5. /\ batch' = [c \in Batches |-> batch'[c]] /\ batch'[b] = new
      /\ \A c \in Batches : c # b => batch'[c] = batch[c]
    BY <1>1 DEF CatalogInv, CatalogTypes
<1>6. \A c \in Batches : BatchOK(batch'[c], product)
    BY <1>4, <1>5 DEF BatchOK, CatalogInv, CatalogTypes
<1>7. ASSUME NEW h \in Hands PROVE HandOK(work[h], batch', product)
  <2>1. HandOK(work[h], batch, product)
    BY DEF CatalogInv, CatalogTypes
  <2>2. batch[b].status = "none"
    BY <1>1 DEF NoBatch
  <2>3. AtRow(work[h], batch) => AtRow(work[h], batch') /\ batch'[work[h].batch] = batch[work[h].batch]
    BY <1>5, <2>2 DEF AtRow
  <2> QED
    BY <2>1, <2>3 DEF HandOK
<1>8. CatalogTypes'
    BY <1>1, <1>5, <1>6, <1>7 DEF CatalogInv, CatalogTypes
<1> QED
    BY <1>1, <1>8 DEF CatalogInv, QuietAll

\* A request that has nothing left to do.
LEMMA RestIsQuiet ==
    ASSUME CatalogInv, NEW h \in Hands, Rest(h), UNCHANGED <<product, paper, books, batch>>,
           disturbed \subseteq disturbed',
           \A s \in Skus \ disturbed' : ~Trailing(work[h], s)
    PROVE  CatalogInv'
<1>1. HandOK(Resting, batch', product)
    BY DEF HandOK
<1>2. \A s \in Skus : ~Trailing(Resting, s) /\ ~ReadsRow(Resting, s)
    BY DEF Resting, Trailing, ReadsRow
<1>3. /\ batch' = [b \in Batches |-> batch'[b]] /\ \A b \in Batches : BatchOK(batch'[b], product)
      /\ \A g \in Hands : HandOK(work[g], batch', product)
      /\ work' = [work EXCEPT ![h] = Resting]
    BY DEF CatalogInv, CatalogTypes, Rest, Do
<1> QED
    BY <1>1, <1>2, <1>3, StepOfAHand

\* The next row of a batch that is to be written, if there is one.
LEMMA NextRowIsARow ==
    ASSUME CatalogInv, NEW b \in Batches, batch[b].status # "none", NEW i \in Nat, i > 0
    PROVE  HandOK(Commit(b, i), batch, product)
<1> DEFINE n == NextRow(b, i)
           todo == {j \in i..Len(batch[b].plan) : batch[b].plan[j] \in {"create", "update"}}
<1>1. Planned(batch[b], product)
    BY DEF CatalogInv, CatalogTypes, BatchOK, NoBatch
<1>2. n = 0 \/ n \in todo
  <2>1. n = IF todo = {} THEN 0 ELSE CHOOSE j \in todo : \A k \in todo : j <= k
    BY DEF NextRow
  <2>2. todo \in SUBSET Nat
    OBVIOUS
  <2> HIDE DEF todo, n
  <2>3. todo # {} => \E j \in todo : \A k \in todo : j <= k
    BY <2>2, Smallest
  <2> QED
    BY <2>1, <2>3
<1>3. n \in todo => n \in DOMAIN batch[b].sheet.rows /\ batch[b].sheet.rows[n].sku \in Skus
  <2>1. ASSUME NEW j \in todo
        PROVE  j \in DOMAIN batch[b].sheet.rows /\ batch[b].sheet.rows[j].sku \in Skus
    <3>1. j \in DOMAIN batch[b].plan
      BY <1>1 DEF Planned
    <3> QED
      BY <1>1, <3>1 DEF Planned
  <2> QED
    BY <2>1
<1> HIDE DEF n, todo
<1>4. Commit(b, i) = [job |-> "commit", sku |-> "none", batch |-> b, row |-> n]
    BY DEF Commit, n
<1> QED
    BY <1>2, <1>3, <1>4 DEF HandOK, AtRow

\* CommitBatch reads the status of the batch and takes its first row.
LEMMA CommitBegins ==
    ASSUME CatalogInv, NEW h \in Hands, NEW b \in Batches, StartCommit(h, b)
    PROVE  CatalogInv'
<1>1. /\ work[h] = Resting /\ batch[b].status = "validated" /\ work' = [work EXCEPT ![h] = Commit(b, 1)]
      /\ UNCHANGED <<product, paper, books, disturbed, batch>>
    BY DEF StartCommit, Do, rowVars
<1>2. HandOK(Commit(b, 1), batch', product)
    BY <1>1, NextRowIsARow
<1>3. \A s \in Skus : /\ ~Trailing(work[h], s) /\ ~Trailing(Commit(b, 1), s)
                      /\ ~ReadsRow(Commit(b, 1), s)
    BY <1>1 DEF Resting, Commit, Trailing, ReadsRow
<1>4. /\ batch' = [c \in Batches |-> batch'[c]] /\ \A c \in Batches : BatchOK(batch'[c], product)
      /\ \A g \in Hands : HandOK(work[g], batch', product)
    BY <1>1 DEF CatalogInv, CatalogTypes
<1> DEFINE x == Commit(b, 1)
<1> HIDE DEF x
<1>5. /\ work' = [work EXCEPT ![h] = x] /\ HandOK(x, batch', product)
      /\ \A s \in Skus : ~Trailing(work[h], s) /\ ~Trailing(x, s) /\ ~ReadsRow(x, s)
    BY <1>1, <1>2, <1>3 DEF x
<1> QED
    BY <1>1, <1>4, <1>5, StepOfAHand

\* upsertRow reads the row of the product.
LEMMA ReadRowIsQuiet ==
    ASSUME CatalogInv, NEW h \in Hands, ReadRow(h)
    PROVE  CatalogInv'
<1> DEFINE sku == RowOf(h).sku
           x == [job |-> "upsert", sku |-> sku, batch |-> work[h].batch, row |-> work[h].row,
                 seen |-> product[sku]]
<1>1. /\ work[h].job = "commit" /\ work[h].sku = "none" /\ work[h].row # 0
      /\ work' = [work EXCEPT ![h] = x]
      /\ UNCHANGED <<product, paper, books, disturbed, batch>>
    BY DEF ReadRow, Do, rowVars
<1>2. HandOK(work[h], batch, product) /\ AtRow(work[h], batch)
    BY <1>1 DEF CatalogInv, CatalogTypes, HandOK, Resting
<1>3. HandOK(x, batch', product)
    BY <1>1, <1>2 DEF HandOK, AtRow, RowOf
<1>4. /\ \A s \in Skus : ~Trailing(work[h], s) /\ ~Trailing(x, s)
      /\ \A s \in Skus : ReadsRow(x, s) => x.seen = product[s]
    BY <1>1 DEF Trailing, ReadsRow
<1>5. \A s \in Skus : ReadsRow(x, s) => Agrees(x.seen, product[s])
    BY <1>4 DEF Agrees
<1>6. /\ batch' = [c \in Batches |-> batch'[c]] /\ \A c \in Batches : BatchOK(batch'[c], product)
      /\ \A g \in Hands : HandOK(work[g], batch', product)
    BY <1>1 DEF CatalogInv, CatalogTypes
<1> HIDE DEF x
<1> QED
    BY <1>1, <1>3, <1>4, <1>5, <1>6, StepOfAHand

\* A product is read to be edited, in the editor or by the old import.
LEMMA ReadingIsQuiet ==
    ASSUME CatalogInv, NEW h \in Hands, NEW s \in Skus, NEW change, NEW job \in {"patch", "csv"},
           work[h] = Resting,
           work' = [work EXCEPT ![h] = [job |-> job, sku |-> s, seen |-> product[s],
                                        change |-> change]],
           UNCHANGED <<product, paper, books, disturbed, batch>>,
           job = "csv" => change \in CsvRows, job = "patch" => change \in Patches /\ Exists(s)
    PROVE  CatalogInv'
<1> DEFINE x == [job |-> job, sku |-> s, seen |-> product[s], change |-> change]
<1>1. change.price \in Int /\ change.stock \in Int
  <2>1. ASSUME change \in Patches PROVE change.price \in Int /\ change.stock \in Int
    <3>1. change \in [price : Cell, stock : Cell, status : STRING]
      BY <2>1, CatalogAssumption
    <3> QED
      BY <3>1 DEF Cell, None
  <2>2. ASSUME change \in CsvRows PROVE change.price \in Int /\ change.stock \in Int
    <3>1. change \in [price : Nat, cost : Cell, stock : Cell, status : STRING, supplied : BOOLEAN]
      BY <2>2, CatalogAssumption
    <3> QED
      BY <3>1 DEF Cell, None
  <2> QED
    BY <2>1, <2>2
<1>2. job = "patch" => /\ product[s] # Absent /\ product[s].price \in Int
                       /\ product[s].stock \in Int
    BY DEF Exists, CatalogInv, CatalogTypes, InTable, IsProduct
<1>3. HandOK(x, batch', product)
  <2>1. x = [job |-> job, sku |-> s, seen |-> product[s], change |-> change]
    OBVIOUS
  <2> HIDE DEF x
  <2>2. /\ x = [job |-> x.job, sku |-> x.sku, seen |-> x.seen, change |-> x.change]
        /\ x.job = job /\ x.sku = s /\ x.seen = product[s] /\ x.change = change
    BY <2>1
  <2> QED
    BY <1>1, <1>2, <2>2 DEF HandOK
<1>4. \A t \in Skus : /\ ~Trailing(work[h], t) /\ ~Trailing(x, t)
                      /\ ReadsRow(x, t) => x.seen = product[t]
    BY DEF Trailing, ReadsRow, Resting
<1>5. \A t \in Skus : ReadsRow(x, t) => Agrees(x.seen, product[t])
    BY <1>4 DEF Agrees
<1>6. /\ batch' = [c \in Batches |-> batch'[c]] /\ \A c \in Batches : BatchOK(batch'[c], product)
      /\ \A g \in Hands : HandOK(work[g], batch', product)
    BY DEF CatalogInv, CatalogTypes
<1>7. work' = [work EXCEPT ![h] = x]
    OBVIOUS
<1> HIDE DEF x
<1> QED
    BY <1>3, <1>4, <1>5, <1>6, <1>7, StepOfAHand

\* A request that dies says nothing more; if a trail is missing for it, the product is disturbed.
LEMMA DyingIsQuiet ==
    ASSUME CatalogInv, NEW h \in Hands, Die(h)
    PROVE  CatalogInv'
<1>1. /\ Rest(h) /\ UNCHANGED <<product, paper, books, batch>> /\ disturbed \subseteq disturbed'
      /\ \A s \in Skus \ disturbed' : ~Trailing(work[h], s)
    BY DEF Die, Trailing
<1> QED
    BY <1>1, RestIsQuiet

\* The shop and the clerk write by what they find, with a movement in the same transaction.
LEMMA ShopWriteIsQuiet ==
    ASSUME CatalogInv, NEW s \in Skus, NEW delta \in Int, Exists(s), UNCHANGED <<batch, work, paper>>,
           Write(None, s, [product[s] EXCEPT !.stock = @ + delta], delta)
    PROVE  CatalogInv'
<1> DEFINE p == product[s]
           q == [p EXCEPT !.stock = p.stock + delta]
<1>1. p # Absent /\ IsProduct(p)
    BY DEF Exists, CatalogInv, CatalogTypes, InTable
<1>2. Write(None, s, q, delta)
    OBVIOUS
<1>3. /\ q # Absent /\ IsProduct(q) /\ q.price = p.price /\ q.stock = p.stock + delta
  <2> DEFINE n == p.stock + delta
  <2>1. n \in Int
    BY <1>1 DEF IsProduct
  <2>2. q = [p EXCEPT !.stock = n]
    OBVIOUS
  <2> HIDE DEF q, n, p
  <2>3. q = [status |-> p.status, reviewed |-> p.reviewed, supplied |-> p.supplied,
             price |-> p.price, cost |-> p.cost, stock |-> n]
    BY <1>1, <2>2 DEF IsProduct
  <2>4. "price" \in DOMAIN q /\ "price" \notin DOMAIN Absent
    BY <2>3 DEF Absent
  <2>5. q # Absent
    BY <2>4
  <2> QED
    BY <1>1, <2>1, <2>3, <2>5 DEF IsProduct, n
<1> HIDE DEF q
<1>4. /\ product' = [t \in Skus |-> product'[t]] /\ product'[s] = q
      /\ \A t \in Skus : t # s => product'[t] = product[t]
    BY <1>2 DEF CatalogInv, CatalogTypes, Write
<1>5. /\ books' \in [Skus -> Int] /\ books'[s] = books[s] + delta
      /\ \A t \in Skus : t # s => books'[t] = books[t]
    BY <1>2 DEF CatalogInv, CatalogTypes, Write
<1>6. /\ disturbed \subseteq disturbed'
      /\ s \notin disturbed' => \A g \in Hands : work[g].sku # s
    BY <1>2, CatalogAssumption DEF Write, HoldsReading
<1>7. \A t \in Skus : product[t] # Absent => product'[t] # Absent
    BY <1>3, <1>4
<1>8. CatalogTypes'
  <2>1. \A t \in Skus : InTable(product'[t])
    BY <1>3, <1>4 DEF CatalogInv, CatalogTypes, InTable
  <2>2. \A b \in Batches : BatchOK(batch[b], product')
    BY <1>7 DEF CatalogInv, CatalogTypes, BatchOK, Planned
  <2>3. \A g \in Hands : HandOK(work[g], batch, product')
    <3> TAKE g \in Hands
    <3>1. HandOK(work[g], batch, product)
      BY DEF CatalogInv, CatalogTypes
    <3> QED
      BY <1>7, <3>1 DEF HandOK
  <2> QED
    BY <1>4, <1>5, <2>1, <2>2, <2>3 DEF CatalogInv, CatalogTypes
<1>9. ASSUME NEW t \in Skus \ disturbed' PROVE QuietAll(t)'
  <2>1. Quiet(t, work, product[t], paper[t], books[t])
    BY <1>6, <1>9 DEF CatalogInv, QuietAll
  <2>2. CASE t # s
    BY <1>4, <1>5, <2>1, <2>2 DEF QuietAll
  <2>3. CASE t = s
    <3>1. \A g \in Hands : ~ReadsRow(work[g], s) /\ ~Trailing(work[g], s)
      BY <1>6, <1>9, <2>3 DEF ReadsRow, Trailing
    <3>2. Exact(p, paper[s], books[s])
      BY <2>1, <2>3, <3>1 DEF Quiet
    <3>3. p.price \in Int /\ p.stock \in Int
      BY <1>1 DEF IsProduct
    <3>4. Exact(q, paper[s], books'[s])
      BY <1>1, <1>3, <1>5, <3>2, <3>3 DEF Exact
    <3>5. Quiet(s, work, q, paper[s], books'[s])
      BY <3>1, <3>4 DEF Quiet
    <3> QED
      BY <1>4, <2>3, <3>5 DEF QuietAll
  <2> QED
    BY <2>2, <2>3
<1> QED
    BY <1>8, <1>9 DEF CatalogInv

\* What a request wrote and, at most, an entry of the price history.
LEMMA NoteOf ==
    ASSUME CatalogInv, NEW s \in Skus, NEW old, NEW new,
           Record(s, old, new) \/ UNCHANGED paper
    PROVE  \E note : /\ paper' = [paper EXCEPT ![s] = note]
                     /\ note = [told |-> note.told, chained |-> note.chained]
                     /\ ~Record(s, old, new) => note = paper[s]
                     /\ Record(s, old, new) =>
                          /\ note.told = new
                          /\ note.chained <=> (paper[s].chained /\ old = paper[s].told)
<1>1. CASE ~Record(s, old, new) /\ UNCHANGED paper
  <2>1. paper' = [paper EXCEPT ![s] = paper[s]]
    BY <1>1 DEF CatalogInv, CatalogTypes
  <2>2. paper[s] = [told |-> paper[s].told, chained |-> paper[s].chained]
    BY DEF CatalogInv, CatalogTypes
  <2> QED
    BY <1>1, <2>1, <2>2
<1>2. CASE Record(s, old, new)
  <2> DEFINE chain == paper[s].chained /\ old = paper[s].told
             note == [told |-> new, chained |-> chain]
  <2>1. paper' = [paper EXCEPT ![s] = note]
    BY <1>2 DEF Record
  <2>2. chain <=> (paper[s].chained /\ old = paper[s].told)
    OBVIOUS
  <2> HIDE DEF chain
  <2>3. note = [told |-> note.told, chained |-> note.chained] /\ note.told = new
        /\ note.chained = chain
    OBVIOUS
  <2> HIDE DEF note
  <2>4. note.chained <=> (paper[s].chained /\ old = paper[s].told)
    BY <2>2, <2>3
  <2> QED
    BY <1>2, <2>1, <2>3, <2>4
<1> QED
    BY <1>1, <1>2

\* A record of a product is no Absent.
LEMMA ProductsAreThere ==
    ASSUME NEW p, IsProduct(p)
    PROVE  p # Absent
<1>1. "price" \in DOMAIN p /\ "price" \notin DOMAIN Absent
    BY DEF IsProduct, Absent
<1> QED
    BY <1>1

\* The papers stay exact when who read a product writes it, and notes the change of its price.
LEMMA TheNoteIsExact ==
    ASSUME NEW cur, NEW seen, Agrees(seen, cur), NEW note, NEW sum \in Int, Exact(cur, note, sum),
           InTable(cur),
           NEW p, IsProduct(p), NEW after,
           \/ after = note /\ seen # Absent /\ p.price = seen.price
           \/ /\ after.told = p.price
              /\ after.chained <=> (note.chained
                                     /\ (IF seen = Absent THEN 0 ELSE seen.price) = note.told)
    PROVE  Exact(p, after, sum + (p.stock - (IF cur = Absent THEN 0 ELSE cur.stock)))
<1>1. p # Absent
    BY ProductsAreThere
<1>2. p.stock \in Int /\ p.price \in Int
    BY DEF IsProduct
<1>3. after.chained /\ after.told = p.price
    BY DEF Agrees, Exact
<1>4. sum + (p.stock - (IF cur = Absent THEN 0 ELSE cur.stock)) = p.stock
  <2> DEFINE had == IF cur = Absent THEN 0 ELSE cur.stock
  <2>1. sum = had
    BY DEF Exact
  <2> HIDE DEF had
  <2>2. sum + (p.stock - had) = p.stock
    BY <1>2, <2>1
  <2> QED
    BY <2>2 DEF had
<1> QED
    BY <1>1, <1>3, <1>4 DEF Exact

\* A row that cannot be published is left as it is.
LEMMA GoesOnIsQuiet ==
    ASSUME CatalogInv, NEW h \in Hands, UNCHANGED <<product, paper, books, disturbed, batch>>,
           NEW x, work' = [work EXCEPT ![h] = x], HandOK(x, batch, product), x.sku = "none",
           \A s \in Skus : ~Trailing(work[h], s)
    PROVE  CatalogInv'
<1>1. \A s \in Skus : ~Trailing(x, s) /\ ~ReadsRow(x, s)
    BY CatalogAssumption DEF Trailing, ReadsRow
<1>2. /\ batch' = [c \in Batches |-> batch'[c]] /\ \A c \in Batches : BatchOK(batch'[c], product)
      /\ \A g \in Hands : HandOK(work[g], batch', product)
    BY DEF CatalogInv, CatalogTypes
<1> QED
    BY <1>1, <1>2, StepOfAHand

\* upsertRow writes what the sheet says over what it read.
LEMMA WriteRowIsQuiet ==
    ASSUME CatalogInv, NEW h \in Hands, WriteRow(h)
    PROVE  CatalogInv'
<1> DEFINE s == work[h].sku
           row == RowOf(h)
           seen == work[h].seen
           cur == product[s]
           p == Upserted(h)
           old == IF seen = Absent THEN 0 ELSE seen.price
           new == IF Has(row, "price") THEN row.price ELSE old
           x == Commit(work[h].batch, work[h].row + 1)
           booked == p.stock - Units(s)
<1>1. /\ work[h].job = "upsert" /\ work' = [work EXCEPT ![h] = x] /\ batch' = batch
      /\ \/ /\ Write(h, s, p, booked)
            /\ IF seen = Absent \/ new # old \/ Given(row.cost, seen.cost) # seen.cost
               THEN Record(s, old, new) ELSE UNCHANGED paper
         \/ UNCHANGED <<product, paper, books, disturbed, batch>>
    BY DEF WriteRow, Do, rowVars
<1>2. /\ work[h].batch \in Batches /\ batch[work[h].batch].status # "none"
      /\ work[h].row \in DOMAIN batch[work[h].batch].sheet.rows
      /\ s = row.sku /\ s \in Skus
  <2>1. HandOK(work[h], batch, product)
    BY DEF CatalogInv, CatalogTypes
  <2>2. /\ AtRow(work[h], batch) /\ work[h].row # 0
        /\ s = batch[work[h].batch].sheet.rows[work[h].row].sku
    BY <1>1, <2>1 DEF HandOK, Resting
  <2> QED
    BY <2>2 DEF AtRow, RowOf
<1>3. Planned(batch[work[h].batch], product)
    BY <1>2 DEF CatalogInv, CatalogTypes, BatchOK, NoBatch
<1>4. /\ work[h].row \in Nat /\ work[h].row + 1 > 0 /\ work[h].row + 1 \in Nat
      /\ row.price \in Int /\ row.stock \in Int
  <2> DEFINE sheet == batch[work[h].batch].sheet
  <2>1. sheet \in Sheets /\ work[h].row \in DOMAIN sheet.rows /\ row = sheet.rows[work[h].row]
    BY <1>2, <1>3 DEF Planned, RowOf
  <2> HIDE DEF sheet, row
  <2>2. /\ work[h].row \in 1..Len(sheet.rows) /\ Len(sheet.rows) \in Nat
        /\ row.price \in Int /\ row.stock \in Int
    BY <2>1, SheetsAreRows
  <2> QED
    BY <2>2
<1>5. HandOK(x, batch, product) /\ x.sku = "none"
    BY <1>2, <1>4, NextRowIsARow DEF Commit
<1>6. \A t \in Skus : ~Trailing(work[h], t)
    BY <1>1 DEF Trailing
<1>7. CASE UNCHANGED <<product, paper, books, disturbed, batch>>
  <2> HIDE DEF x
  <2> QED
    BY <1>1, <1>5, <1>6, <1>7, GoesOnIsQuiet
<1>8. CASE /\ Write(h, s, p, booked)
           /\ IF seen = Absent \/ new # old \/ Given(row.cost, seen.cost) # seen.cost
              THEN Record(s, old, new) ELSE UNCHANGED paper
  <2>1. InTable(cur) /\ books[s] \in Int
    BY <1>2 DEF CatalogInv, CatalogTypes
  <2>2. IsProduct(p)
    <3> DEFINE price == IF seen = Absent THEN Given(row.price, 0) ELSE row.price
               eff == EffectiveStatus(row, seen.status, ProfileOf(h))
               supplier == batch[work[h].batch].sheet.supplier
    <3>1. price \in Int
      BY <1>4 DEF Given
    <3>2. CASE cur = Absent
      <4>1. p = [status |-> eff.status, reviewed |-> eff.reviewed, supplied |-> supplier,
                 price |-> price, cost |-> row.cost, stock |-> Given(row.stock, 0)]
        BY <1>2, <3>2 DEF Upserted
      <4>2. Given(row.stock, 0) \in Int
        BY <1>4 DEF Given
      <4> HIDE DEF p, price, eff, supplier, row
      <4> QED
        BY <3>1, <4>1, <4>2 DEF IsProduct
    <3>3. CASE cur # Absent
      <4> DEFINE keep == cur.supplied \/ supplier
                 flag == Flag(cur, eff)
      <4>1. p = [status |-> eff.status, reviewed |-> flag, supplied |-> keep,
                 price |-> Given(price, cur.price), cost |-> Given(row.cost, cur.cost),
                 stock |-> Given(row.stock, cur.stock)]
        BY <1>2, <3>3 DEF Upserted
      <4>2. cur.price \in Int /\ cur.stock \in Int
        BY <2>1, <3>3 DEF InTable, IsProduct
      <4>3. Given(row.stock, cur.stock) \in Int /\ Given(price, cur.price) \in Int
        BY <1>4, <3>1, <4>2 DEF Given
      <4> HIDE DEF p, price, eff, keep, flag, row, cur
      <4> QED
        BY <4>1, <4>3 DEF IsProduct
    <3> QED
      BY <3>2, <3>3
  <2>3. ASSUME Agrees(seen, cur) PROVE p.price = new
    <3>1. CASE cur = Absent
      <4>1. p.price = Given(row.price, 0)
        BY <1>2, <2>3, <3>1 DEF Upserted, Agrees
      <4> QED
        BY <2>3, <3>1, <4>1 DEF Agrees, Given, Has
    <3>2. CASE cur # Absent
      <4>1. p.price = Given(row.price, cur.price)
        BY <1>2, <2>3, <3>2 DEF Upserted, Agrees
      <4> QED
        BY <2>3, <3>2, <4>1 DEF Agrees, Given, Has
    <3> QED
      BY <3>1, <3>2
  <2>4. p.stock \in Int /\ booked \in Int /\ booked = p.stock - (IF cur = Absent THEN 0 ELSE cur.stock)
    <3>1. Units(s) = (IF cur = Absent THEN 0 ELSE cur.stock)
      BY DEF Units, Exists
    <3>2. (IF cur = Absent THEN 0 ELSE cur.stock) \in Int
      BY <2>1 DEF InTable, IsProduct
    <3>3. p.stock \in Int
      BY <2>2 DEF IsProduct
    <3> HIDE DEF p, cur
    <3> QED
      BY <3>1, <3>2, <3>3
  <2>5. PICK note : /\ paper' = [paper EXCEPT ![s] = note]
                    /\ note = [told |-> note.told, chained |-> note.chained]
                    /\ ~Record(s, old, new) => note = paper[s]
                    /\ Record(s, old, new) =>
                         /\ note.told = new
                         /\ note.chained <=> (paper[s].chained /\ old = paper[s].told)
    <3>1. Record(s, old, new) \/ UNCHANGED paper
      BY <1>8
    <3>2. \E o, n : o = old /\ n = new
      OBVIOUS
    <3>3. PICK o, n : o = old /\ n = new
      BY <3>2
    <3> HIDE DEF old, new, s
    <3> QED
      BY <1>2, <3>1, <3>3, NoteOf
  <2>6. \/ /\ note = paper[s] /\ seen # Absent /\ new = old
        \/ note.told = new /\ (note.chained <=> (paper[s].chained /\ old = paper[s].told))
    <3>1. CASE Record(s, old, new)
      BY <2>5, <3>1
    <3>2. CASE ~Record(s, old, new)
      BY <1>8, <2>5, <3>2
    <3> QED
      BY <3>1, <3>2
  <2>7. ASSUME s \notin disturbed, \A g \in Hands : g # h => work[g].sku # s
        PROVE  Exact(p, note, books[s] + booked)
    <3>1. Quiet(s, work, cur, paper[s], books[s])
      BY <1>2, <2>7 DEF CatalogInv, QuietAll
    <3>2. Agrees(seen, cur)
      BY <1>1, <3>1 DEF Quiet, ReadsRow
    <3>3. \A g \in Hands : ~Trailing(work[g], s)
      BY <1>1, <2>7 DEF Trailing
    <3>4. Exact(cur, paper[s], books[s])
      BY <3>1, <3>3 DEF Quiet
    <3>5. p.price = new
      BY <2>3, <3>2
    <3>6. \/ note = paper[s] /\ seen # Absent /\ p.price = seen.price
          \/ /\ note.told = p.price
             /\ note.chained <=> (paper[s].chained
                                   /\ (IF seen = Absent THEN 0 ELSE seen.price) = paper[s].told)
      BY <2>6, <3>5
    <3> HIDE DEF p, cur, seen, s
    <3>7. Exact(p, note, books[s] + (p.stock - (IF cur = Absent THEN 0 ELSE cur.stock)))
      BY <2>1, <2>2, <3>2, <3>4, <3>6, TheNoteIsExact
    <3> QED
      BY <2>4, <3>7
  <2>8. HandOK(x, batch, product')
    <3>1. x = [job |-> "commit", sku |-> "none", batch |-> work[h].batch,
               row |-> NextRow(work[h].batch, work[h].row + 1)]
      BY DEF Commit
    <3>2. x.job = "commit" /\ x # Resting
      BY <3>1 DEF Resting
    <3> HIDE DEF x
    <3> QED
      BY <1>5, <3>2 DEF HandOK
  <2>9. p # Absent
    BY <2>2, ProductsAreThere
  <2>10. work[h].sku = s
    OBVIOUS
  <2> HIDE DEF x, p, booked, s
  <2> QED
    BY <1>1, <1>2, <1>5, <1>8, <2>2, <2>4, <2>5, <2>7, <2>8, <2>9, <2>10, WriteOfAHand
<1> HIDE DEF x, p, booked, s, row, old, new, seen
<1> QED
    BY <1>1, <1>7, <1>8

\* The old import does the same with its own columns.
LEMMA WriteCsvRowIsQuiet ==
    ASSUME CatalogInv, NEW h \in Hands, WriteCsvRow(h)
    PROVE  CatalogInv'
<1> DEFINE s == work[h].sku
           row == work[h].change
           seen == work[h].seen
           cur == product[s]
           old == IF seen = Absent THEN 0 ELSE seen.price
           status == IF row.status = "none" THEN "published" ELSE row.status
           reviewed == Exists(s) => cur.reviewed
           supplied == (Exists(s) /\ cur.supplied) \/ row.supplied
           cost == IF Exists(s) THEN Given(row.cost, cur.cost) ELSE row.cost
           p == [status |-> status, reviewed |-> reviewed, supplied |-> supplied,
                 price |-> row.price, cost |-> cost, stock |-> Given(row.stock, 0)]
           booked == p.stock - Units(s)
<1>1. /\ work[h].job = "csv" /\ Rest(h) /\ work' = [work EXCEPT ![h] = Resting] /\ batch' = batch
      /\ \/ /\ Write(h, s, p, booked)
            /\ Record(s, old, row.price) \/ (UNCHANGED paper /\ seen # Absent /\ row.price = old)
         \/ UNCHANGED <<product, books, disturbed, paper>>
    BY DEF WriteCsvRow, Rest, Do
<1>2. s \in Skus /\ row.price \in Int /\ row.stock \in Int
  <2>1. HandOK(work[h], batch, product)
    BY DEF CatalogInv, CatalogTypes
  <2> QED
    BY <1>1, <2>1 DEF HandOK, Resting
<1>3. \A t \in Skus : ~Trailing(work[h], t)
    BY <1>1 DEF Trailing
<1>4. CASE UNCHANGED <<product, books, disturbed, paper>>
    BY <1>1, <1>3, <1>4, RestIsQuiet
<1>5. CASE /\ Write(h, s, p, booked)
           /\ Record(s, old, row.price) \/ (UNCHANGED paper /\ seen # Absent /\ row.price = old)
  <2>1. InTable(cur) /\ books[s] \in Int
    BY <1>2 DEF CatalogInv, CatalogTypes
  <2>2. IsProduct(p) /\ p.price = row.price
    <3> DEFINE stock == Given(row.stock, 0)
    <3>1. stock \in Int
      BY <1>2 DEF Given
    <3>2. p = [status |-> status, reviewed |-> reviewed, supplied |-> supplied,
               price |-> row.price, cost |-> cost, stock |-> stock]
      OBVIOUS
    <3> HIDE DEF p, status, reviewed, supplied, cost, stock, row
    <3> QED
      BY <1>2, <3>1, <3>2 DEF IsProduct
  <2> HIDE DEF p
  <2>3. booked \in Int /\ booked = p.stock - (IF cur = Absent THEN 0 ELSE cur.stock)
    <3>1. Units(s) = (IF cur = Absent THEN 0 ELSE cur.stock)
      BY DEF Units, Exists
    <3>2. (IF cur = Absent THEN 0 ELSE cur.stock) \in Int
      BY <2>1 DEF InTable, IsProduct
    <3>3. p.stock \in Int
      BY <2>2 DEF IsProduct
    <3> HIDE DEF cur
    <3> QED
      BY <3>1, <3>2, <3>3
  <2>4. PICK note : /\ paper' = [paper EXCEPT ![s] = note]
                    /\ note = [told |-> note.told, chained |-> note.chained]
                    /\ ~Record(s, old, row.price) => note = paper[s]
                    /\ Record(s, old, row.price) =>
                         /\ note.told = row.price
                         /\ note.chained <=> (paper[s].chained /\ old = paper[s].told)
    <3>1. PICK o, n : o = old /\ n = row.price
      OBVIOUS
    <3>2. Record(s, o, n) \/ UNCHANGED paper
      BY <1>5, <3>1
    <3> HIDE DEF old, row, s
    <3> QED
      BY <1>2, <3>1, <3>2, NoteOf
  <2>5. ASSUME s \notin disturbed, \A g \in Hands : g # h => work[g].sku # s
        PROVE  Exact(p, note, books[s] + booked)
    <3>1. Quiet(s, work, cur, paper[s], books[s])
      BY <1>2, <2>5 DEF CatalogInv, QuietAll
    <3>2. Agrees(seen, cur)
      BY <1>1, <3>1 DEF Quiet, ReadsRow
    <3>3. \A g \in Hands : ~Trailing(work[g], s)
      BY <1>1, <2>5 DEF Trailing
    <3>4. Exact(cur, paper[s], books[s])
      BY <3>1, <3>3 DEF Quiet
    <3>5. \/ note = paper[s] /\ seen # Absent /\ p.price = seen.price
          \/ /\ note.told = p.price
             /\ note.chained <=> (paper[s].chained
                                   /\ (IF seen = Absent THEN 0 ELSE seen.price) = paper[s].told)
      <4>1. CASE Record(s, old, row.price)
        BY <2>2, <2>4, <4>1
      <4>2. CASE ~Record(s, old, row.price)
        BY <1>5, <2>2, <2>4, <4>2
      <4> QED
        BY <4>1, <4>2
    <3> HIDE DEF cur, seen, s
    <3>6. Exact(p, note, books[s] + (p.stock - (IF cur = Absent THEN 0 ELSE cur.stock)))
      BY <2>1, <2>2, <3>2, <3>4, <3>5, TheNoteIsExact
    <3> QED
      BY <2>3, <3>6
  <2>6. HandOK(Resting, batch, product') /\ Resting.sku = "none" /\ p # Absent /\ work[h].sku = s
    BY <2>2, ProductsAreThere DEF HandOK, Resting
  <2> HIDE DEF booked, s
  <2> QED
    BY <1>1, <1>2, <1>5, <2>2, <2>3, <2>4, <2>5, <2>6, WriteOfAHand
<1> HIDE DEF p, booked, s, row, old, seen
<1> QED
    BY <1>1, <1>4, <1>5

\* Create: a product is born with what its trail will say.
LEMMA CreateIsQuiet ==
    ASSUME CatalogInv, NEW h \in Hands, NEW s \in Skus, NEW new \in NewProducts,
           CreateProduct(h, s, new)
    PROVE  CatalogInv'
<1> DEFINE p == [status |-> new.status, reviewed |-> TRUE, supplied |-> FALSE,
                 price |-> new.price, cost |-> new.cost, stock |-> new.stock]
           nothing == [price |-> 0, stock |-> 0]
           change == [price |-> new.price, stock |-> None]
           x == [job |-> "trail", sku |-> s, seen |-> nothing, change |-> change]
<1>1. /\ work[h] = Resting /\ product[s] = Absent /\ Write(h, s, p, new.stock)
      /\ work' = [work EXCEPT ![h] = x] /\ batch' = batch /\ paper' = paper
    BY DEF CreateProduct, Do, Exists
<1>2. new.price \in Nat /\ new.stock \in Nat
  <2>1. new \in [price : Nat, cost : Cell, stock : Nat, status : STRING]
    BY CatalogAssumption
  <2> QED
    BY <2>1
<1>3. IsProduct(p) /\ p.price = new.price /\ p.stock = new.stock
  <2> DEFINE yes == TRUE
             no == FALSE
  <2>1. p = [status |-> new.status, reviewed |-> yes, supplied |-> no,
             price |-> new.price, cost |-> new.cost, stock |-> new.stock]
    OBVIOUS
  <2> HIDE DEF p, yes, no
  <2> QED
    BY <1>2, <2>1 DEF IsProduct
<1>4. p # Absent
    BY <1>3, ProductsAreThere
<1>5. /\ x = [job |-> x.job, sku |-> x.sku, seen |-> x.seen, change |-> x.change]
      /\ x.job = "trail" /\ x.sku = s /\ x.seen = nothing /\ x.change = change
  <2>1. x = [job |-> "trail", sku |-> s, seen |-> nothing, change |-> change]
    OBVIOUS
  <2> HIDE DEF x, nothing, change
  <2> QED
    BY <2>1
<1>6. /\ nothing.price = 0 /\ nothing.stock = 0
      /\ change.price = new.price /\ change.stock = None
    OBVIOUS
<1> HIDE DEF p, x, nothing, change
<1>7. HandOK(x, batch, product')
    BY <1>2, <1>5, <1>6 DEF HandOK, None
<1>8. paper' = [paper EXCEPT ![s] = paper[s]]
    BY <1>1 DEF CatalogInv, CatalogTypes
<1>9. paper[s] = [told |-> paper[s].told, chained |-> paper[s].chained]
    BY DEF CatalogInv, CatalogTypes
<1>10. ASSUME s \notin disturbed, \A g \in Hands : g # h => work[g].sku # s
       PROVE  Trailing(x, s) /\ Owes(x, p, paper[s], books[s] + new.stock)
  <2>1. Quiet(s, work, product[s], paper[s], books[s])
    BY <1>10 DEF CatalogInv, QuietAll
  <2>2. \A g \in Hands : ~Trailing(work[g], s)
    BY <1>1, <1>10 DEF Trailing, Resting
  <2>3. paper[s].chained /\ paper[s].told = 0 /\ books[s] = 0
    BY <1>1, <2>1, <2>2 DEF Quiet, Exact
  <2> QED
    BY <1>2, <1>3, <1>4, <1>5, <1>6, <2>3 DEF Trailing, Owes, Given, None
<1>11. x.sku \in {s, "none"} /\ work[h].sku \in {s, "none"} /\ new.stock \in Int
    BY <1>1, <1>2, <1>5 DEF Resting
<1>12. PICK note, n : note = paper[s] /\ n = new.stock
    OBVIOUS
<1>13. /\ paper' = [paper EXCEPT ![s] = note]
       /\ note = [told |-> note.told, chained |-> note.chained]
       /\ Write(h, s, p, n) /\ n \in Int
    BY <1>1, <1>8, <1>9, <1>11, <1>12
<1>14. s \notin disturbed /\ (\A g \in Hands : g # h => work[g].sku # s) =>
          \/ x.sku = "none" /\ Exact(p, note, books[s] + n)
          \/ Trailing(x, s) /\ Owes(x, p, note, books[s] + n)
    BY <1>10, <1>12
<1> QED
    BY <1>1, <1>3, <1>4, <1>7, <1>11, <1>13, <1>14, WriteOfAHand

\* Patch writes over what is there by now; undisturbed, that is what it read.
LEMMA WritePatchIsQuiet ==
    ASSUME CatalogInv, NEW h \in Hands, WritePatch(h)
    PROVE  CatalogInv'
<1> DEFINE s == work[h].sku
           was == work[h]
           c == was.change
           seen == was.seen
           cur == product[s]
           p == Patched(h)
           x == [was EXCEPT !.job = "trail"]
<1>1. /\ was.job = "patch" /\ batch' = batch /\ paper' = paper
      /\ \/ Write(h, s, p, 0) /\ work' = [work EXCEPT ![h] = x]
         \/ Rest(h) /\ UNCHANGED <<product, books, disturbed>>
    BY DEF WritePatch, Do
<1>2. /\ s \in Skus /\ cur # Absent /\ seen # Absent
      /\ seen.price \in Int /\ seen.stock \in Int /\ c.price \in Int /\ c.stock \in Int
      /\ was = [job |-> was.job, sku |-> was.sku, seen |-> was.seen, change |-> was.change]
  <2>1. HandOK(was, batch, product)
    BY DEF CatalogInv, CatalogTypes
  <2> QED
    BY <1>1, <2>1 DEF HandOK, Resting
<1>3. CASE Rest(h) /\ UNCHANGED <<product, books, disturbed>>
    BY <1>1, <1>3, RestIsQuiet DEF Trailing
<1>4. CASE Write(h, s, p, 0) /\ work' = [work EXCEPT ![h] = x]
  <2>1. IsProduct(cur)
    BY <1>2 DEF CatalogInv, CatalogTypes, InTable
  <2>2. IsProduct(p) /\ p.price = Given(c.price, cur.price) /\ p.stock = Given(c.stock, cur.stock)
    <3> DEFINE price == Given(c.price, cur.price)
               stock == Given(c.stock, cur.stock)
               status == IF c.status = "none" THEN cur.status ELSE c.status
               p1 == [cur EXCEPT !.price = price]
               p2 == [p1 EXCEPT !.stock = stock]
               p3 == [p2 EXCEPT !.status = status]
    <3>1. price \in Int /\ stock \in Int
      BY <1>2, <2>1 DEF Given, IsProduct
    <3>2. p = p3
      BY <2>1 DEF Patched, IsProduct
    <3> HIDE DEF price, stock, status, cur, p
    <3>3. p1 = [status |-> cur.status, reviewed |-> cur.reviewed, supplied |-> cur.supplied,
                price |-> price, cost |-> cur.cost, stock |-> cur.stock]
      BY <2>1 DEF IsProduct
    <3> HIDE DEF p1
    <3>4. p2 = [status |-> cur.status, reviewed |-> cur.reviewed, supplied |-> cur.supplied,
                price |-> price, cost |-> cur.cost, stock |-> stock]
      BY <3>3
    <3> HIDE DEF p2
    <3>5. p3 = [status |-> status, reviewed |-> cur.reviewed, supplied |-> cur.supplied,
                price |-> price, cost |-> cur.cost, stock |-> stock]
      BY <3>4
    <3> HIDE DEF p3
    <3>6. IsProduct(p) /\ p.price = price /\ p.stock = stock
      BY <3>1, <3>2, <3>5 DEF IsProduct
    <3> QED
      BY <3>6 DEF price, stock
  <2>3. p # Absent
    BY <2>2, ProductsAreThere
  <2>4. /\ x = [job |-> x.job, sku |-> x.sku, seen |-> x.seen, change |-> x.change]
        /\ x.job = "trail" /\ x.sku = s /\ x.seen = seen /\ x.change = c
    <3> HIDE DEF was
    <3>1. x = [job |-> "trail", sku |-> was.sku, seen |-> was.seen, change |-> was.change]
      BY <1>2
    <3> HIDE DEF x
    <3> QED
      BY <3>1 DEF was
  <2> HIDE DEF x, p
  <2>5. HandOK(x, batch, product')
    BY <1>2, <2>4 DEF HandOK
  <2>6. PICK note : note = paper[s]
    OBVIOUS
  <2>7. /\ paper' = [paper EXCEPT ![s] = note]
        /\ note = [told |-> note.told, chained |-> note.chained] /\ books[s] + 0 = books[s]
    BY <1>1, <1>2, <2>6 DEF CatalogInv, CatalogTypes
  <2>8. ASSUME s \notin disturbed, \A g \in Hands : g # h => work[g].sku # s
        PROVE  Trailing(x, s) /\ Owes(x, p, note, books[s] + 0)
    <3>1. Quiet(s, work, cur, note, books[s])
      BY <1>2, <2>6, <2>8 DEF CatalogInv, QuietAll
    <3>2. Agrees(seen, cur)
      BY <1>1, <3>1 DEF Quiet, ReadsRow
    <3>3. \A g \in Hands : ~Trailing(work[g], s)
      BY <1>1, <2>8 DEF Trailing
    <3>4. Exact(cur, note, books[s])
      BY <3>1, <3>3 DEF Quiet
    <3>5. seen.price = cur.price /\ seen.stock = cur.stock /\ note.chained
          /\ note.told = cur.price /\ books[s] = cur.stock
      BY <1>2, <3>2, <3>4 DEF Agrees, Exact
    <3>6. Given(c.stock, cur.stock) \in Int
      BY <1>2, <3>5 DEF Given
    <3>7. p.stock = books[s] + Given(c.stock, seen.stock) - seen.stock
      BY <1>2, <2>2, <3>5, <3>6
    <3>8. p.price = Given(c.price, seen.price)
      BY <2>2, <3>5
    <3> HIDE DEF s, seen, c
    <3> QED
      BY <1>2, <2>3, <2>4, <2>7, <3>5, <3>7, <3>8 DEF Trailing, Owes
  <2>9. x.sku \in {s, "none"} /\ work[h].sku \in {s, "none"} /\ 0 \in Int /\ batch' = batch
    BY <1>1, <2>4
  <2>10. PICK n : n = 0
    OBVIOUS
  <2>11. Write(h, s, p, n) /\ n \in Int
    BY <1>4, <2>9, <2>10
  <2>12. s \notin disturbed /\ (\A g \in Hands : g # h => work[g].sku # s) =>
            \/ x.sku = "none" /\ Exact(p, note, books[s] + n)
            \/ Trailing(x, s) /\ Owes(x, p, note, books[s] + n)
    BY <2>8, <2>10
  <2> HIDE DEF s, was
  <2> QED
    BY <1>2, <1>4, <2>2, <2>3, <2>5, <2>7, <2>9, <2>11, <2>12, WriteOfAHand
<1> HIDE DEF p, x, s
<1> QED
    BY <1>1, <1>3, <1>4

\* What the sheet no longer has is archived, and the batch is closed.
LEMMA ClosingIsQuiet ==
    ASSUME CatalogInv, NEW h \in Hands, NEW gone, gone \subseteq batch[work[h].batch].missing,
           NEW status, status # "none", CloseBatch(h, gone, status)
    PROVE  CatalogInv'
<1> DEFINE b == work[h].batch
           old == batch[b]
           new == [old EXCEPT !.status = status]
<1>1. /\ work[h].job = "commit" /\ work' = [work EXCEPT ![h] = Resting]
      /\ batch' = [batch EXCEPT ![b] = new]
      /\ product' = [s \in Skus |-> IF s \in gone /\ product[s].supplied
                                    THEN [product[s] EXCEPT !.status = "archived"] ELSE product[s]]
      /\ UNCHANGED <<paper, books, disturbed>>
    BY DEF CloseBatch, Rest, Do
<1>2. b \in Batches /\ old.status # "none" /\ Planned(old, product)
  <2>1. HandOK(work[h], batch, product)
    BY DEF CatalogInv, CatalogTypes
  <2>2. AtRow(work[h], batch)
    BY <1>1, <2>1 DEF HandOK, Resting
  <2> QED
    BY <2>2 DEF AtRow, CatalogInv, CatalogTypes, BatchOK, NoBatch
<1>3. /\ new.status = status /\ new.sheet = old.sheet /\ Planned(new, product)
  <2>1. old = [status |-> old.status, sheet |-> old.sheet, plan |-> old.plan,
               missing |-> old.missing]
    BY <1>2 DEF Planned
  <2> HIDE DEF old
  <2>2. new = [status |-> status, sheet |-> old.sheet, plan |-> old.plan,
               missing |-> old.missing]
    BY <2>1
  <2> HIDE DEF new
  <2>3. /\ new = [status |-> new.status, sheet |-> new.sheet, plan |-> new.plan,
                  missing |-> new.missing]
        /\ new.status = status /\ new.sheet = old.sheet /\ new.plan = old.plan
        /\ new.missing = old.missing
    BY <2>2
  <2> QED
    BY <1>2, <2>3 DEF Planned
<1> HIDE DEF new
<1>4. /\ batch' = [c \in Batches |-> batch'[c]] /\ batch'[b] = new
      /\ \A c \in Batches : c # b => batch'[c] = batch[c]
    BY <1>1, <1>2 DEF CatalogInv, CatalogTypes
<1>5. \A c \in Batches : BatchOK(batch'[c], product)
    BY <1>3, <1>4 DEF BatchOK, CatalogInv, CatalogTypes
<1>6. /\ work' = [g \in Hands |-> work'[g]] /\ work'[h] = Resting
      /\ \A g \in Hands : g # h => work'[g] = work[g]
    BY <1>1 DEF CatalogInv, CatalogTypes
<1>7. ASSUME NEW g \in Hands PROVE HandOK(work'[g], batch', product)
  <2>1. CASE g = h
    BY <1>6, <2>1 DEF HandOK
  <2>2. CASE g # h
    <3>1. HandOK(work[g], batch, product) /\ work'[g] = work[g]
      BY <1>6, <2>2 DEF CatalogInv, CatalogTypes
    <3>2. \A c \in Batches : /\ batch'[c].sheet = batch[c].sheet
                             /\ batch[c].status # "none" => batch'[c].status # "none"
      BY <1>3, <1>4
    <3>3. AtRow(work[g], batch) => AtRow(work[g], batch')
      BY <3>2 DEF AtRow
    <3>4. AtRow(work[g], batch) =>
            batch'[work[g].batch].sheet = batch[work[g].batch].sheet
      BY <3>2 DEF AtRow
    <3> QED
      BY <3>1, <3>3, <3>4 DEF HandOK
  <2> QED
    BY <2>1, <2>2
<1>8. \A s \in Skus : \/ product'[s] = product[s]
                      \/ /\ product[s] # Absent
                         /\ \E x : product'[s] = [product[s] EXCEPT !.status = x]
  <2>1. \A s \in gone : product[s] # Absent
    BY <1>2 DEF Planned
  <2> HIDE DEF old
  <2> QED
    BY <1>1, <2>1
<1>9. product' = [s \in Skus |-> product'[s]]
    BY <1>1
<1>10. ASSUME NEW s \in Skus \ disturbed, NEW p, NEW note, NEW sum, Quiet(s, work, p, note, sum)
       PROVE  Quiet(s, work', p, note, sum)
  <2>1. /\ ~Trailing(work[h], s) /\ ~Trailing(Resting, s) /\ ~ReadsRow(Resting, s)
        /\ work = [g \in Hands |-> work[g]]
    BY <1>1 DEF Trailing, ReadsRow, Resting, CatalogInv, CatalogTypes
  <2>2. Quiet(s, [work EXCEPT ![h] = Resting], p, note, sum)
    BY <1>10, <2>1, ElsewhereIsQuiet
  <2> QED
    BY <1>1, <2>2
<1> QED
    BY <1>1, <1>4, <1>5, <1>6, <1>7, <1>8, <1>9, <1>10, ArchivingIsQuiet

\* The editor archives a product.
LEMMA ArchiveIsQuiet ==
    ASSUME CatalogInv, NEW s \in Skus, ArchiveProduct(s)
    PROVE  CatalogInv'
<1>1. /\ product[s] # Absent /\ product' = [product EXCEPT ![s] = [product[s] EXCEPT !.status = "archived"]]
      /\ UNCHANGED <<paper, books, disturbed, batch, work>>
    BY DEF ArchiveProduct, Exists
<1>2. /\ product' = [t \in Skus |-> product'[t]]
      /\ product'[s] = [product[s] EXCEPT !.status = "archived"]
      /\ \A t \in Skus : t # s => product'[t] = product[t]
    BY <1>1 DEF CatalogInv, CatalogTypes
<1>3. \A t \in Skus : \/ product'[t] = product[t]
                      \/ /\ product[t] # Absent
                         /\ \E status : product'[t] = [product[t] EXCEPT !.status = status]
    BY <1>1, <1>2
<1>4. /\ batch' = [b \in Batches |-> batch'[b]] /\ \A b \in Batches : BatchOK(batch'[b], product)
      /\ work' = [h \in Hands |-> work'[h]] /\ \A h \in Hands : HandOK(work'[h], batch', product)
    BY <1>1 DEF CatalogInv, CatalogTypes
<1> QED
    BY <1>1, <1>2, <1>3, <1>4, ArchivingIsQuiet

\* The trail of an edit: what it owed is written, and nobody else had anything to say.
LEMMA WriteTrailIsQuiet ==
    ASSUME CatalogInv, NEW h \in Hands, WriteTrail(h)
    PROVE  CatalogInv'
<1> DEFINE w == work[h]
           s == w.sku
           c == w.change
           seen == w.seen
           sum == books[s]
           booked == IF Given(c.stock, seen.stock) = seen.stock THEN 0 ELSE c.stock - seen.stock
           noted == Given(c.price, seen.price) # seen.price
<1>1. /\ w.job = "trail" /\ work' = [work EXCEPT ![h] = Resting]
      /\ UNCHANGED <<product, disturbed, batch>>
      /\ books' = IF Given(c.stock, seen.stock) = seen.stock THEN books
                  ELSE [books EXCEPT ![s] = books[s] + c.stock - seen.stock]
      /\ IF Given(c.price, seen.price) = seen.price THEN UNCHANGED paper
         ELSE Record(s, seen.price, c.price)
    BY DEF WriteTrail, Rest, Do
<1>2. /\ s \in Skus /\ seen.price \in Int /\ seen.stock \in Int
      /\ c.price \in Int /\ c.stock \in Int
  <2>1. HandOK(w, batch, product)
    BY DEF CatalogInv, CatalogTypes
  <2> QED
    BY <1>1, <2>1 DEF HandOK, Resting
<1>3. sum \in Int
    BY <1>2 DEF CatalogInv, CatalogTypes
<1>4. /\ books' \in [Skus -> Int] /\ books'[s] = sum + Given(c.stock, seen.stock) - seen.stock
      /\ \A t \in Skus : t # s => books'[t] = books[t]
  <2>1. books \in [Skus -> Int] /\ sum = books[s]
    BY DEF CatalogInv, CatalogTypes
  <2>2. CASE Given(c.stock, seen.stock) = seen.stock
    <3>1. books' = books
      BY <1>1, <2>2
    <3> HIDE DEF s, c, seen, sum
    <3> QED
      BY <1>2, <1>3, <2>1, <2>2, <3>1
  <2>3. CASE Given(c.stock, seen.stock) # seen.stock
    <3>1. books' = [books EXCEPT ![s] = books[s] + c.stock - seen.stock]
      BY <1>1, <2>3
    <3>2. Given(c.stock, seen.stock) = c.stock
      BY <2>3 DEF Given
    <3> HIDE DEF s, c, seen, sum
    <3> DEFINE total == sum + c.stock - seen.stock
    <3>3. total \in Int
      BY <1>2, <1>3
    <3>4. books' = [books EXCEPT ![s] = total]
      BY <2>1, <3>1
    <3>5. total = sum + Given(c.stock, seen.stock) - seen.stock
      BY <3>2
    <3> HIDE DEF total
    <3> QED
      BY <1>2, <2>1, <3>3, <3>4, <3>5
  <2> QED
    BY <2>2, <2>3
<1>5. PICK note : /\ paper' = [paper EXCEPT ![s] = note]
                  /\ note = [told |-> note.told, chained |-> note.chained]
                  /\ ~Record(s, seen.price, c.price) => note = paper[s]
                  /\ Record(s, seen.price, c.price) =>
                       /\ note.told = c.price
                       /\ note.chained <=> (paper[s].chained /\ seen.price = paper[s].told)
  <2>1. PICK o, n : o = seen.price /\ n = c.price
    OBVIOUS
  <2>2. Record(s, o, n) \/ UNCHANGED paper
    BY <1>1, <2>1
  <2> HIDE DEF s, c, seen
  <2> QED
    BY <1>2, <2>1, <2>2, NoteOf
<1>6. \/ note = paper[s] /\ Given(c.price, seen.price) = seen.price
      \/ /\ note.told = c.price /\ Given(c.price, seen.price) = c.price
         /\ note.chained <=> (paper[s].chained /\ seen.price = paper[s].told)
  <2>1. CASE Record(s, seen.price, c.price)
    <3>1. CASE Given(c.price, seen.price) = c.price
      BY <1>5, <2>1, <3>1
    <3>2. CASE Given(c.price, seen.price) # c.price
      <4>1. UNCHANGED paper /\ Given(c.price, seen.price) = seen.price
        BY <1>1, <3>2 DEF Given
      <4>2. note = paper[s]
        BY <1>2, <1>5, <4>1 DEF CatalogInv, CatalogTypes
      <4> QED
        BY <4>1, <4>2
    <3> QED
      BY <3>1, <3>2
  <2>2. CASE ~Record(s, seen.price, c.price)
    BY <1>1, <1>5, <2>2
  <2> QED
    BY <2>1, <2>2
<1>7. /\ paper' = [t \in Skus |-> paper'[t]] /\ paper'[s] = note
      /\ \A t \in Skus : t # s => paper'[t] = paper[t]
    BY <1>2, <1>5 DEF CatalogInv, CatalogTypes
<1>8. /\ work' = [g \in Hands |-> work'[g]] /\ work'[h] = Resting
      /\ \A g \in Hands : g # h => work'[g] = work[g]
    BY <1>1 DEF CatalogInv, CatalogTypes
<1>9. CatalogTypes'
  <2>1. \A t \in Skus : paper'[t] = [told |-> paper'[t].told, chained |-> paper'[t].chained]
    BY <1>5, <1>7 DEF CatalogInv, CatalogTypes
  <2>2. \A g \in Hands : HandOK(work'[g], batch', product')
    <3>1. ASSUME NEW g \in Hands PROVE HandOK(work'[g], batch', product')
      <4>1. HandOK(work[g], batch, product) /\ batch' = batch /\ product' = product
        BY <1>1 DEF CatalogInv, CatalogTypes
      <4>2. work'[g] = work[g] \/ work'[g] = Resting
        BY <1>8
      <4>3. HandOK(Resting, batch, product)
        BY DEF HandOK
      <4> QED
        BY <4>1, <4>2, <4>3
    <3> QED
      BY <3>1
  <2> QED
    BY <1>1, <1>4, <1>7, <1>8, <2>1, <2>2 DEF CatalogInv, CatalogTypes
<1>10. ASSUME NEW t \in Skus \ disturbed' PROVE QuietAll(t)'
  <2>1. Quiet(t, work, product[t], paper[t], books[t]) /\ t \in Skus
    BY <1>1, <1>10 DEF CatalogInv, QuietAll
  <2>2. work = [g \in Hands |-> work[g]] /\ product'[t] = product[t]
    BY <1>1 DEF CatalogInv, CatalogTypes
  <2>3. ~ReadsRow(Resting, t) /\ ~Trailing(Resting, t)
    BY DEF ReadsRow, Trailing, Resting
  <2>4. CASE t # s
    <3>1. ~Trailing(work[h], t)
      BY <2>4 DEF Trailing
    <3>2. Quiet(t, [work EXCEPT ![h] = Resting], product[t], paper[t], books[t])
      BY <2>1, <2>2, <2>3, <3>1, ElsewhereIsQuiet
    <3> QED
      BY <1>1, <1>4, <1>7, <2>2, <2>4, <3>2 DEF QuietAll
  <2>5. CASE t = s
    <3>1. Trailing(work[h], s)
      BY <1>1 DEF Trailing
    <3>2. \A g \in Hands : g # h => ~Trailing(work[g], s)
      BY <2>1, <2>5, <3>1 DEF Quiet
    <3>3. Owes(w, product[s], paper[s], sum)
      BY <2>1, <2>5, <3>1 DEF Quiet
    <3>4. /\ product[s] # Absent /\ paper[s].chained /\ paper[s].told = seen.price
          /\ product[s].price = Given(c.price, seen.price)
          /\ product[s].stock = sum + Given(c.stock, seen.stock) - seen.stock
      BY <3>3 DEF Owes
    <3>5. note.chained /\ note.told = product[s].price
      BY <1>6, <3>4
    <3>6. Exact(product[s], note, books'[s])
      BY <1>4, <3>4, <3>5 DEF Exact
    <3>7. \A g \in Hands : ~Trailing(work'[g], s)
      BY <1>8, <2>3, <2>5, <3>2
    <3>8. \A g \in Hands : ReadsRow(work'[g], s) => Agrees(work'[g].seen, product[s])
      BY <1>8, <2>1, <2>3, <2>5 DEF Quiet
    <3>9. Quiet(s, work', product[s], note, books'[s])
      BY <3>6, <3>7, <3>8 DEF Quiet
    <3> QED
      BY <1>7, <2>2, <2>5, <3>9 DEF QuietAll
  <2> QED
    BY <2>4, <2>5
<1> QED
    BY <1>9, <1>10 DEF CatalogInv

\* The catalogue begins with exact papers.
LEMMA CatalogBegins == CatalogInit => CatalogInv
<1> SUFFICES ASSUME CatalogInit PROVE CatalogInv
    OBVIOUS
<1>1. IsProduct(OnSale) /\ OnSale.price = 2 /\ OnSale.stock = 2
  <2> DEFINE yes == TRUE
  <2>1. OnSale = [status |-> "published", reviewed |-> yes, supplied |-> yes,
                  price |-> 2, cost |-> None, stock |-> 2]
    BY DEF OnSale
  <2> HIDE DEF yes
  <2> QED
    BY <2>1 DEF IsProduct
<1>2. OnSale # Absent
    BY <1>1, ProductsAreThere
<1>3. \A s \in Skus : product[s] = Absent \/ product[s] = OnSale
    BY DEF CatalogInit
<1> DEFINE had(s) == IF product[s] = Absent THEN 0 ELSE 2
           yes == TRUE
<1>4. \A s \in Skus : had(s) \in Int /\ books[s] = had(s)
    BY DEF CatalogInit
<1>5. \A s \in Skus : paper[s] = [told |-> had(s), chained |-> yes]
    BY DEF CatalogInit
<1>6. /\ product = [s \in Skus |-> product[s]] /\ paper = [s \in Skus |-> paper[s]]
      /\ batch = [b \in Batches |-> batch[b]] /\ work = [h \in Hands |-> work[h]]
      /\ books = [s \in Skus |-> had(s)]
      /\ \A b \in Batches : batch[b] = NoBatch
      /\ \A h \in Hands : work[h] = Resting
    BY DEF CatalogInit
<1>7. \A h \in Hands, s \in Skus : ~Trailing(work[h], s) /\ ~ReadsRow(work[h], s)
    BY <1>6 DEF Resting, Trailing, ReadsRow
<1>8. \A s \in Skus : /\ product[s] = Absent => had(s) = 0
                      /\ product[s] # Absent =>
                           /\ IsProduct(product[s])
                           /\ had(s) = product[s].price /\ had(s) = product[s].stock
    BY <1>1, <1>2, <1>3
<1>9. yes
    OBVIOUS
<1> HIDE DEF had, yes
<1>10. ASSUME NEW s \in Skus
       PROVE  /\ paper[s] = [told |-> paper[s].told, chained |-> paper[s].chained]
              /\ paper[s].told = had(s) /\ paper[s].chained = yes
  <2>1. PICK note, n : note = paper[s] /\ n = had(s)
    OBVIOUS
  <2>2. note = [told |-> n, chained |-> yes]
    BY <1>5, <2>1
  <2>3. note = [told |-> note.told, chained |-> note.chained] /\ note.told = n /\ note.chained = yes
    BY <2>2
  <2> QED
    BY <2>1, <2>3
<1>11. CatalogTypes
    BY <1>4, <1>6, <1>8, <1>10 DEF CatalogTypes, InTable, BatchOK, HandOK
<1>12. \A s \in Skus : Exact(product[s], paper[s], books[s])
    BY <1>4, <1>8, <1>9, <1>10 DEF Exact
<1>13. \A s \in Skus : QuietAll(s)
    BY <1>7, <1>12 DEF QuietAll, Quiet
<1> QED
    BY <1>11, <1>13 DEF CatalogInv

\* Every step keeps the invariant.
LEMMA CatalogStaysQuiet == CatalogInv /\ [CatalogNext]_catalogVars => CatalogInv'
<1> SUFFICES ASSUME CatalogInv, [CatalogNext]_catalogVars PROVE CatalogInv'
    OBVIOUS
<1>1. CASE UNCHANGED catalogVars
    BY <1>1 DEF catalogVars, rowVars, CatalogInv, CatalogTypes, QuietAll
<1>2. ASSUME NEW b \in Batches, NEW f \in Sheets, DryRun(b, f) PROVE CatalogInv'
    BY <1>2, DryRunIsQuiet
<1>3. ASSUME NEW b \in Batches, NEW h \in Hands, StartCommit(h, b) PROVE CatalogInv'
    BY <1>3, CommitBegins
<1>4. ASSUME NEW h \in Hands, ReadRow(h) PROVE CatalogInv'
    BY <1>4, ReadRowIsQuiet
<1>5. ASSUME NEW h \in Hands, WriteRow(h) PROVE CatalogInv'
    BY <1>5, WriteRowIsQuiet
<1>6. ASSUME NEW h \in Hands, FinishCommit(h) \/ FailCommit(h) PROVE CatalogInv'
  <2>1. PICK gone, status :
          /\ gone \subseteq batch[work[h].batch].missing /\ status \in {"committed", "failed"}
          /\ CloseBatch(h, gone, status)
    BY <1>6 DEF FinishCommit, FailCommit
  <2> QED
    BY <2>1, ClosingIsQuiet
<1>7. ASSUME NEW h \in Hands, WritePatch(h) PROVE CatalogInv'
    BY <1>7, WritePatchIsQuiet
<1>8. ASSUME NEW h \in Hands, WriteTrail(h) PROVE CatalogInv'
    BY <1>8, WriteTrailIsQuiet
<1>9. ASSUME NEW h \in Hands, WriteCsvRow(h) PROVE CatalogInv'
    BY <1>9, WriteCsvRowIsQuiet
<1>10. ASSUME NEW h \in Hands, Die(h) PROVE CatalogInv'
    BY <1>10, DyingIsQuiet
<1>11. ASSUME NEW h \in Hands, NEW s \in Skus, NEW c \in Patches, ReadForAudit(h, s, c)
       PROVE  CatalogInv'
  <2>1. PICK job : job = "patch"
    OBVIOUS
  <2>2. /\ work[h] = Resting /\ Exists(s)
        /\ work' = [work EXCEPT ![h] = [job |-> job, sku |-> s, seen |-> product[s], change |-> c]]
        /\ UNCHANGED <<product, paper, books, disturbed, batch>>
    BY <1>11, <2>1 DEF ReadForAudit, Do, rowVars
  <2> QED
    BY <2>1, <2>2, ReadingIsQuiet
<1>12. ASSUME NEW h \in Hands, NEW s \in Skus, NEW n \in NewProducts, CreateProduct(h, s, n)
       PROVE  CatalogInv'
    BY <1>12, CreateIsQuiet
<1>13. ASSUME NEW h \in Hands, NEW s \in Skus, NEW r \in CsvRows, ReadCsvRow(h, s, r)
       PROVE  CatalogInv'
  <2>1. PICK job : job = "csv"
    OBVIOUS
  <2>2. /\ work[h] = Resting
        /\ work' = [work EXCEPT ![h] = [job |-> job, sku |-> s, seen |-> product[s], change |-> r]]
        /\ UNCHANGED <<product, paper, books, disturbed, batch>>
    BY <1>13, <2>1 DEF ReadCsvRow, Do, rowVars
  <2> QED
    BY <2>1, <2>2, ReadingIsQuiet
<1>14. ASSUME NEW s \in Skus, ArchiveProduct(s) PROVE CatalogInv'
    BY <1>14, ArchiveIsQuiet
<1>15. ASSUME NEW s \in Skus, SellOne(s) PROVE CatalogInv'
  <2> DEFINE p == product[s]
             n == -1
  <2>1. p # Absent /\ IsProduct(p)
    BY <1>15 DEF SellOne, Exists, CatalogInv, CatalogTypes, InTable
  <2>2. p.stock - 1 = p.stock + n /\ n \in Int
    BY <2>1 DEF IsProduct
  <2>3. Write(None, s, [p EXCEPT !.stock = p.stock - 1], -1)
    BY <1>15 DEF SellOne
  <2>4. [p EXCEPT !.stock = p.stock - 1] = [p EXCEPT !.stock = @ + n]
    BY <2>2
  <2>5. Write(None, s, [p EXCEPT !.stock = @ + n], n)
    BY <2>3, <2>4
  <2>6. Exists(s) /\ UNCHANGED <<batch, work, paper>>
    BY <1>15 DEF SellOne
  <2> HIDE DEF n
  <2> QED
    BY <2>2, <2>5, <2>6, ShopWriteIsQuiet
<1>16. ASSUME NEW s \in Skus, NEW d \in {-1, 1}, AdjustStock(s, d) PROVE CatalogInv'
  <2>1. /\ d \in Int /\ Exists(s) /\ UNCHANGED <<batch, work, paper>>
        /\ Write(None, s, [product[s] EXCEPT !.stock = @ + d], d)
    BY <1>16 DEF AdjustStock
  <2> QED
    BY <2>1, ShopWriteIsQuiet
<1> QED
    BY <1>1, <1>2, <1>3, <1>4, <1>5, <1>6, <1>7, <1>8, <1>9, <1>10, <1>11, <1>12, <1>13, <1>14,
       <1>15, <1>16 DEF CatalogNext

\* The invariant of the writers of the catalogue holds of every behaviour.
LEMMA CatalogInvAlways == CatalogSpec => []CatalogInv
    BY CatalogBegins, CatalogStaysQuiet, PTL DEF CatalogSpec

\* A product whose edits never overlapped has papers that tell the truth, whatever sheets,
\* patches, CSV files and sales came between: its price history is a chain that ends at its
\* price, and its movements add up to its stock (admin_product.go, admin_import.go, stock.go).
THEOREM QuietPapersStayExact == CatalogSpec => []QuietPapersAreExact
    BY CatalogInvAlways, CatalogInvHolds, PTL

-----------------------------------------------------------------------------
(* Storefront: what an ORDER BY, a LIMIT and an OFFSET return *)

\* What an ORDER BY looks at: as many numbers of every row.
Keys(S, key, n) == \A p \in S : Len(key[p]) = n /\ \A i \in 1..n : key[p][i] \in Int
\* It tells the rows apart.
TellsApart(S, key, n) == \A p, q \in S : p # q => \E i \in 1..n : key[p][i] # key[q][i]
Before(key, p, q) == Precedes(key[p], key[q])
StrictOrder(S, key) ==
    /\ \A p \in S : ~Before(key, p, p)
    /\ \A p, q, r \in S : Before(key, p, q) /\ Before(key, q, r) => Before(key, p, r)
    /\ \A p, q \in S : p # q => Before(key, p, q) \/ Before(key, q, p)

\* Rows told apart are strictly ordered.
LEMMA ToldApartInOrder ==
    ASSUME NEW S, NEW key, NEW n \in Nat, Keys(S, key, n), TellsApart(S, key, n)
    PROVE  StrictOrder(S, key)
<1>1. \A p, q \in S : Before(key, p, q) <=>
         \E i \in 1..n : key[p][i] < key[q][i] /\ \A j \in 1..(i - 1) : key[p][j] = key[q][j]
    BY DEF Keys, Before, Precedes
<1>2. \A p \in S : \A i \in 1..n : key[p][i] \in Int
    BY DEF Keys
<1>3. \A p \in S : ~Before(key, p, p)
    BY <1>1, <1>2
<1>4. ASSUME NEW p \in S, NEW q \in S, NEW r \in S, Before(key, p, q), Before(key, q, r)
      PROVE  Before(key, p, r)
  <2>1. PICK i \in 1..n : key[p][i] < key[q][i] /\ \A j \in 1..(i - 1) : key[p][j] = key[q][j]
      BY <1>1, <1>4
  <2>2. PICK k \in 1..n : key[q][k] < key[r][k] /\ \A j \in 1..(k - 1) : key[q][j] = key[r][j]
      BY <1>1, <1>4
  <2>3. CASE i < k
    <3>1. key[q][i] = key[r][i]
        BY <2>2, <2>3
    <3>2. \A j \in 1..(i - 1) : key[p][j] = key[r][j]
        BY <2>1, <2>2, <2>3
    <3>3. key[p][i] < key[r][i]
        BY <2>1, <3>1
    <3> QED BY <1>1, <3>2, <3>3
  <2>4. CASE i = k
    <3>1. key[p][i] < key[r][i]
        BY <2>1, <2>2, <2>4, <1>2
    <3>2. \A j \in 1..(i - 1) : key[p][j] = key[r][j]
        BY <2>1, <2>2, <2>4
    <3> QED BY <1>1, <3>1, <3>2
  <2>5. CASE k < i
    <3>1. key[p][k] = key[q][k]
        BY <2>1, <2>5
    <3>2. \A j \in 1..(k - 1) : key[p][j] = key[r][j]
        BY <2>1, <2>2, <2>5
    <3>3. key[p][k] < key[r][k]
        BY <2>2, <3>1
    <3> QED BY <1>1, <3>2, <3>3
  <2> QED BY <2>3, <2>4, <2>5
<1>5. ASSUME NEW p \in S, NEW q \in S, p # q
      PROVE  Before(key, p, q) \/ Before(key, q, p)
  <2> DEFINE T == {i \in 1..n : key[p][i] # key[q][i]}
  <2>1. T # {} /\ T \in SUBSET Nat
      BY <1>5 DEF TellsApart
  <2>2. PICK i \in T : \A m \in T : i <= m
    <3> HIDE DEF T
    <3> QED BY <2>1, Smallest
  <2>3. i \in 1..n /\ key[p][i] # key[q][i]
      OBVIOUS
  <2>4. \A j \in 1..(i - 1) : key[p][j] = key[q][j]
    <3> TAKE j \in 1..(i - 1)
    <3>1. j \in 1..n /\ ~(i <= j)
        BY <2>3
    <3> QED BY <2>2, <3>1
  <2>5. key[p][i] < key[q][i] \/ key[q][i] < key[p][i]
      BY <2>3, <1>2
  <2> QED BY <1>1, <2>3, <2>4, <2>5
<1> QED BY <1>3, <1>4, <1>5 DEF StrictOrder

\* How many come before a row.
Ahead(S, key, p) == {q \in S : Before(key, q, p)}
PlaceIn(S, key, p) == Cardinality(Ahead(S, key, p)) + 1

\* Every row has a place of its own.
LEMMA PlacesDiffer ==
    ASSUME NEW S, IsFiniteSet(S), NEW key, StrictOrder(S, key)
    PROVE  /\ \A p \in S : PlaceIn(S, key, p) \in 1..Cardinality(S)
           /\ \A p, q \in S : Before(key, p, q) => PlaceIn(S, key, p) < PlaceIn(S, key, q)
           /\ \A p, q \in S : PlaceIn(S, key, p) = PlaceIn(S, key, q) => p = q
<1>0. Cardinality(S) \in Nat
    BY FS_CardinalityType
<1>1. \A p \in S : IsFiniteSet(Ahead(S, key, p)) /\ Cardinality(Ahead(S, key, p)) \in Nat
  <2> TAKE p \in S
  <2>1. Ahead(S, key, p) \in SUBSET S
      BY DEF Ahead
  <2> HIDE DEF Ahead
  <2> QED BY <2>1, FS_Subset, FS_CardinalityType
<1>2. ASSUME NEW p \in S, NEW T, IsFiniteSet(T), Ahead(S, key, p) \subseteq T, p \in T
      PROVE  Cardinality(Ahead(S, key, p)) < Cardinality(T) /\ Cardinality(T) \in Nat
  <2>1. p \notin Ahead(S, key, p)
      BY DEF Ahead, StrictOrder
  <2>2. Ahead(S, key, p) \in SUBSET T /\ Ahead(S, key, p) # T
      BY <2>1, <1>2
  <2>3. /\ Cardinality(Ahead(S, key, p)) <= Cardinality(T)
        /\ Cardinality(T) = Cardinality(Ahead(S, key, p)) => T = Ahead(S, key, p)
      BY <2>2, <1>2, FS_Subset
  <2>4. Cardinality(T) \in Nat
      BY <1>2, FS_CardinalityType
  <2> QED BY <2>2, <2>3, <2>4, <1>1
<1>3. \A p \in S : PlaceIn(S, key, p) \in 1..Cardinality(S)
  <2> TAKE p \in S
  <2>1. Ahead(S, key, p) \subseteq S
      BY DEF Ahead
  <2>2. Cardinality(Ahead(S, key, p)) < Cardinality(S)
      BY <1>2, <2>1
  <2> QED BY <2>2, <1>0, <1>1 DEF PlaceIn
<1>4. ASSUME NEW p \in S, NEW q \in S, Before(key, p, q)
      PROVE  PlaceIn(S, key, p) < PlaceIn(S, key, q)
  <2>1. Ahead(S, key, p) \subseteq Ahead(S, key, q)
      BY <1>4 DEF Ahead, StrictOrder
  <2>2. p \in Ahead(S, key, q)
      BY <1>4 DEF Ahead
  <2>3. Cardinality(Ahead(S, key, p)) < Cardinality(Ahead(S, key, q))
      BY <1>1, <1>2, <2>1, <2>2
  <2> QED BY <2>3, <1>1 DEF PlaceIn
<1>5. ASSUME NEW p \in S, NEW q \in S, PlaceIn(S, key, p) = PlaceIn(S, key, q) PROVE p = q
  <2>1. PlaceIn(S, key, p) \in Nat /\ PlaceIn(S, key, q) \in Nat
      BY <1>1 DEF PlaceIn
  <2>2. ~Before(key, p, q) /\ ~Before(key, q, p)
      BY <1>4, <1>5, <2>1
  <2> QED BY <2>2 DEF StrictOrder
<1> QED BY <1>3, <1>4, <1>5

\* A finite set of rows told apart has a sequence in order.
LEMMA AnOrderExists ==
    ASSUME NEW S, IsFiniteSet(S), NEW key, StrictOrder(S, key)
    PROVE  InOrder(S, key) \in Sorted(S, key)
<1> DEFINE n == Cardinality(S)
           f == [p \in S |-> PlaceIn(S, key, p)]
<1>0. n \in Nat
    BY FS_CardinalityType
<1>1. /\ \A p \in S : PlaceIn(S, key, p) \in 1..n
      /\ \A p, q \in S : Before(key, p, q) => PlaceIn(S, key, p) < PlaceIn(S, key, q)
      /\ \A p, q \in S : PlaceIn(S, key, p) = PlaceIn(S, key, q) => p = q
    BY PlacesDiffer
<1> HIDE DEF n
<1>2. f \in Injection(S, 1..n)
    BY <1>1 DEF Injection, IsInjective
<1>3. IsFiniteSet(1..n) /\ Cardinality(1..n) = n
    BY <1>0, FS_Interval
<1>4. f \in Surjection(S, 1..n)
  <2> HIDE DEF f
  <2> QED BY <1>2, <1>3, FS_Injection DEF n
<1>5. \A i \in 1..n : \E p \in S : PlaceIn(S, key, p) = i
    BY <1>4 DEF Surjection
<1> DEFINE s == [i \in 1..n |-> CHOOSE p \in S : PlaceIn(S, key, p) = i]
<1>6. \A i \in 1..n : s[i] \in S /\ PlaceIn(S, key, s[i]) = i
    BY <1>5
<1>7. s \in [1..n -> S]
    BY <1>6
<1> HIDE DEF s
<1>8. \A i, j \in 1..n : i < j => s[i] # s[j] /\ ~Precedes(key[s[j]], key[s[i]])
  <2> TAKE i, j \in 1..n
  <2> HAVE i < j
  <2>1. PlaceIn(S, key, s[i]) = i /\ PlaceIn(S, key, s[j]) = j /\ s[i] \in S /\ s[j] \in S
      BY <1>6
  <2>2. s[i] # s[j]
      BY <2>1
  <2>3. ~Before(key, s[j], s[i])
      BY <1>1, <2>1
  <2> QED BY <2>2, <2>3 DEF Before
<1>9. s \in Sorted(S, key)
    BY <1>7, <1>8 DEF Sorted, n
<1> QED BY <1>9 DEF InOrder

\* A sequence in order has every row once.
LEMMA InOrderFacts ==
    ASSUME NEW S, IsFiniteSet(S), NEW key, NEW s \in Sorted(S, key)
    PROVE  /\ Cardinality(S) \in Nat /\ s \in [1..Cardinality(S) -> S]
           /\ s \in Seq(S) /\ Len(s) = Cardinality(S) /\ IsInjective(s)
           /\ \A p \in S : \E i \in 1..Cardinality(S) : s[i] = p
<1> DEFINE n == Cardinality(S)
<1>0. n \in Nat
    BY FS_CardinalityType
<1>1. /\ s \in [1..n -> S]
      /\ \A i, j \in 1..n : i < j => s[i] # s[j]
    BY DEF Sorted
<1>2. IsFiniteSet(1..n) /\ Cardinality(1..n) = n
    BY <1>0, FS_Interval
<1>h. Cardinality(S) = n
    OBVIOUS
<1> HIDE DEF n
<1>3. \A i, j \in 1..n : s[i] = s[j] => i = j
  <2> TAKE i, j \in 1..n
  <2>1. i < j \/ j < i \/ i = j
      BY <1>0
  <2> QED BY <2>1, <1>1
<1>4. s \in Injection(1..n, S) /\ IsInjective(s)
    BY <1>1, <1>3 DEF Injection, IsInjective
<1>5. s \in Surjection(1..n, S)
    BY <1>2, <1>4, <1>h, FS_Injection
<1>6. s \in Seq(S) /\ Len(s) = n
    BY <1>0, <1>1
<1> QED BY <1>0, <1>1, <1>4, <1>5, <1>6, <1>h DEF Surjection

\* A row of a sequence in order is at its place.
LEMMA PlaceInOrder ==
    ASSUME NEW S, IsFiniteSet(S), NEW key, StrictOrder(S, key), NEW s \in Sorted(S, key),
           NEW i \in 1..Cardinality(S)
    PROVE  PlaceIn(S, key, s[i]) = i
<1> DEFINE n == Cardinality(S)
<1>1. /\ n \in Nat /\ s \in [1..n -> S] /\ IsInjective(s)
      /\ \A p \in S : \E j \in 1..n : s[j] = p
    BY InOrderFacts
<1>2. \A j, k \in 1..n : j < k => s[j] # s[k] /\ ~Before(key, s[k], s[j])
    BY DEF Sorted, Before
<1>i. i \in 1..n
    OBVIOUS
<1> HIDE DEF n
<1>3. \A j, k \in 1..n : j < k => Before(key, s[j], s[k])
    BY <1>1, <1>2 DEF StrictOrder
<1> DEFINE A == Ahead(S, key, s[i])  f == [j \in 1..(i - 1) |-> s[j]]
<1>4. \A j \in 1..(i - 1) : j \in 1..n /\ j < i
    BY <1>1, <1>i
<1>5. \A j \in 1..(i - 1) : s[j] \in A
    BY <1>1, <1>3, <1>4, <1>i DEF Ahead
<1>6. \A p \in A : \E j \in 1..(i - 1) : s[j] = p
  <2> TAKE p \in A
  <2>1. p \in S /\ Before(key, p, s[i])
      BY DEF Ahead
  <2>2. PICK j \in 1..n : s[j] = p
      BY <2>1, <1>1
  <2>3. j # i
      BY <2>1, <2>2, <1>1, <1>i DEF StrictOrder
  <2>4. ~(i < j)
      BY <2>1, <2>2, <1>2, <1>i
  <2>5. j \in 1..(i - 1)
      BY <2>3, <2>4, <1>1, <1>i
  <2> QED BY <2>2, <2>5
<1> HIDE DEF A
<1>7. f \in Bijection(1..(i - 1), A)
  <2>1. f \in [1..(i - 1) -> A]
      BY <1>5
  <2>2. IsInjective(f)
      BY <1>1, <1>4 DEF IsInjective
  <2>3. \A p \in A : \E j \in 1..(i - 1) : f[j] = p
      BY <1>6
  <2> QED BY <2>1, <2>2, <2>3 DEF Bijection, Injection, Surjection
<1>8. Cardinality(A) = i - 1
  <2>1. i - 1 \in Nat /\ ExistsBijection(1..(i - 1), A)
      BY <1>1, <1>i, <1>7 DEF ExistsBijection
  <2> QED BY <2>1, FS_CountingElements
<1> QED BY <1>8, <1>1, <1>i DEF PlaceIn, A

\* Where the order tells all rows apart there is only one sequence.
LEMMA OnlyOneOrder ==
    ASSUME NEW S, IsFiniteSet(S), NEW key, StrictOrder(S, key),
           NEW s \in Sorted(S, key), NEW t \in Sorted(S, key)
    PROVE  s = t
<1>1. s \in [1..Cardinality(S) -> S] /\ t \in [1..Cardinality(S) -> S]
    BY DEF Sorted
<1>2. \A i \in 1..Cardinality(S) : PlaceIn(S, key, s[i]) = i /\ PlaceIn(S, key, t[i]) = i
    BY PlaceInOrder
<1>3. \A i \in 1..Cardinality(S) : s[i] = t[i]
    BY <1>1, <1>2, PlacesDiffer
<1>4. s = [i \in 1..Cardinality(S) |-> s[i]] /\ t = [i \in 1..Cardinality(S) |-> t[i]]
    BY <1>1
<1> QED BY <1>3, <1>4

\* LIMIT and OFFSET.
LEMMA FirstRows ==
    ASSUME NEW S, NEW s \in Seq(S), NEW n \in Nat
    PROVE  /\ UpTo(n, s) \in Seq(S) /\ Len(UpTo(n, s)) <= n
           /\ Len(UpTo(n, s)) <= Len(s)
           /\ \A i \in 1..Len(UpTo(n, s)) : UpTo(n, s)[i] = s[i]
           /\ DOMAIN UpTo(n, s) = 1..Len(UpTo(n, s)) /\ Len(UpTo(n, s)) \in Nat
<1> DEFINE m == IF Len(s) < 0 + n THEN Len(s) ELSE 0 + n
<1>1. UpTo(n, s) = SubSeq(s, 1, m)
  <2>1. 0 + 1 = 1
      OBVIOUS
  <2> QED BY <2>1 DEF UpTo, Window
<1>2. m \in Nat /\ m <= n /\ m <= Len(s) /\ Len(s) \in Nat
    OBVIOUS
<1> HIDE DEF m
<1>3. \A i \in 1..m : s[i] \in S
    BY <1>2, ElementOfSeq
<1>4. /\ SubSeq(s, 1, m) \in Seq(S)
      /\ Len(SubSeq(s, 1, m)) = (IF 1 <= m THEN m - 1 + 1 ELSE 0)
      /\ \A i \in 1..(m - 1 + 1) : SubSeq(s, 1, m)[i] = s[1 + i - 1]
    BY <1>2, <1>3, SubSeqProperties
<1>5. Len(SubSeq(s, 1, m)) = m
    BY <1>2, <1>4
<1>6. \A i \in 1..m : SubSeq(s, 1, m)[i] = s[i]
  <2> TAKE i \in 1..m
  <2>1. m - 1 + 1 = m /\ 1 + i - 1 = i
      BY <1>2
  <2> QED BY <2>1, <1>4
<1>7. DOMAIN SubSeq(s, 1, m) = 1..Len(SubSeq(s, 1, m))
    BY <1>4
<1> QED BY <1>1, <1>2, <1>4, <1>5, <1>6, <1>7

\* A list without repetitions.
Listing(s, S) == s \in Seq(S) /\ IsInjective(s)
\* Its beginning is one too.
LEMMA FirstOfListing ==
    ASSUME NEW S, NEW s, Listing(s, S), NEW n \in Nat
    PROVE  Listing(UpTo(n, s), S) /\ Len(UpTo(n, s)) <= n
<1>1. s \in Seq(S) /\ \A i, j \in DOMAIN s : s[i] = s[j] => i = j
    BY DEF Listing, IsInjective
<1>2. DOMAIN s = 1..Len(s) /\ Len(s) \in Nat
    BY <1>1
<1>3. /\ UpTo(n, s) \in Seq(S) /\ Len(UpTo(n, s)) <= n
      /\ Len(UpTo(n, s)) <= Len(s)
      /\ \A i \in 1..Len(UpTo(n, s)) : UpTo(n, s)[i] = s[i]
      /\ DOMAIN UpTo(n, s) = 1..Len(UpTo(n, s)) /\ Len(UpTo(n, s)) \in Nat
    BY <1>1, FirstRows
<1>4. \A i \in 1..Len(UpTo(n, s)) : i \in DOMAIN s
    BY <1>2, <1>3
<1>5. IsInjective(UpTo(n, s))
    BY <1>1, <1>3, <1>4 DEF IsInjective
<1> QED BY <1>3, <1>5 DEF Listing

\* What of the rows was not seen before, each product once.
LEMMA FreshIsListing ==
    ASSUME NEW S, NEW rows \in Seq(S), NEW seen, NEW limit \in Nat
    PROVE  Listing(Fresh(rows, seen, limit), S \ seen) /\ Len(Fresh(rows, seen, limit)) <= limit
<1> DEFINE new == {i \in DOMAIN rows : rows[i] \notin seen /\ \A j \in 1..(i - 1) : rows[j] # rows[i]}
           key == [i \in new |-> <<i>>]
           order == InOrder(new, key)
           n == Cardinality(new)
           g == [i \in 1..n |-> rows[order[i]]]
<1>0. Len(rows) \in Nat /\ DOMAIN rows = 1..Len(rows) /\ \A i \in 1..Len(rows) : rows[i] \in S
    BY ElementOfSeq
<1>1. new \in SUBSET (1..Len(rows)) /\ IsFiniteSet(new)
  <2>1. new \in SUBSET (1..Len(rows)) /\ IsFiniteSet(1..Len(rows))
      BY <1>0, FS_Interval
  <2> HIDE DEF new
  <2> QED BY <2>1, FS_Subset
<1>2. \A i \in new : rows[i] \in S \ seen
    BY <1>0
<1>3. \A i, j \in new : rows[i] = rows[j] => i = j
  <2> TAKE i, j \in new
  <2> HAVE rows[i] = rows[j]
  <2>1. i \in Nat /\ j \in Nat /\ i >= 1 /\ j >= 1
      BY <1>1
  <2>2. ~(i < j)
      BY <2>1
  <2>3. ~(j < i)
      BY <2>1
  <2> QED BY <2>1, <2>2, <2>3
<1>f. Fresh(rows, seen, limit) = UpTo(limit, g)
    BY DEF Fresh
<1> HIDE DEF new
<1>4. StrictOrder(new, key)
  <2>1. \A i \in new : key[i] = <<i>> /\ i \in Int
      BY <1>1
  <2> HIDE DEF key
  <2>2. Keys(new, key, 1)
    <3>1. \A i \in new : Len(key[i]) = 1 /\ key[i][1] \in Int
      <4>1. \A i : Len(<<i>>) = 1 /\ <<i>>[1] = i
          OBVIOUS
      <4> QED BY <2>1, <4>1
    <3>2. \A i \in 1..1 : i = 1
        OBVIOUS
    <3> QED BY <3>1, <3>2 DEF Keys
  <2>3. \A i \in new : key[i][1] = i
      BY <2>1
  <2>4. TellsApart(new, key, 1)
      BY <2>3 DEF TellsApart
  <2> QED BY <2>2, <2>4, ToldApartInOrder
<1>5. order \in Sorted(new, key)
  <2> HIDE DEF key
  <2> QED BY <1>1, <1>4, AnOrderExists
<1> HIDE DEF key, order
<1>6. n \in Nat /\ order \in [1..n -> new] /\ IsInjective(order)
    BY <1>1, <1>5, InOrderFacts
<1> HIDE DEF n
<1>7. \A i \in 1..n : g[i] = rows[order[i]] /\ order[i] \in new
    BY <1>6
<1>8. g \in [1..n -> S \ seen]
    BY <1>2, <1>6
<1>9. g \in Seq(S \ seen)
  <2> HIDE DEF g
  <2> QED BY <1>6, <1>8
<1>10. IsInjective(g)
    BY <1>3, <1>6, <1>7 DEF IsInjective
<1>11. Listing(g, S \ seen)
    BY <1>9, <1>10 DEF Listing
<1> HIDE DEF g
<1> QED BY <1>f, <1>11, FirstOfListing

\* One list after another that has nothing of it.
LEMMA ListingsJoin ==
    ASSUME NEW S, NEW a, Listing(a, S), NEW b, Listing(b, S), \A x \in ToSet(a) : x \notin ToSet(b)
    PROVE  /\ Listing(a \o b, S) /\ Len(a \o b) = Len(a) + Len(b)
           /\ ToSet(a \o b) = ToSet(a) \union ToSet(b)
<1>1. a \in Seq(S) /\ b \in Seq(S) /\ Len(a) \in Nat /\ Len(b) \in Nat
    BY DEF Listing
<1>2. DOMAIN a = 1..Len(a) /\ DOMAIN b = 1..Len(b)
    BY <1>1
<1>3. /\ a \o b \in Seq(S) /\ Len(a \o b) = Len(a) + Len(b)
      /\ \A i \in 1..(Len(a) + Len(b)) : (a \o b)[i] = IF i <= Len(a) THEN a[i] ELSE b[i - Len(a)]
    BY <1>1, ConcatProperties
<1>4. DOMAIN (a \o b) = 1..(Len(a) + Len(b))
    BY <1>1, <1>3
<1> DEFINE c == a \o b
<1> HIDE DEF c
<1>5. \A i \in 1..Len(a) : i \in DOMAIN c /\ c[i] = a[i] /\ a[i] \in ToSet(a)
    BY <1>1, <1>2, <1>3, <1>4 DEF c, ToSet
<1>6. \A i \in 1..Len(b) : Len(a) + i \in DOMAIN c /\ c[Len(a) + i] = b[i] /\ b[i] \in ToSet(b)
  <2> TAKE i \in 1..Len(b)
  <2>1. Len(a) + i \in 1..(Len(a) + Len(b)) /\ ~(Len(a) + i <= Len(a)) /\ Len(a) + i - Len(a) = i
      BY <1>1
  <2> QED BY <2>1, <1>2, <1>3, <1>4 DEF c, ToSet
<1>7. \A i \in DOMAIN c : i \in 1..Len(a) \/ \E j \in 1..Len(b) : i = Len(a) + j
  <2> TAKE i \in DOMAIN c
  <2>1. i \in 1..(Len(a) + Len(b))
      BY <1>4 DEF c
  <2>2. CASE i <= Len(a)
      BY <2>1, <2>2, <1>1
  <2>3. CASE ~(i <= Len(a))
    <3>1. i - Len(a) \in 1..Len(b) /\ i = Len(a) + (i - Len(a))
        BY <2>1, <2>3, <1>1
    <3> QED BY <3>1
  <2> QED BY <2>2, <2>3
<1>8. /\ \A i, j \in 1..Len(a) : a[i] = a[j] => i = j
      /\ \A i, j \in 1..Len(b) : b[i] = b[j] => i = j
    BY <1>2 DEF Listing, IsInjective
<1>9. IsInjective(c)
  <2> SUFFICES ASSUME NEW i \in DOMAIN c, NEW j \in DOMAIN c, c[i] = c[j] PROVE i = j
      BY DEF IsInjective
  <2>1. CASE i \in 1..Len(a) /\ j \in 1..Len(a)
      BY <2>1, <1>5, <1>8
  <2>2. ASSUME NEW k \in 1..Len(a), NEW l \in 1..Len(b), c[k] = c[Len(a) + l] PROVE FALSE
      BY <2>2, <1>5, <1>6
  <2>3. ASSUME NEW k \in 1..Len(b), NEW l \in 1..Len(b), i = Len(a) + k, j = Len(a) + l PROVE i = j
    <3>1. b[k] = b[l]
        BY <2>3, <1>6
    <3> QED BY <2>3, <3>1, <1>8
  <2> QED BY <2>1, <2>2, <2>3, <1>7
<1>10. ToSet(c) = ToSet(a) \union ToSet(b)
  <2>1. \A x : x \in ToSet(c) <=> \E i \in DOMAIN c : c[i] = x
      BY DEF ToSet
  <2>2. \A x : x \in ToSet(a) <=> \E i \in 1..Len(a) : a[i] = x
      BY <1>2 DEF ToSet
  <2>3. \A x : x \in ToSet(b) <=> \E i \in 1..Len(b) : b[i] = x
      BY <1>2 DEF ToSet
  <2>4. \A x : x \in ToSet(c) <=> x \in ToSet(a) \/ x \in ToSet(b)
      BY <1>5, <1>6, <1>7, <2>1, <2>2, <2>3
  <2> QED BY <2>4
<1> QED BY <1>3, <1>9, <1>10 DEF Listing, c

\* Keys of two numbers and of three.
LEMMA PairsOrder ==
    ASSUME NEW S, NEW key, NEW a, NEW b,
           \A p \in S : key[p] = <<a[p], b[p]>> /\ a[p] \in Int /\ b[p] \in Int,
           \A p, q \in S : a[p] = a[q] /\ b[p] = b[q] => p = q
    PROVE  StrictOrder(S, key)
<1>1. \A x, y : Len(<<x, y>>) = 2 /\ <<x, y>>[1] = x /\ <<x, y>>[2] = y
    OBVIOUS
<1>2. \A p \in S : Len(key[p]) = 2 /\ key[p][1] = a[p] /\ key[p][2] = b[p]
    BY <1>1
<1>3. \A i \in 1..2 : i = 1 \/ i = 2
    OBVIOUS
<1>4. Keys(S, key, 2)
    BY <1>2, <1>3 DEF Keys
<1>5. TellsApart(S, key, 2)
  <2>1. 1 \in 1..2 /\ 2 \in 1..2
      OBVIOUS
  <2> QED BY <1>2, <2>1 DEF TellsApart
<1> QED BY <1>4, <1>5, ToldApartInOrder
\* The same for three.
LEMMA TriplesOrder ==
    ASSUME NEW S, NEW key, NEW a, NEW b, NEW c,
           \A p \in S : key[p] = <<a[p], b[p], c[p]>> /\ a[p] \in Int /\ b[p] \in Int /\ c[p] \in Int,
           \A p, q \in S : a[p] = a[q] /\ c[p] = c[q] => p = q
    PROVE  StrictOrder(S, key)
<1>1. \A x, y, z : Len(<<x, y, z>>) = 3 /\ <<x, y, z>>[1] = x /\ <<x, y, z>>[2] = y /\ <<x, y, z>>[3] = z
    OBVIOUS
<1>2. \A p \in S : Len(key[p]) = 3 /\ key[p][1] = a[p] /\ key[p][2] = b[p] /\ key[p][3] = c[p]
    BY <1>1
<1>3. \A i \in 1..3 : i = 1 \/ i = 2 \/ i = 3
    OBVIOUS
<1>4. Keys(S, key, 3)
    BY <1>2, <1>3 DEF Keys
<1>5. TellsApart(S, key, 3)
  <2>1. 1 \in 1..3 /\ 3 \in 1..3
      OBVIOUS
  <2> QED BY <1>2, <2>1 DEF TellsApart
<1> QED BY <1>4, <1>5, ToldApartInOrder
\* And four.
FourNumbers(S, key, a, b, c, d) ==
    \A p \in S : /\ key[p] = <<a[p], b[p], c[p], d[p]>>
                 /\ a[p] \in Int /\ b[p] \in Int /\ c[p] \in Int /\ d[p] \in Int
\* The same for four.
LEMMA QuadruplesOrder ==
    ASSUME NEW S, NEW key, NEW a, NEW b, NEW c, NEW d, FourNumbers(S, key, a, b, c, d),
           \A p, q \in S : d[p] = d[q] => p = q
    PROVE  StrictOrder(S, key)
<1>1. \A x, y, z, w : /\ Len(<<x, y, z, w>>) = 4 /\ <<x, y, z, w>>[1] = x /\ <<x, y, z, w>>[2] = y
                      /\ <<x, y, z, w>>[3] = z /\ <<x, y, z, w>>[4] = w
    OBVIOUS
<1>2. \A p \in S : /\ Len(key[p]) = 4 /\ key[p][1] = a[p] /\ key[p][2] = b[p]
                   /\ key[p][3] = c[p] /\ key[p][4] = d[p]
    BY <1>1 DEF FourNumbers
<1>3. \A i \in 1..4 : i = 1 \/ i = 2 \/ i = 3 \/ i = 4
    OBVIOUS
<1>4. Keys(S, key, 4)
    BY <1>2, <1>3 DEF Keys, FourNumbers
<1>5. TellsApart(S, key, 4)
  <2>1. 4 \in 1..4
      OBVIOUS
  <2> QED BY <1>2, <2>1 DEF TellsApart
<1> QED BY <1>4, <1>5, ToldApartInOrder

\* A catalogue: every product has what it is ordered by.
GoodShelf ==
    /\ DOMAIN shelf = Goods
    /\ \A p \in Goods : /\ {"status", "score", "rank", "born"} \subseteq DOMAIN shelf[p]
                        /\ shelf[p].score \in Int /\ shelf[p].rank \in Int /\ shelf[p].born \in Int

\* The goods and what is on sale of them.
LEMMA GoodsFacts ==
    ASSUME NEW S \in SUBSET Goods
    PROVE  /\ IsFiniteSet(S) /\ \A p \in S : p \in Int /\ p \in Goods
           /\ OnShow(S) \in SUBSET S /\ OnShow(S) \subseteq OnShow(Goods)
<1>1. \A p \in S : p \in Int /\ p \in Goods
    BY StorefrontAssumption
<1>2. IsFiniteSet(S)
    BY StorefrontAssumption, FS_Subset
<1>3. OnShow(S) \in SUBSET S /\ OnShow(S) \subseteq OnShow(Goods)
    BY DEF OnShow
<1> QED BY <1>1, <1>2, <1>3

\* The best rated of some products.
LEMMA TopIsSeq ==
    ASSUME GoodShelf, NEW S \in SUBSET Goods
    PROVE  TopOf(S) \in Seq(S)
<1> DEFINE key == [q \in S |-> TopRated(q)]
           a == [q \in S |-> -shelf[q].score]
           b == [q \in S |-> q]
<1>1. IsFiniteSet(S) /\ \A p \in S : p \in Int /\ shelf[p].score \in Int
    BY GoodsFacts DEF GoodShelf
<1>2. \A p \in S : key[p] = <<a[p], b[p]>> /\ a[p] \in Int /\ b[p] \in Int
    BY <1>1 DEF TopRated
<1>3. \A p, q \in S : a[p] = a[q] /\ b[p] = b[q] => p = q
    OBVIOUS
<1>4. TopOf(S) = InOrder(S, key)
    BY DEF TopOf
<1> HIDE DEF key, a, b
<1>5. StrictOrder(S, key)
    BY <1>2, <1>3, PairsOrder
<1>6. InOrder(S, key) \in Sorted(S, key)
    BY <1>1, <1>5, AnOrderExists
<1> QED BY <1>1, <1>4, <1>6, InOrderFacts

\* What was bought together with a product and is on sale.
LEMMA TogetherIsSeq ==
    ASSUME GoodShelf, NEW p \in Goods, NEW limit \in Nat
    PROVE  Together(p, limit) \in Seq(OnShow(Goods))
<1> DEFINE often == {q \in Goods : PairCount[p][q] >= MinPair}
           key == [q \in often |-> <<-PairCount[p][q], q>>]
           candidates == UpTo(limit * 4, InOrder(often, key))
           shown == OnShow(ToSet(candidates))
           key2 == [q \in shown |-> <<-PairCount[p][q], -shelf[q].score, q>>]
<1>t. Together(p, limit) = UpTo(limit, InOrder(shown, key2))
    BY DEF Together
<1>c. \A q \in Goods : PairCount[p][q] \in Int /\ q \in Int
    BY StorefrontAssumption
<1>1. often \in SUBSET Goods
    OBVIOUS
<1>2. InOrder(often, key) \in Seq(often)
  <2> DEFINE a == [q \in often |-> -PairCount[p][q]]  b == [q \in often |-> q]
  <2>1. \A q \in often : key[q] = <<a[q], b[q]>> /\ a[q] \in Int /\ b[q] \in Int
      BY <1>c
  <2>2. \A q, r \in often : a[q] = a[r] /\ b[q] = b[r] => q = r
      OBVIOUS
  <2>3. IsFiniteSet(often)
      BY <1>1, GoodsFacts
  <2> HIDE DEF often, key, a, b
  <2>4. StrictOrder(often, key)
      BY <2>1, <2>2, PairsOrder
  <2>5. InOrder(often, key) \in Sorted(often, key)
      BY <2>3, <2>4, AnOrderExists
  <2> QED BY <2>3, <2>5, InOrderFacts
<1> HIDE DEF often, key
<1>3. candidates \in Seq(often)
  <2>1. limit * 4 \in Nat
      OBVIOUS
  <2> QED BY <2>1, <1>2, FirstRows
<1> HIDE DEF candidates
<1>4. shown \in SUBSET Goods /\ shown \subseteq OnShow(Goods)
  <2>1. ToSet(candidates) \in SUBSET Goods
    <3>1. \A i \in DOMAIN candidates : candidates[i] \in often
        BY <1>3, ElementOfSeq, LenProperties
    <3> QED BY <3>1, <1>1 DEF ToSet
  <2> QED BY <2>1, GoodsFacts
<1>s. \A q \in shown : shelf[q].score \in Int /\ q \in Goods
    BY <1>4 DEF GoodShelf
<1>5. InOrder(shown, key2) \in Seq(shown)
  <2> DEFINE a == [q \in shown |-> -PairCount[p][q]]  b == [q \in shown |-> -shelf[q].score]
             c == [q \in shown |-> q]
  <2> HIDE DEF shown
  <2>1. \A q \in shown : /\ key2[q] = <<a[q], b[q], c[q]>>
                         /\ a[q] \in Int /\ b[q] \in Int /\ c[q] \in Int
      BY <1>c, <1>s
  <2>2. \A q, r \in shown : a[q] = a[r] /\ c[q] = c[r] => q = r
      OBVIOUS
  <2>3. IsFiniteSet(shown)
      BY <1>4, GoodsFacts
  <2> HIDE DEF key2, a, b, c
  <2>4. StrictOrder(shown, key2)
      BY <2>1, <2>2, TriplesOrder
  <2>5. InOrder(shown, key2) \in Sorted(shown, key2)
      BY <2>3, <2>4, AnOrderExists
  <2> QED BY <2>3, <2>5, InOrderFacts
<1> HIDE DEF shown, key2
<1>6. InOrder(shown, key2) \in Seq(OnShow(Goods))
    BY <1>4, <1>5, SeqMonotonic
<1> QED BY <1>t, <1>6, FirstRows

\* What the rules name.
LEMMA ComplementsIsSeq ==
    ASSUME GoodShelf, NEW p \in Goods, NEW limit \in Nat
    PROVE  Complements(p, limit) \in Seq(OnShow(Goods))
<1> DEFINE Named(r) == ToSet(UpTo(2, TopOf(OnShow(Rules[r] \ {p}))))
           named == {w \in (DOMAIN Rules) \X Goods : w[2] \in Named(w[1])}
           key == [w \in named |-> <<w[1], -shelf[w[2]].score, w[2]>>]
           rows == InOrder(named, key)
           g == [n \in 1..Cardinality(named) |-> rows[n][2]]
<1>g. Complements(p, limit) = UpTo(limit * 3, g)
    BY DEF Complements
<1>1. ASSUME NEW r \in DOMAIN Rules PROVE Named(r) \subseteq OnShow(Goods)
  <2> DEFINE S == OnShow(Rules[r] \ {p})
  <2>1. Rules[r] \ {p} \in SUBSET Goods
      BY StorefrontAssumption, ElementOfSeq, LenProperties
  <2>2. S \in SUBSET Goods /\ S \subseteq OnShow(Goods)
      BY <2>1, GoodsFacts
  <2> HIDE DEF S
  <2>3. UpTo(2, TopOf(S)) \in Seq(S)
      BY <2>2, TopIsSeq, FirstRows
  <2>4. \A i \in DOMAIN UpTo(2, TopOf(S)) : UpTo(2, TopOf(S))[i] \in S
      BY <2>3, ElementOfSeq, LenProperties
  <2>5. ToSet(UpTo(2, TopOf(S))) \subseteq S
      BY <2>4 DEF ToSet
  <2> QED BY <2>2, <2>5 DEF S
<1>2. DOMAIN Rules = 1..Len(Rules) /\ Len(Rules) \in Nat
    BY StorefrontAssumption, LenProperties
<1> HIDE DEF Named
<1>3. IsFiniteSet(named)
  <2>1. IsFiniteSet((DOMAIN Rules) \X Goods)
    <3>1. IsFiniteSet(DOMAIN Rules) /\ IsFiniteSet(Goods)
        BY <1>2, FS_Interval, StorefrontAssumption
    <3> QED BY <3>1, FS_Product
  <2>2. named \in SUBSET ((DOMAIN Rules) \X Goods)
      OBVIOUS
  <2> HIDE DEF named
  <2> QED BY <2>1, <2>2, FS_Subset
<1>4. \A w \in named : /\ w[1] \in Int /\ w[2] \in Int /\ w[2] \in OnShow(Goods) /\ w = <<w[1], w[2]>>
                       /\ shelf[w[2]].score \in Int
    BY <1>1, <1>2, StorefrontAssumption DEF GoodShelf
<1> HIDE DEF named
<1>5. rows \in Sorted(named, key)
  <2> DEFINE a == [w \in named |-> w[1]]  b == [w \in named |-> -shelf[w[2]].score]
             c == [w \in named |-> w[2]]
  <2>1. \A w \in named : /\ key[w] = <<a[w], b[w], c[w]>>
                         /\ a[w] \in Int /\ b[w] \in Int /\ c[w] \in Int
      BY <1>4
  <2>2. \A w, v \in named : a[w] = a[v] /\ c[w] = c[v] => w = v
      BY <1>4
  <2> HIDE DEF key, a, b, c
  <2>3. StrictOrder(named, key)
      BY <2>1, <2>2, TriplesOrder
  <2> QED BY <1>3, <2>3, AnOrderExists
<1> HIDE DEF rows, key
<1>6. Cardinality(named) \in Nat /\ rows \in [1..Cardinality(named) -> named]
    BY <1>3, <1>5, InOrderFacts
<1>7. g \in [1..Cardinality(named) -> OnShow(Goods)]
    BY <1>4, <1>6
<1>8. g \in Seq(OnShow(Goods))
  <2> HIDE DEF g
  <2> QED BY <1>6, <1>7
<1> HIDE DEF g
<1>9. limit * 3 \in Nat
    OBVIOUS
<1> QED BY <1>g, <1>8, <1>9, FirstRows

\* What stands in the same aisle.
LEMMA SameCategoryIsSeq ==
    ASSUME GoodShelf, NEW p \in Goods, NEW limit \in Nat
    PROVE  SameCategory(p, limit) \in Seq(OnShow(Goods))
<1> DEFINE S == OnShow({q \in Goods \ {p} : shelf[q].aisle = shelf[p].aisle})
<1>1. S \in SUBSET Goods /\ S \subseteq OnShow(Goods)
    BY GoodsFacts
<1>2. SameCategory(p, limit) = UpTo(limit * 3, TopOf(S))
    BY DEF SameCategory
<1> HIDE DEF S
<1>3. TopOf(S) \in Seq(OnShow(Goods))
    BY <1>1, TopIsSeq, SeqMonotonic
<1>4. limit * 3 \in Nat
    OBVIOUS
<1> QED BY <1>2, <1>3, <1>4, FirstRows

\* Related products are on sale, different, and others than the product.
LEMMA RelatedIsListing ==
    ASSUME GoodShelf, NEW p \in Goods, NEW limit \in Nat, NEW fail \in BOOLEAN
    PROVE  Listing(Related(p, limit, fail), OnShow(Goods) \ {p}) /\ Len(Related(p, limit, fail)) <= limit
<1> DEFINE S == OnShow(Goods) \ {p}
           one == Fresh(Together(p, limit), {p}, limit)
           left == limit - Len(one)
           two == IF fail \/ left = 0 THEN << >>
                  ELSE Fresh(Complements(p, left), {p} \union ToSet(one), left)
           rest == left - Len(two)
           three == IF rest = 0 THEN << >>
                    ELSE Fresh(SameCategory(p, rest), {p} \union ToSet(one \o two), rest)
<1>r. Related(p, limit, fail) = one \o two \o three
    BY DEF Related
<1>e. Listing(<< >>, S) /\ Len(<< >>) = 0 /\ ToSet(<< >>) = {}
    BY DEF Listing, IsInjective, ToSet
<1> DEFINE From(s, seen) == Listing(s, S) /\ \A x \in ToSet(s) : x \notin seen
<1>f. ASSUME NEW s, NEW seen, Listing(s, OnShow(Goods) \ ({p} \union seen))
      PROVE  From(s, seen)
  <2>1. s \in Seq(OnShow(Goods) \ ({p} \union seen)) /\ IsInjective(s)
      BY <1>f DEF Listing
  <2>2. s \in Seq(S)
    <3>1. OnShow(Goods) \ ({p} \union seen) \subseteq S
        OBVIOUS
    <3> QED BY <2>1, <3>1, SeqMonotonic
  <2>3. \A i \in DOMAIN s : s[i] \in OnShow(Goods) \ ({p} \union seen)
      BY <2>1, ElementOfSeq, LenProperties
  <2> QED BY <2>1, <2>2, <2>3 DEF Listing, ToSet
<1>1. Listing(one, S) /\ Len(one) <= limit /\ Len(one) \in Nat
  <2>1. Together(p, limit) \in Seq(OnShow(Goods))
      BY TogetherIsSeq
  <2>2. Listing(one, S) /\ Len(one) <= limit
      BY <2>1, FreshIsListing
  <2> QED BY <2>2, LenProperties DEF Listing
<1> HIDE DEF one
<1>2. left \in Nat
    BY <1>1
<1> HIDE DEF left
<1>3. From(two, ToSet(one)) /\ Len(two) <= left /\ Len(two) \in Nat
  <2>1. CASE fail \/ left = 0
      BY <2>1, <1>e, <1>2
  <2>2. CASE ~(fail \/ left = 0)
    <3>1. two = Fresh(Complements(p, left), {p} \union ToSet(one), left)
        BY <2>2
    <3>2. Complements(p, left) \in Seq(OnShow(Goods))
        BY <1>2, ComplementsIsSeq
    <3>3. /\ Listing(two, OnShow(Goods) \ ({p} \union ToSet(one)))
          /\ Len(two) <= left
      <4> DEFINE rows == Complements(p, left)  seen == {p} \union ToSet(one)
      <4>1. rows \in Seq(OnShow(Goods)) /\ two = Fresh(rows, seen, left)
          BY <3>1, <3>2
      <4> HIDE DEF rows, two
      <4>2. Listing(two, OnShow(Goods) \ seen) /\ Len(two) <= left
          BY <4>1, <1>2, FreshIsListing
      <4> QED BY <4>2
    <3>4. Len(two) \in Nat
        BY <3>3, LenProperties DEF Listing
    <3> HIDE DEF two, From
    <3> QED BY <3>3, <3>4, <1>f
  <2> QED BY <2>1, <2>2
<1> HIDE DEF two
<1>4. rest \in Nat
    BY <1>2, <1>3
<1> HIDE DEF rest
<1>5. From(three, ToSet(one \o two)) /\ Len(three) <= rest /\ Len(three) \in Nat
  <2>1. CASE rest = 0
      BY <2>1, <1>e, <1>4
  <2>2. CASE rest # 0
    <3>1. three = Fresh(SameCategory(p, rest), {p} \union ToSet(one \o two), rest)
        BY <2>2
    <3>2. SameCategory(p, rest) \in Seq(OnShow(Goods))
        BY <1>4, SameCategoryIsSeq
    <3>3. /\ Listing(three, OnShow(Goods) \ ({p} \union ToSet(one \o two)))
          /\ Len(three) <= rest
        BY <3>1, <3>2, <1>4, FreshIsListing
    <3>4. Len(three) \in Nat
        BY <3>3, LenProperties DEF Listing
    <3> HIDE DEF three, From
    <3> QED BY <3>3, <3>4, <1>f
  <2> QED BY <2>1, <2>2
<1> HIDE DEF three
<1>6. Listing(one \o two, S) /\ Len(one \o two) = Len(one) + Len(two)
  <2>1. Listing(two, S) /\ \A x \in ToSet(one) : x \notin ToSet(two)
      BY <1>3
  <2> HIDE DEF S
  <2> QED BY <1>1, <2>1, ListingsJoin
<1>7. Listing(one \o two \o three, S) /\ Len(one \o two \o three) = Len(one \o two) + Len(three)
  <2>1. Listing(three, S) /\ \A x \in ToSet(one \o two) : x \notin ToSet(three)
      BY <1>5
  <2> HIDE DEF S
  <2> QED BY <1>6, <2>1, ListingsJoin
<1>8. Len(one \o two \o three) <= limit
  <2>1. left = limit - Len(one) /\ rest = left - Len(two)
      BY DEF left, rest
  <2> QED BY <2>1, <1>1, <1>2, <1>3, <1>4, <1>5, <1>6, <1>7
<1> QED BY <1>r, <1>7, <1>8

\* What a listing finds is finite.
LEMMA HitsAreGoods ==
    ASSUME NEW a, NEW fuzzy
    PROVE  /\ PageHits(a, fuzzy) \in SUBSET Goods /\ IsFiniteSet(PageHits(a, fuzzy))
           /\ Cardinality(PageHits(a, fuzzy)) \in Nat
<1>1. PageHits(a, fuzzy) \in SUBSET Goods
    BY DEF PageHits
<1> QED BY <1>1, GoodsFacts, FS_CardinalityType

\* The rows of a listing, what they are ordered by, and all of them in order.
RowKeys(a, fuzzy) == [p \in PageHits(a, fuzzy) |-> SortKey(a, fuzzy, p)]
AllRows(a, fuzzy) == InOrder(PageHits(a, fuzzy), RowKeys(a, fuzzy))

\* The orders that end in the id are total.
LEMMA TotalOrderTells ==
    ASSUME GoodShelf, NEW a, NEW fuzzy, TotalOrder(a)
    PROVE  StrictOrder(PageHits(a, fuzzy), RowKeys(a, fuzzy))
<1> DEFINE S == PageHits(a, fuzzy)  key == RowKeys(a, fuzzy)
<1>1. \A p \in S : /\ p \in Int /\ shelf[p].score \in Int /\ shelf[p].rank \in Int
                   /\ shelf[p].born \in Int /\ key[p] = SortKey(a, fuzzy, p)
  <2>1. \A p \in S : p \in Goods /\ p \in Int /\ key[p] = SortKey(a, fuzzy, p)
    <3>1. \A p \in S : p \in Goods /\ p \in Int
        BY HitsAreGoods, GoodsFacts
    <3>2. \A p \in S : key[p] = SortKey(a, fuzzy, p)
        BY DEF RowKeys
    <3> QED BY <3>1, <3>2
  <2> HIDE DEF S, key
  <2> QED BY <2>1 DEF GoodShelf
<1> HIDE DEF S, key
<1>2. CASE a.sort = "top_rated"
  <2> DEFINE k1 == [p \in S |-> -shelf[p].score]  k2 == [p \in S |-> p]
  <2>1. \A p \in S : key[p] = <<k1[p], k2[p]>> /\ k1[p] \in Int /\ k2[p] \in Int
      BY <1>1, <1>2 DEF SortKey, TopRated
  <2>2. \A p, q \in S : k1[p] = k1[q] /\ k2[p] = k2[q] => p = q
      OBVIOUS
  <2> HIDE DEF k1, k2
  <2>3. StrictOrder(S, key)
      BY <2>1, <2>2, PairsOrder
  <2> QED BY <2>3 DEF S, key
<1>3. CASE a.sort = "relevance" /\ a.term
  <2> DEFINE code(p) == IF ~fuzzy /\ {"sku", "barcode"} \intersect shelf[p].hits # {} THEN 0 ELSE 1
             k1 == [p \in S |-> code(p)]  k2 == [p \in S |-> -shelf[p].rank]
             k3 == [p \in S |-> -shelf[p].born]  k4 == [p \in S |-> p]
  <2>1. \A p \in S : SortKey(a, fuzzy, p) = <<code(p), -shelf[p].rank, -shelf[p].born, p>>
      BY <1>3 DEF SortKey, Relevance
  <2>2. \A p \in S : code(p) \in Int
      OBVIOUS
  <2> HIDE DEF code
  <2>3. \A p \in S : /\ key[p] = <<k1[p], k2[p], k3[p], k4[p]>>
                     /\ k1[p] \in Int /\ k2[p] \in Int /\ k3[p] \in Int /\ k4[p] \in Int
      BY <1>1, <2>1, <2>2
  <2>f. FourNumbers(S, key, k1, k2, k3, k4)
      BY <2>3 DEF FourNumbers
  <2>4. \A p, q \in S : k4[p] = k4[q] => p = q
      OBVIOUS
  <2> HIDE DEF k1, k2, k3, k4
  <2>5. StrictOrder(S, key)
      BY <2>f, <2>4, QuadruplesOrder
  <2> QED BY <2>5 DEF S, key
<1> QED BY <1>2, <1>3 DEF TotalOrder

\* Whatever order the database picks, it is the one.
LEMMA RowsAreTheSame ==
    ASSUME GoodShelf, NEW a, NEW fuzzy, TotalOrder(a)
    PROVE  /\ AllRows(a, fuzzy) \in Seq(Goods) /\ IsInjective(AllRows(a, fuzzy))
           /\ Len(AllRows(a, fuzzy)) = Cardinality(PageHits(a, fuzzy))
           /\ ToSet(AllRows(a, fuzzy)) = PageHits(a, fuzzy)
           /\ \A s \in Sorted(PageHits(a, fuzzy), RowKeys(a, fuzzy)) : s = AllRows(a, fuzzy)
<1> DEFINE S == PageHits(a, fuzzy)  key == RowKeys(a, fuzzy)  t == InOrder(S, key)
<1>1. S \in SUBSET Goods /\ IsFiniteSet(S) /\ StrictOrder(S, key)
    BY HitsAreGoods, TotalOrderTells
<1>t. AllRows(a, fuzzy) = t
    BY DEF AllRows
<1>g. AllRows(a, fuzzy) = t /\ S = PageHits(a, fuzzy) /\ key = RowKeys(a, fuzzy)
    BY <1>t
<1> HIDE DEF S, key
<1>2. t \in Sorted(S, key)
    BY <1>1, AnOrderExists
<1> HIDE DEF t
<1>3. /\ Cardinality(S) \in Nat /\ t \in [1..Cardinality(S) -> S]
      /\ t \in Seq(S) /\ Len(t) = Cardinality(S) /\ IsInjective(t)
      /\ \A p \in S : \E i \in 1..Cardinality(S) : t[i] = p
    BY <1>1, <1>2, InOrderFacts
<1>4. \A s \in Sorted(S, key) : s = t
    BY <1>1, <1>2, OnlyOneOrder
<1>5. t \in Seq(Goods)
    BY <1>1, <1>3, SeqMonotonic
<1>6. ToSet(t) = S
    BY <1>3 DEF ToSet
<1> QED BY <1>3, <1>4, <1>5, <1>6, <1>g

\* A page after the ones before it.
LEMMA PageJoins ==
    ASSUME NEW S, NEW w \in Seq(S), NEW off \in Nat, off <= Len(w), NEW size \in Nat
    PROVE  SubSeq(w, 1, off) \o Window(w, size, off)
               = SubSeq(w, 1, IF Len(w) < off + size THEN Len(w) ELSE off + size)
<1> DEFINE m == IF Len(w) < off + size THEN Len(w) ELSE off + size
<1>1. Len(w) \in Nat
    BY LenProperties
<1>2. /\ 1 \in 1..(Len(w) + 1) /\ off \in (1 - 1)..Len(w) /\ m \in off..Len(w)
    BY <1>1
<1>3. Window(w, size, off) = SubSeq(w, off + 1, m)
    BY DEF Window
<1> HIDE DEF m
<1>4. SubSeq(w, 1, off) \o SubSeq(w, off + 1, m) = SubSeq(w, 1, m)
    BY <1>2, ConcatAdjacentSubSeq
<1> QED BY <1>3, <1>4 DEF m

\* A page has rows of the listing only.
LEMMA PageIsSeq ==
    ASSUME NEW S, NEW w \in Seq(S), NEW off \in Nat, NEW size \in Nat
    PROVE  Window(w, size, off) \in Seq(S)
<1> DEFINE m == IF Len(w) < off + size THEN Len(w) ELSE off + size
<1>1. Len(w) \in Nat
    BY LenProperties
<1>2. off + 1 \in Int /\ m \in Int /\ m <= Len(w)
    BY <1>1
<1>3. Window(w, size, off) = SubSeq(w, off + 1, m)
    BY DEF Window
<1> HIDE DEF m
<1>4. \A i \in (off + 1)..m : w[i] \in S
  <2> TAKE i \in (off + 1)..m
  <2>1. i \in 1..Len(w)
      BY <1>1, <1>2
  <2> QED BY <2>1, ElementOfSeq
<1> QED BY <1>2, <1>3, <1>4, SubSeqProperties

\* Where pages begin and end.
LEMMA PageBounds ==
    ASSUME NEW nth \in Nat \ {0}, NEW size \in Nat
    PROVE  /\ (nth - 1) * size \in Nat /\ (nth - 1) * size + size = nth * size
           /\ (nth + 1) - 1 = nth /\ nth + 1 \in Nat \ {0} /\ nth * size \in Nat
<1>1. (nth - 1) * size + size = nth * size
    OBVIOUS
<1>2. nth - 1 \in Nat /\ nth \in Nat
    OBVIOUS
<1>3. \A x \in Nat : x * size \in Nat
    OBVIOUS
<1> QED BY <1>1, <1>2, <1>3

\* Who reads a listing, and who reads the page of a product.
ListAsks == {a \in ShopAsks : a.op = "list"}
ProductAsks == {a \in ShopAsks : a.op = "product"}
Listers == [step : {"count", "fuzzy", "page", "read"}, ask : ListAsks, quiet : BOOLEAN,
            fuzzy : BOOLEAN, total : Nat, page : Nat \ {0}, seen : Seq(Goods)]
Onlookers == [step : {"read"}, ask : ProductAsks, quiet : BOOLEAN, fuzzy : BOOLEAN, total : Nat,
              found : BOOLEAN, seen : Seq(Goods)]
\* A search shows what resembles its term if nothing matches it and something does.
Resembling(a) == a.term /\ PageHits(a, FALSE) = {} /\ PageHits(a, TRUE) # {}
Whole(a) == AllRows(a, Resembling(a))
Offset(a) == (visitor.page - 1) * PerPage(a)
\* How far a reader of a listing is: at the beginning of a page the pages before it were read.
Counted(a) == visitor.fuzzy = Resembling(a) /\ visitor.total = Cardinality(PageHits(a, Resembling(a)))
PagesOf(a) ==
    /\ visitor.step = "fuzzy" => a.term /\ PageHits(a, FALSE) = {}
    /\ visitor.step \in {"page", "read"} => Counted(a)
    /\ TotalOrder(a) /\ visitor.step # "read" =>
           Offset(a) <= Len(Whole(a)) /\ visitor.seen = SubSeq(Whole(a), 1, Offset(a))
    /\ TotalOrder(a) /\ visitor.step = "read" => visitor.seen = Whole(a)
RelatedOf(a) == Listing(visitor.seen, OnShow(Goods) \ {a.product}) /\ Len(visitor.seen) <= a.limit
ShopInv ==
    /\ GoodShelf
    /\ visitor = NoVisitor \/ visitor \in Listers \/ visitor \in Onlookers
    /\ visitor \in Listers /\ visitor.quiet => \A a \in ListAsks : visitor.ask = a => PagesOf(a)
    /\ visitor \in Onlookers /\ visitor.quiet => \A a \in ProductAsks : visitor.ask = a => RelatedOf(a)

\* A reader is one or the other.
LEMMA OneOrTheOther ==
    /\ \A r \in Listers : r \notin Onlookers /\ r.step # "away"
    /\ \A r \in Onlookers : r \notin Listers /\ r.step # "away"
    /\ NoVisitor \notin Listers /\ NoVisitor \notin Onlookers /\ NoVisitor.step = "away"
<1>1. \A r \in Listers : r.ask \in ListAsks /\ r.step # "away"
    BY DEF Listers
<1>2. \A r \in Onlookers : r.ask \in ProductAsks /\ r.step # "away"
    BY DEF Onlookers
<1>3. \A a \in ListAsks : a \notin ProductAsks
    BY DEF ListAsks, ProductAsks
<1>4. NoVisitor.step = "away"
    BY DEF NoVisitor
<1> QED BY <1>1, <1>2, <1>3, <1>4

\* What the invariant says of who has read to the end.
LEMMA ShopInvSays == ShopInv => NothingIsShownTwice
<1> SUFFICES ASSUME ShopInv, visitor.step = "read", visitor.quiet PROVE NothingIsShownTwice
    BY DEF NothingIsShownTwice
<1>0. GoodShelf
    BY DEF ShopInv
<1>1. visitor \in Listers \/ visitor \in Onlookers
    BY OneOrTheOther DEF ShopInv
<1>2. CASE visitor \in Listers
  <2>1. PICK a \in ListAsks : visitor.ask = a
      BY <1>2 DEF Listers
  <2>2. PagesOf(a)
      BY <1>2, <2>1 DEF ShopInv
  <2>3. a.op = "list"
      BY DEF ListAsks
  <2>4. ASSUME TotalOrder(a)
        PROVE  /\ ShownOnce(visitor.seen, PageHits(a, visitor.fuzzy))
               /\ Len(visitor.seen) = visitor.total
               /\ visitor.fuzzy => PageHits(a, FALSE) = {}
    <3> DEFINE f == Resembling(a)
    <3>1. Counted(a) /\ visitor.seen = AllRows(a, f)
        BY <2>2, <2>4 DEF PagesOf, Whole
    <3>2. visitor.fuzzy = f /\ visitor.total = Cardinality(PageHits(a, f))
        BY <3>1 DEF Counted
    <3>3. f => PageHits(a, FALSE) = {}
        BY DEF Resembling
    <3> HIDE DEF f
    <3>4. /\ IsInjective(AllRows(a, f)) /\ ToSet(AllRows(a, f)) = PageHits(a, f)
          /\ Len(AllRows(a, f)) = Cardinality(PageHits(a, f))
        BY <1>0, <2>4, RowsAreTheSame
    <3> QED BY <3>1, <3>2, <3>3, <3>4 DEF ShownOnce
  <2> QED BY <2>1, <2>3, <2>4 DEF NothingIsShownTwice
<1>3. CASE visitor \in Onlookers
  <2>1. PICK a \in ProductAsks : visitor.ask = a
      BY <1>3 DEF Onlookers
  <2>2. RelatedOf(a)
      BY <1>3, <2>1 DEF ShopInv
  <2>3. a.op # "list"
      BY DEF ProductAsks
  <2>4. /\ visitor.seen \in Seq(OnShow(Goods) \ {a.product}) /\ IsInjective(visitor.seen)
        /\ Len(visitor.seen) <= a.limit
      BY <2>2 DEF RelatedOf, Listing
  <2>5. \A p \in ToSet(visitor.seen) : p # a.product /\ shelf[p].status = "published"
    <3>1. \A i \in DOMAIN visitor.seen : visitor.seen[i] \in OnShow(Goods) \ {a.product}
        BY <2>4, ElementOfSeq, LenProperties
    <3> QED BY <3>1 DEF ToSet, OnShow
  <2> QED BY <2>1, <2>3, <2>4, <2>5 DEF NothingIsShownTwice
<1> QED BY <1>1, <1>2, <1>3

\* Reading leaves the catalogue and what is found in it.
LEMMA SameShelfSameRows ==
    ASSUME UNCHANGED shelf
    PROVE  /\ GoodShelf => GoodShelf'
           /\ \A a, f : PageHits(a, f)' = PageHits(a, f)
           /\ \A a : Resembling(a)' = Resembling(a) /\ Whole(a)' = Whole(a)
<1>1. GoodShelf => GoodShelf'
    BY DEF GoodShelf
<1>2. ASSUME NEW a, NEW f PROVE PageHits(a, f)' = PageHits(a, f)
    BY DEF PageHits, PassesFilters, Finds
<1>3. ASSUME NEW a PROVE Resembling(a)' = Resembling(a)
    BY <1>2 DEF Resembling
<1>4. ASSUME NEW a, NEW f PROVE AllRows(a, f)' = AllRows(a, f)
  <2>1. RowKeys(a, f)' = RowKeys(a, f)
      BY <1>2 DEF RowKeys, SortKey, TopRated, Relevance
  <2> QED BY <2>1, <1>2 DEF AllRows
<1>5. ASSUME NEW a PROVE Whole(a)' = Whole(a)
    BY <1>3, <1>4 DEF Whole
<1> QED BY <1>1, <1>2, <1>3, <1>5

\* What is to show of a step of a reader.
LEMMA ListerKeeps ==
    ASSUME GoodShelf', visitor' \in Listers, NEW a \in ListAsks, (visitor.ask)' = a,
           visitor'.quiet => PagesOf(a)'
    PROVE  ShopInv'
<1>1. visitor' \notin Onlookers
    BY OneOrTheOther
<1> QED BY <1>1 DEF ShopInv, Listers, Onlookers, ListAsks, ProductAsks
\* The same of who reads a product's page.
LEMMA OnlookerKeeps ==
    ASSUME GoodShelf', visitor' \in Onlookers, NEW a \in ProductAsks, (visitor.ask)' = a,
           visitor'.quiet => RelatedOf(a)'
    PROVE  ShopInv'
<1>1. visitor' \notin Listers
    BY OneOrTheOther
<1> QED BY <1>1 DEF ShopInv, Listers, Onlookers, ListAsks, ProductAsks

\* The catalogue starts as one of Shelves.
LEMMA ShopInvInit == ShopInit => ShopInv
<1> SUFFICES ASSUME ShopInit PROVE ShopInv
    OBVIOUS
<1>1. GoodShelf
    BY StorefrontAssumption DEF ShopInit, GoodShelf
<1>2. visitor = NoVisitor
    BY DEF ShopInit
<1> QED BY <1>1, <1>2, OneOrTheOther DEF ShopInv

\* A product's page: the related products are a listing of what is on sale.
LEMMA OpenProductKeeps ==
    ASSUME ShopInv, NEW a \in ShopAsks, OpenProduct(a)
    PROVE  ShopInv'
<1>1. GoodShelf /\ GoodShelf'
    BY SameShelfSameRows DEF ShopInv, OpenProduct
<1>2. a \in ProductAsks /\ a.product \in Goods /\ a.limit \in Nat
    BY StorefrontAssumption DEF OpenProduct, ProductAsks
<1> DEFINE there == shelf[a.product].status = "published"  yes == TRUE  no == FALSE
<1>3. PICK fail \in BOOLEAN :
         visitor' = [step |-> "read", ask |-> a, quiet |-> yes, fuzzy |-> no, total |-> 0, found |-> there,
                     seen |-> IF there THEN Related(a.product, a.limit, fail) ELSE << >>]
    BY DEF OpenProduct
<1> DEFINE S == OnShow(Goods) \ {a.product}
           list == IF there THEN Related(a.product, a.limit, fail) ELSE << >>
<1>4. Listing(list, S) /\ Len(list) <= a.limit
  <2>1. CASE there
      BY <2>1, <1>1, <1>2, RelatedIsListing
  <2>2. CASE ~there
    <3>1. Listing(<< >>, S) /\ Len(<< >>) = 0
        BY DEF Listing, IsInjective
    <3> QED BY <2>2, <3>1, <1>2
  <2> QED BY <2>1, <2>2
<1>5. yes \in BOOLEAN /\ no \in BOOLEAN /\ there \in BOOLEAN
    OBVIOUS
<1>6. list \in Seq(Goods)
  <2>1. S \subseteq Goods
      BY DEF OnShow
  <2> QED BY <2>1, <1>4, SeqMonotonic DEF Listing
<1>7. S' = S
    BY DEF OpenProduct, OnShow
<1>8. visitor' = [step |-> "read", ask |-> a, quiet |-> yes, fuzzy |-> no, total |-> 0, found |-> there,
                  seen |-> list]
    BY <1>3
<1> HIDE DEF there, yes, no, list, S
<1>9. visitor' \in Onlookers /\ (visitor.ask)' = a /\ (visitor.seen)' = list
    BY <1>2, <1>5, <1>6, <1>8 DEF Onlookers
<1>10. RelatedOf(a)'
    BY <1>4, <1>7, <1>9 DEF RelatedOf, S
<1> QED BY <1>1, <1>2, <1>9, <1>10, OnlookerKeeps

\* A listing is opened at its first page.
LEMMA OpenListingKeeps ==
    ASSUME ShopInv, NEW a \in ShopAsks, OpenListing(a)
    PROVE  ShopInv'
<1>1. UNCHANGED shelf /\ GoodShelf'
    BY SameShelfSameRows DEF ShopInv, OpenListing
<1>2. a \in ListAsks
    BY DEF OpenListing, ListAsks
<1> DEFINE yes == TRUE  no == FALSE
<1>3. visitor' = [step |-> "count", ask |-> a, quiet |-> yes, fuzzy |-> no, total |-> 0,
                  page |-> 1, seen |-> << >>]
    BY DEF OpenListing
<1>4. yes \in BOOLEAN /\ no \in BOOLEAN /\ << >> \in Seq(Goods)
    OBVIOUS
<1> HIDE DEF yes, no
<1>5. visitor' \in Listers /\ (visitor.ask)' = a /\ (visitor.seen)' = << >> /\ (visitor.page)' = 1
      /\ (visitor.step)' = "count"
    BY <1>2, <1>3, <1>4 DEF Listers
<1>6. PagesOf(a)'
  <2>1. Offset(a)' = 0
    <3>1. PerPage(a) \in Int
        BY DEF PerPage
    <3>2. Offset(a)' = (1 - 1) * PerPage(a)
        BY <1>5 DEF Offset
    <3> QED BY <3>1, <3>2
  <2>2. TotalOrder(a) => Whole(a)' \in Seq(Goods)
    <3>1. TotalOrder(a) => Whole(a) \in Seq(Goods)
        BY RowsAreTheSame DEF ShopInv, Whole
    <3> QED BY <3>1, <1>1, SameShelfSameRows
  <2>3. TotalOrder(a) => 0 <= Len(Whole(a)') /\ SubSeq(Whole(a)', 1, 0) = << >>
    <3>1. \A w \in Seq(Goods) : 0 <= Len(w) /\ SubSeq(w, 1, 0) = << >>
        BY SubSeqEmpty, LenProperties
    <3> QED BY <2>2, <3>1
  <2> QED BY <1>5, <2>1, <2>3 DEF PagesOf
<1> QED BY <1>1, <1>2, <1>5, <1>6, ListerKeeps

\* A reader after a count and after a page.
CountedBy(r, n, b, s) == [r EXCEPT !.total = n, !.fuzzy = b, !.step = s]
Turned(r, rows, s, k) == [r EXCEPT !.seen = @ \o rows, !.step = s, !.page = k]
\* A count changes what it names.
LEMMA ACount ==
    ASSUME NEW r \in Listers, NEW s \in {"count", "fuzzy", "page", "read"},
           NEW n \in Nat, NEW b \in BOOLEAN
    PROVE  /\ CountedBy(r, n, b, s) \in Listers /\ CountedBy(r, n, b, s).ask = r.ask
           /\ CountedBy(r, n, b, s).quiet = r.quiet
           /\ CountedBy(r, n, b, s).page = r.page
           /\ CountedBy(r, n, b, s).seen = r.seen
           /\ CountedBy(r, n, b, s).total = n
           /\ CountedBy(r, n, b, s).fuzzy = b
           /\ CountedBy(r, n, b, s).step = s
<1> DEFINE v == CountedBy(r, n, b, s)
<1>1. v = [step |-> s, ask |-> r.ask, quiet |-> r.quiet, fuzzy |-> b, total |-> n,
           page |-> r.page, seen |-> r.seen]
  <2> DEFINE r1 == [r EXCEPT !.total = n]  r2 == [r1 EXCEPT !.fuzzy = b]
  <2>1. v = [r2 EXCEPT !.step = s]
      BY DEF CountedBy
  <2>2. r1 = [step |-> r.step, ask |-> r.ask, quiet |-> r.quiet, fuzzy |-> r.fuzzy, total |-> n,
              page |-> r.page, seen |-> r.seen]
      BY DEF Listers
  <2> HIDE DEF r1
  <2>3. r2 = [step |-> r.step, ask |-> r.ask, quiet |-> r.quiet, fuzzy |-> b, total |-> n,
              page |-> r.page, seen |-> r.seen]
      BY <2>2
  <2> HIDE DEF r2, v
  <2> QED BY <2>1, <2>3
<1>2. /\ r.ask \in ListAsks /\ r.quiet \in BOOLEAN /\ r.page \in Nat \ {0} /\ r.seen \in Seq(Goods)
    BY DEF Listers
<1> HIDE DEF v
<1>3. v \in Listers
    BY <1>1, <1>2 DEF Listers
<1>4. /\ v.ask = r.ask /\ v.quiet = r.quiet /\ v.page = r.page
      /\ v.seen = r.seen /\ v.total = n /\ v.fuzzy = b /\ v.step = s
    BY <1>1
<1> QED BY <1>3, <1>4 DEF v

\* What a reader has after a page.
AfterPage(v, r, rows, s, k) ==
    /\ v \in Listers /\ v.ask = r.ask /\ v.quiet = r.quiet /\ v.page = k
    /\ v.seen = r.seen \o rows /\ v.total = r.total /\ v.fuzzy = r.fuzzy /\ v.step = s
\* A page too changes what it names.
LEMMA ATurn ==
    ASSUME NEW r \in Listers, NEW s \in {"count", "fuzzy", "page", "read"},
           NEW rows \in Seq(Goods), NEW k \in Nat \ {0}
    PROVE  AfterPage(Turned(r, rows, s, k), r, rows, s, k)
<1> DEFINE v == Turned(r, rows, s, k)  more == r.seen \o rows
<1>0. more \in Seq(Goods)
    BY ConcatProperties DEF Listers
<1>1. v = [step |-> s, ask |-> r.ask, quiet |-> r.quiet, fuzzy |-> r.fuzzy, total |-> r.total,
           page |-> k, seen |-> more]
  <2> DEFINE r1 == [r EXCEPT !.seen = more]  r2 == [r1 EXCEPT !.step = s]
  <2>1. v = [r2 EXCEPT !.page = k]
      BY DEF Turned
  <2> HIDE DEF more
  <2>2. r1 = [step |-> r.step, ask |-> r.ask, quiet |-> r.quiet, fuzzy |-> r.fuzzy, total |-> r.total,
              page |-> r.page, seen |-> more]
      BY DEF Listers
  <2> HIDE DEF r1
  <2>3. r2 = [step |-> s, ask |-> r.ask, quiet |-> r.quiet, fuzzy |-> r.fuzzy, total |-> r.total,
              page |-> r.page, seen |-> more]
      BY <2>2
  <2> HIDE DEF r2, v
  <2> QED BY <2>1, <2>3
<1>2. r.ask \in ListAsks /\ r.quiet \in BOOLEAN /\ r.fuzzy \in BOOLEAN /\ r.total \in Nat
    BY DEF Listers
<1>m. more = r.seen \o rows
    OBVIOUS
<1> HIDE DEF v, more
<1>3. v \in Listers
    BY <1>0, <1>1, <1>2 DEF Listers
<1>4. /\ v.ask = r.ask /\ v.quiet = r.quiet /\ v.page = k
      /\ v.seen = more /\ v.total = r.total /\ v.fuzzy = r.fuzzy /\ v.step = s
    BY <1>1
<1> QED BY <1>3, <1>4, <1>m DEF v, AfterPage

\* Who is in the middle of a listing, and what is known of a reader's pages.
LEMMA ReaderFacts ==
    ASSUME ShopInv, visitor.step \in {"count", "fuzzy", "page"}
    PROVE  /\ GoodShelf /\ visitor \in Listers
           /\ \A a \in ListAsks : visitor.ask = a /\ visitor.quiet => PagesOf(a)
<1>1. visitor \notin Onlookers /\ visitor # NoVisitor
    BY OneOrTheOther DEF Onlookers
<1> QED BY <1>1 DEF ShopInv

\* A count: what it finds decides whether what resembles the term is counted.
LEMMA CountHitsKeeps ==
    ASSUME ShopInv, CountHits
    PROVE  ShopInv'
<1>0. /\ GoodShelf /\ visitor \in Listers /\ visitor.step = "count"
      /\ \A a \in ListAsks : visitor.ask = a /\ visitor.quiet => PagesOf(a)
    BY ReaderFacts DEF CountHits
<1>1. UNCHANGED shelf /\ GoodShelf'
    BY <1>0, SameShelfSameRows DEF CountHits
<1>2. PICK a \in ListAsks : visitor.ask = a
    BY <1>0 DEF Listers
<1>b. a.term \in BOOLEAN
    BY StorefrontAssumption DEF ListAsks
<1> DEFINE n == Cardinality(PageHits(a, FALSE))  no == FALSE
           s == IF n = 0 /\ a.term THEN "fuzzy" ELSE "page"
<1>3. visitor' = CountedBy(visitor, n, no, s)
    BY <1>2 DEF CountHits, CountedBy
<1>4. n \in Nat /\ no \in BOOLEAN /\ s \in {"count", "fuzzy", "page", "read"}
    BY HitsAreGoods
<1>5. n = 0 <=> PageHits(a, FALSE) = {}
    BY HitsAreGoods, FS_EmptySet
<1>6. /\ s = "fuzzy" => a.term /\ PageHits(a, FALSE) = {}
      /\ s = "page" => Resembling(a) = no /\ n = Cardinality(PageHits(a, Resembling(a)))
      /\ s # "read" /\ (s = "page" \/ s = "fuzzy")
  <2>1. s = "page" => Resembling(a) = FALSE
      BY <1>b, <1>5 DEF Resembling
  <2> QED BY <1>5, <2>1
<1> HIDE DEF n, no, s
<1>7. /\ visitor' \in Listers /\ (visitor.ask)' = a /\ (visitor.quiet)' = visitor.quiet
      /\ (visitor.page)' = visitor.page /\ (visitor.seen)' = visitor.seen /\ (visitor.total)' = n
      /\ (visitor.fuzzy)' = no /\ (visitor.step)' = s
    BY <1>0, <1>2, <1>3, <1>4, ACount
<1>8. ASSUME visitor.quiet PROVE PagesOf(a)'
  <2>1. TotalOrder(a) => Offset(a) <= Len(Whole(a)) /\ visitor.seen = SubSeq(Whole(a), 1, Offset(a))
      BY <1>0, <1>2, <1>8 DEF PagesOf
  <2>2. Offset(a)' = Offset(a)
      BY <1>7 DEF Offset
  <2>3. Whole(a)' = Whole(a) /\ Resembling(a)' = Resembling(a) /\ \A f : PageHits(a, f)' = PageHits(a, f)
      BY <1>1, SameShelfSameRows
  <2>4. (s = "page" \/ s = "read") => Counted(a)'
      BY <1>6, <1>7, <2>3 DEF Counted
  <2> QED BY <1>6, <1>7, <2>1, <2>2, <2>3, <2>4 DEF PagesOf
<1> QED BY <1>1, <1>2, <1>7, <1>8, ListerKeeps

\* The second count: of what resembles the term.
LEMMA CountFuzzyKeeps ==
    ASSUME ShopInv, CountFuzzy
    PROVE  ShopInv'
<1>0. /\ GoodShelf /\ visitor \in Listers /\ visitor.step = "fuzzy"
      /\ \A a \in ListAsks : visitor.ask = a /\ visitor.quiet => PagesOf(a)
    BY ReaderFacts DEF CountFuzzy
<1>1. UNCHANGED shelf /\ GoodShelf'
    BY <1>0, SameShelfSameRows DEF CountFuzzy
<1>2. PICK a \in ListAsks : visitor.ask = a
    BY <1>0 DEF Listers
<1> DEFINE n == Cardinality(PageHits(a, TRUE))  some == n > 0
<1>3. visitor' = CountedBy(visitor, n, some, "page")
    BY <1>2 DEF CountFuzzy, CountedBy
<1> DEFINE yes == TRUE
<1>4. n \in Nat /\ some \in BOOLEAN
  <2>1. n \in Nat
    <3> HIDE DEF yes
    <3>1. Cardinality(PageHits(a, yes)) \in Nat
        BY HitsAreGoods
    <3> QED BY <3>1 DEF yes
  <2> HIDE DEF n
  <2> QED BY <2>1
<1>5. some <=> PageHits(a, TRUE) # {}
  <2> DEFINE H == PageHits(a, TRUE)
  <2>1. IsFiniteSet(H)
    <3> HIDE DEF yes
    <3>1. IsFiniteSet(PageHits(a, yes))
        BY HitsAreGoods
    <3> QED BY <3>1 DEF yes
  <2>2. n = 0 <=> H = {}
    <3> HIDE DEF H
    <3>1. Cardinality(H) = 0 <=> H = {}
        BY <2>1, FS_EmptySet
    <3> QED BY <3>1 DEF H
  <2>3. some <=> n # 0
    <3> HIDE DEF n
    <3> QED BY <1>4
  <2> QED BY <2>2, <2>3
<1>n. n = Cardinality(PageHits(a, TRUE))
    OBVIOUS
<1> HIDE DEF n, some
<1>6. a.term /\ PageHits(a, FALSE) = {} =>
         Resembling(a) = some /\ n = Cardinality(PageHits(a, Resembling(a)))
  <2> HAVE a.term /\ PageHits(a, FALSE) = {}
  <2>1. Resembling(a) <=> some
      BY <1>5 DEF Resembling
  <2>2. CASE some
    <3>1. some = TRUE /\ Resembling(a) = TRUE
        BY <2>1, <2>2, <1>4 DEF Resembling
    <3> QED BY <3>1, <1>n
  <2>3. CASE ~some
    <3>1. some = FALSE /\ Resembling(a) = FALSE
        BY <2>1, <2>3, <1>4 DEF Resembling
    <3>2. PageHits(a, TRUE) = PageHits(a, FALSE)
        BY <1>5, <2>3
    <3> QED BY <3>1, <3>2, <1>n
  <2> QED BY <2>2, <2>3
<1>7. /\ visitor' \in Listers /\ (visitor.ask)' = a /\ (visitor.quiet)' = visitor.quiet
      /\ (visitor.page)' = visitor.page /\ (visitor.seen)' = visitor.seen /\ (visitor.total)' = n
      /\ (visitor.fuzzy)' = some /\ (visitor.step)' = "page"
    BY <1>0, <1>2, <1>3, <1>4, ACount
<1>8. ASSUME visitor.quiet PROVE PagesOf(a)'
  <2>1. /\ a.term /\ PageHits(a, FALSE) = {}
        /\ TotalOrder(a) => Offset(a) <= Len(Whole(a)) /\ visitor.seen = SubSeq(Whole(a), 1, Offset(a))
      BY <1>0, <1>2, <1>8 DEF PagesOf
  <2>2. Offset(a)' = Offset(a)
      BY <1>7 DEF Offset
  <2>3. Whole(a)' = Whole(a) /\ Resembling(a)' = Resembling(a) /\ \A f : PageHits(a, f)' = PageHits(a, f)
      BY <1>1, SameShelfSameRows
  <2>4. Counted(a)'
      BY <1>6, <1>7, <2>1, <2>3 DEF Counted
  <2> QED BY <1>7, <2>1, <2>2, <2>3, <2>4 DEF PagesOf
<1> QED BY <1>1, <1>2, <1>7, <1>8, ListerKeeps

\* A page is read: in a total order it is the next piece of the one listing.
LEMMA ReadPageKeeps ==
    ASSUME ShopInv, ReadPage
    PROVE  ShopInv'
<1>0. /\ GoodShelf /\ visitor \in Listers /\ visitor.step = "page"
      /\ \A a \in ListAsks : visitor.ask = a /\ visitor.quiet => PagesOf(a)
    BY ReaderFacts DEF ReadPage
<1>1. UNCHANGED shelf /\ GoodShelf'
    BY <1>0, SameShelfSameRows DEF ReadPage
<1>2. PICK a \in ListAsks : visitor.ask = a
    BY <1>0 DEF Listers
<1>p. visitor.page \in Nat \ {0} /\ visitor.total \in Nat /\ visitor.fuzzy \in BOOLEAN
    BY <1>0 DEF Listers
<1> DEFINE size == PerPage(a)
           last == visitor.page * size >= visitor.total
           hits == PageHits(a, visitor.fuzzy)
           s == IF last THEN "read" ELSE "count"
           k == IF last THEN visitor.page ELSE visitor.page + 1
           off == Offset(a)
<1>3. PICK w \in Sorted(hits, RowKeys(a, visitor.fuzzy)) :
         visitor' = Turned(visitor, Window(w, size, off), s, k)
  <2>1. PICK w \in Sorted(PageHits(visitor.ask, visitor.fuzzy),
                         [p \in PageHits(visitor.ask, visitor.fuzzy) |->
                             SortKey(visitor.ask, visitor.fuzzy, p)]) :
           visitor' = [visitor EXCEPT
                         !.seen = @ \o Window(w, PerPage(visitor.ask),
                                              (visitor.page - 1) * PerPage(visitor.ask)),
                         !.step = IF visitor.page * PerPage(visitor.ask) >= visitor.total
                                  THEN "read" ELSE "count",
                         !.page = IF visitor.page * PerPage(visitor.ask) >= visitor.total
                                  THEN @ ELSE @ + 1]
      BY Zenon DEF ReadPage
  <2>2. w \in Sorted(PageHits(visitor.ask, visitor.fuzzy), RowKeys(visitor.ask, visitor.fuzzy))
      BY <2>1 DEF RowKeys
  <2>3. visitor' = Turned(visitor, Window(w, PerPage(visitor.ask), Offset(visitor.ask)),
                      IF visitor.page * PerPage(visitor.ask) >= visitor.total THEN "read" ELSE "count",
                      IF visitor.page * PerPage(visitor.ask) >= visitor.total THEN visitor.page
                      ELSE visitor.page + 1)
      BY <2>1, Zenon DEF Turned, Offset
  <2> QED BY <1>2, <2>2, <2>3
<1> DEFINE rows == Window(w, size, off)
<1>z. size \in Nat
    BY DEF PerPage
<1>o. off \in Nat /\ off + size = visitor.page * size /\ visitor.page * size \in Nat
    BY <1>p, <1>z, PageBounds DEF Offset
<1>w. w \in Seq(Goods)
  <2> DEFINE key == RowKeys(a, visitor.fuzzy)
  <2>1. hits \in SUBSET Goods /\ IsFiniteSet(hits) /\ w \in Sorted(hits, key)
      BY HitsAreGoods
  <2> HIDE DEF hits, key
  <2>2. w \in Seq(hits)
      BY <2>1, InOrderFacts
  <2> QED BY <2>1, <2>2, SeqMonotonic
<1>s. s \in {"count", "fuzzy", "page", "read"} /\ (last => s = "read" /\ k = visitor.page)
      /\ (~last => s = "count" /\ k = visitor.page + 1)
    OBVIOUS
<1>k. k \in Nat \ {0}
    BY <1>p
<1>r. rows \in Seq(Goods)
    BY <1>w, <1>o, <1>z, PageIsSeq
<1>l. last <=> off + size >= visitor.total
    BY <1>o
<1> HIDE DEF size, last, s, k, off
<1>4. visitor' = Turned(visitor, rows, s, k)
    BY <1>3
<1> HIDE DEF rows
<1>7. /\ visitor' \in Listers /\ (visitor.ask)' = a /\ (visitor.quiet)' = visitor.quiet
      /\ (visitor.page)' = k /\ (visitor.seen)' = visitor.seen \o rows
      /\ (visitor.total)' = visitor.total /\ (visitor.fuzzy)' = visitor.fuzzy /\ (visitor.step)' = s
  <2> DEFINE v == Turned(visitor, rows, s, k)
  <2>1. visitor \in Listers /\ s \in {"count", "fuzzy", "page", "read"}
      BY <1>0, <1>s
  <2>2. AfterPage(v, visitor, rows, s, k)
      BY <2>1, <1>k, <1>r, ATurn
  <2> HIDE DEF v
  <2>3. visitor' = v
      BY <1>4 DEF v
  <2> QED BY <1>2, <2>2, <2>3 DEF AfterPage
<1>8. ASSUME visitor.quiet PROVE PagesOf(a)'
  <2>0. PagesOf(a)
      BY <1>0, <1>2, <1>8
  <2>3. Whole(a)' = Whole(a) /\ Resembling(a)' = Resembling(a) /\ \A f : PageHits(a, f)' = PageHits(a, f)
      BY <1>1, SameShelfSameRows
  <2>4. Counted(a) /\ Counted(a)'
    <3>1. Counted(a)
        BY <2>0, <1>0 DEF PagesOf
    <3> QED BY <3>1, <1>7, <2>3 DEF Counted
  <2>5. ASSUME TotalOrder(a)
        PROVE  /\ s = "count" => Offset(a)' <= Len(Whole(a)) /\ visitor.seen \o rows = SubSeq(Whole(a), 1, Offset(a)')
               /\ s = "read" => visitor.seen \o rows = Whole(a)
    <3>1. w = Whole(a) /\ Len(w) = visitor.total
      <4> DEFINE f == Resembling(a)
      <4>1. visitor.fuzzy = f /\ visitor.total = Cardinality(PageHits(a, f))
          BY <2>4 DEF Counted
      <4>2. w \in Sorted(PageHits(a, f), RowKeys(a, f)) /\ Whole(a) = AllRows(a, f)
          BY <1>3, <4>1 DEF Whole
      <4> HIDE DEF f
      <4> QED BY <4>1, <4>2, <1>0, <2>5, RowsAreTheSame
    <3>2. off <= Len(w) /\ visitor.seen = SubSeq(w, 1, off)
        BY <2>0, <2>5, <1>0, <3>1 DEF PagesOf, off
    <3> DEFINE m == IF Len(w) < off + size THEN Len(w) ELSE off + size
    <3>3. visitor.seen \o rows = SubSeq(w, 1, m)
        BY <3>2, <1>w, <1>o, <1>z, PageJoins DEF rows
    <3>4. CASE last
      <4>1. m = Len(w)
          BY <3>1, <3>4, <1>l, <1>o, <1>z, <1>p
      <4>2. SubSeq(w, 1, Len(w)) = w
          BY <1>w, SubSeqFull
      <4> QED BY <3>1, <3>3, <3>4, <4>1, <4>2, <1>s
    <3>5. CASE ~last
      <4>1. m = off + size /\ off + size <= Len(w)
          BY <3>1, <3>5, <1>l, <1>o, <1>z, <1>p
      <4>2. Offset(a)' = off + size
        <5>1. (visitor.page)' = visitor.page + 1
            BY <1>7, <1>s, <3>5
        <5>2. Offset(a)' = ((visitor.page + 1) - 1) * size
            BY <5>1 DEF Offset, size
        <5>3. (visitor.page + 1) - 1 = visitor.page
            BY <1>p
        <5> QED BY <5>2, <5>3, <1>o
      <4> QED BY <3>1, <3>3, <3>5, <4>1, <4>2, <1>s
    <3> QED BY <3>4, <3>5
  <2> QED BY <1>7, <1>s, <2>3, <2>4, <2>5 DEF PagesOf
<1> QED BY <1>1, <1>2, <1>7, <1>8, ListerKeeps

\* A catalogue that changes is still one.
LEMMA ChangedShelf ==
    ASSUME GoodShelf, NEW p \in Goods, ChangeShelf(p)
    PROVE  GoodShelf'
<1> DEFINE flip == IF shelf[p].status = "published" THEN "archived" ELSE "published"
           row == [shelf[p] EXCEPT !.status = flip]
<1>1. shelf' = [shelf EXCEPT ![p] = row]
    BY DEF ChangeShelf
<1>2. /\ DOMAIN row = DOMAIN shelf[p] /\ row.score = shelf[p].score /\ row.rank = shelf[p].rank
      /\ row.born = shelf[p].born
    BY DEF GoodShelf
<1> HIDE DEF row
<1>3. /\ DOMAIN shelf' = Goods
      /\ \A q \in Goods : shelf'[q] = IF q = p THEN row ELSE shelf[q]
    BY <1>1 DEF GoodShelf
<1> QED BY <1>2, <1>3 DEF GoodShelf

\* Whoever reads while it changes is owed nothing.
LEMMA ChangeShelfKeeps ==
    ASSUME ShopInv, NEW p \in Goods, ChangeShelf(p)
    PROVE  ShopInv'
<1>1. GoodShelf'
    BY ChangedShelf DEF ShopInv
<1> DEFINE no == FALSE
<1>2. visitor' = IF visitor.step = "away" THEN visitor ELSE [visitor EXCEPT !.quiet = no]
    BY DEF ChangeShelf
<1>n. no \in BOOLEAN /\ ~no
    OBVIOUS
<1> HIDE DEF no
<1>3. CASE visitor = NoVisitor
    BY <1>1, <1>2, <1>3, OneOrTheOther DEF ShopInv, Listers, Onlookers, ListAsks, ProductAsks
<1>4. CASE visitor \in Listers
  <2>1. visitor' = [visitor EXCEPT !.quiet = no]
      BY <1>2, <1>4, OneOrTheOther
  <2>2. visitor' \in Listers /\ (visitor.ask)' = visitor.ask /\ (visitor.quiet)' = no
      BY <2>1, <1>4, <1>n DEF Listers
  <2>3. PICK a \in ListAsks : visitor.ask = a
      BY <1>4 DEF Listers
  <2> QED BY <1>1, <1>n, <2>2, <2>3, ListerKeeps
<1>5. CASE visitor \in Onlookers
  <2>1. visitor' = [visitor EXCEPT !.quiet = no]
      BY <1>2, <1>5, OneOrTheOther
  <2>2. visitor' \in Onlookers /\ (visitor.ask)' = visitor.ask /\ (visitor.quiet)' = no
      BY <2>1, <1>5, <1>n DEF Onlookers
  <2>3. PICK a \in ProductAsks : visitor.ask = a
      BY <1>5 DEF Onlookers
  <2> QED BY <1>1, <1>n, <2>2, <2>3, OnlookerKeeps
<1> QED BY <1>3, <1>4, <1>5 DEF ShopInv

\* The visitor goes.
LEMMA LeaveShopKeeps ==
    ASSUME ShopInv, LeaveShop
    PROVE  ShopInv'
<1>1. GoodShelf'
    BY SameShelfSameRows DEF ShopInv, LeaveShop
<1>2. visitor' = NoVisitor
    BY DEF LeaveShop
<1> QED BY <1>1, <1>2, OneOrTheOther DEF ShopInv, Listers, Onlookers, ListAsks, ProductAsks

\* Nothing happens.
LEMMA NothingKeeps ==
    ASSUME ShopInv, UNCHANGED shopVars
    PROVE  ShopInv'
<1>1. UNCHANGED shelf /\ UNCHANGED visitor
    BY DEF shopVars
<1>2. GoodShelf'
    BY <1>1, SameShelfSameRows DEF ShopInv
<1>3. CASE visitor = NoVisitor
    BY <1>1, <1>2, <1>3, OneOrTheOther DEF ShopInv, Listers, Onlookers, ListAsks, ProductAsks
<1>4. CASE visitor \in Listers
  <2>1. PICK a \in ListAsks : visitor.ask = a
      BY <1>4 DEF Listers
  <2>2. visitor.quiet => PagesOf(a)
      BY <1>4, <2>1 DEF ShopInv
  <2>3. Whole(a)' = Whole(a) /\ Resembling(a)' = Resembling(a) /\ \A f : PageHits(a, f)' = PageHits(a, f)
      BY <1>1, SameShelfSameRows
  <2>4. visitor' \in Listers /\ (visitor.ask)' = a /\ visitor'.quiet = visitor.quiet
      BY <1>1, <1>4, <2>1 DEF Listers
  <2>5. visitor.quiet => PagesOf(a)'
    <3>1. Counted(a)' = Counted(a) /\ Offset(a)' = Offset(a)
        BY <1>1, <2>3 DEF Counted, Offset
    <3> QED BY <1>1, <2>2, <2>3, <3>1 DEF PagesOf
  <2> QED BY <1>2, <2>1, <2>4, <2>5, ListerKeeps
<1>5. CASE visitor \in Onlookers
  <2>1. PICK a \in ProductAsks : visitor.ask = a
      BY <1>5 DEF Onlookers
  <2>2. visitor.quiet => RelatedOf(a)
      BY <1>5, <2>1 DEF ShopInv
  <2>4. visitor' \in Onlookers /\ (visitor.ask)' = a /\ visitor'.quiet = visitor.quiet
      BY <1>1, <1>5, <2>1 DEF Onlookers
  <2>5. visitor.quiet => RelatedOf(a)'
      BY <1>1, <2>2 DEF RelatedOf, OnShow
  <2> QED BY <1>2, <2>1, <2>4, <2>5, OnlookerKeeps
<1> QED BY <1>3, <1>4, <1>5 DEF ShopInv

\* The invariant of the storefront holds of every behaviour.
LEMMA ShopInvAlways == ShopSpec => []ShopInv
<1>1. ShopInv /\ [ShopNext]_shopVars => ShopInv'
  <2> SUFFICES ASSUME ShopInv, [ShopNext]_shopVars PROVE ShopInv'
      OBVIOUS
  <2>1. ASSUME NEW a \in ShopAsks, OpenProduct(a) PROVE ShopInv'
      BY <2>1, OpenProductKeeps
  <2>2. ASSUME NEW a \in ShopAsks, OpenListing(a) PROVE ShopInv'
      BY <2>2, OpenListingKeeps
  <2>3. ASSUME NEW p \in Goods, ChangeShelf(p) PROVE ShopInv'
      BY <2>3, ChangeShelfKeeps
  <2>4. CASE CountHits
      BY <2>4, CountHitsKeeps
  <2>5. CASE CountFuzzy
      BY <2>5, CountFuzzyKeeps
  <2>6. CASE ReadPage
      BY <2>6, ReadPageKeeps
  <2>7. CASE LeaveShop
      BY <2>7, LeaveShopKeeps
  <2>8. CASE UNCHANGED shopVars
      BY <2>8, NothingKeeps
  <2> QED BY <2>1, <2>2, <2>3, <2>4, <2>5, <2>6, <2>7, <2>8 DEF ShopNext
<1> QED BY <1>1, ShopInvInit, PTL DEF ShopSpec

\* For every catalogue, page size, rule and visit.
THEOREM NothingComesUpTwice == ShopSpec => []NothingIsShownTwice
    BY ShopInvAlways, ShopInvSays, PTL
-----------------------------------------------------------------------------
(* The rows of the catalogue: what the CHECKs of the table products ask for.    *)

\* A row the database takes: no negative number, and nothing on sale unreviewed.
Stocked(p) == p = Absent \/ (p.price \in Nat /\ p.stock \in Nat /\ MayPublish(p))
\* A patch under way is one of the bodies, and a product that was read is still there.
Informed(w, table) ==
    /\ w.job = "patch" => w.change \in Patches
    /\ w.job = "upsert" => w.seen = Absent \/ table[w.sku] # Absent
RowsHold ==
    /\ \A s \in Skus : Stocked(product[s])
    /\ \A h \in Hands : Informed(work[h], product)
    /\ \A b \in Batches : batch[b].status \in {"none", "validated", "committed", "failed"}
    /\ writes \in 0..MaxWrites /\ disturbed \subseteq Skus

\* A cell left empty leaves what was there.
LEMMA GivenIsThere ==
    ASSUME NEW v \in Cell, NEW w \in Nat
    PROVE  Given(v, w) \in Nat
BY DEF Given, Cell, None

\* What is assumed of the bound.
LEMMA CatalogBounds == 0 \in 0..MaxWrites
<1>1. MaxWrites \in Nat
    BY CatalogAssumption
<1> QED
    BY <1>1

\* A step that writes no row, of one request or of none.
LEMMA HandsHold ==
    ASSUME CatalogInv, RowsHold, NEW h \in Hands, NEW x, work' = [work EXCEPT ![h] = x],
           Informed(x, product), UNCHANGED <<product, writes, batch>>, disturbed' \subseteq Skus
    PROVE  RowsHold'
<1>1. \A g \in Hands : Informed(work'[g], product)
    BY DEF CatalogInv, CatalogTypes, RowsHold
<1> QED
    BY <1>1 DEF RowsHold, Informed

\* Rows that keep their numbers, some of them archived.
LEMMA ArchivedRowsHold ==
    ASSUME CatalogInv, RowsHold,
           \A s \in Skus : \/ product'[s] = product[s]
                           \/ /\ product[s] # Absent
                              /\ product'[s] = [product[s] EXCEPT !.status = "archived"],
           \A h \in Hands : Informed(work'[h], product),
           \A h \in Hands : work'[h].job = "upsert" => work'[h].sku \in Skus,
           \A b \in Batches : batch'[b].status \in {"none", "validated", "committed", "failed"},
           UNCHANGED <<writes, disturbed>>
    PROVE  RowsHold'
<1>1. ASSUME NEW s \in Skus
      PROVE  Stocked(product'[s]) /\ (product[s] # Absent => product'[s] # Absent)
  <2>1. CASE product'[s] = product[s]
    BY <2>1 DEF RowsHold
  <2>2. CASE /\ product[s] # Absent
             /\ product'[s] = [product[s] EXCEPT !.status = "archived"]
    <3>1. PICK p, q : p = product[s] /\ q = product'[s]
      OBVIOUS
    <3>2. p # Absent /\ IsProduct(p) /\ p.price \in Nat /\ p.stock \in Nat
      BY <2>2, <3>1 DEF CatalogInv, CatalogTypes, InTable, RowsHold, Stocked
    <3>3. q = [p EXCEPT !.status = "archived"]
      BY <2>2, <3>1
    <3>4. q = [status |-> "archived", reviewed |-> p.reviewed, supplied |-> p.supplied,
               price |-> p.price, cost |-> p.cost, stock |-> p.stock]
      BY <3>2, <3>3 DEF IsProduct
    <3>5. q.price = p.price /\ q.stock = p.stock /\ q.status = "archived" /\ IsProduct(q)
      BY <3>2, <3>4 DEF IsProduct
    <3>6. q # Absent
      BY <3>5, ProductsAreThere
    <3> QED
      BY <3>1, <3>2, <3>5, <3>6 DEF Stocked, MayPublish
  <2> QED
    BY <1>1, <2>1, <2>2
<1>2. \A h \in Hands : Informed(work'[h], product')
    BY <1>1 DEF Informed
<1> QED
    BY <1>1, <1>2 DEF RowsHold

\* A write of one row.
LEMMA WrittenRowsHold ==
    ASSUME CatalogInv, RowsHold, NEW h, NEW s \in Skus, NEW p, NEW booked, Write(h, s, p, booked),
           p # Absent, Stocked(p), batch' = batch,
           \A g \in Hands : work'[g] = work[g] \/ work'[g].job \notin {"patch", "upsert"}
    PROVE  RowsHold'
<1>1. /\ product'[s] = p /\ \A t \in Skus : t # s => product'[t] = product[t]
    BY DEF CatalogInv, CatalogTypes, Write
<1>2. \A t \in Skus : Stocked(product'[t]) /\ (product[t] # Absent => product'[t] # Absent)
    BY <1>1 DEF RowsHold
<1>3. ASSUME NEW g \in Hands PROVE Informed(work'[g], product')
  <2>1. CASE work'[g].job \notin {"patch", "upsert"}
    BY <2>1 DEF Informed
  <2>2. CASE work'[g] = work[g]
    <3>1. Informed(work[g], product) /\ HandOK(work[g], batch, product)
      BY DEF RowsHold, CatalogInv, CatalogTypes
    <3>2. work[g].job = "upsert" => work[g].sku \in Skus
      BY <3>1 DEF HandOK, AtRow, Resting
    <3> QED
      BY <1>2, <2>2, <3>1, <3>2 DEF Informed
  <2> QED
    BY <1>3, <2>1, <2>2
<1>4. writes' \in 0..MaxWrites /\ disturbed' \subseteq Skus
  <2>1. writes \in 0..MaxWrites /\ writes < MaxWrites /\ writes' = writes + 1 /\ MaxWrites \in Nat
    BY CatalogAssumption DEF Write, RowsHold
  <2>2. disturbed \subseteq Skus /\ disturbed' \in {disturbed, disturbed \union {s}}
    BY DEF Write, RowsHold
  <2>3. writes' \in 0..MaxWrites
    BY <2>1
  <2> QED
    BY <2>2, <2>3
<1> QED
    BY <1>2, <1>3, <1>4 DEF RowsHold

\* A cell of a sheet is a number that is not negative, or empty.
LEMMA SheetCells ==
    ASSUME NEW f \in Sheets, NEW i \in DOMAIN f.rows
    PROVE  f.rows[i].price \in Cell /\ f.rows[i].stock \in Cell
<1> DEFINE list == f.rows
           row == SheetRow(Skus)
<1>1. list \in Seq(row)
    BY CatalogAssumption
<1> HIDE DEF row
<1>2. list[i] \in row
    BY <1>1
<1> QED
    BY <1>2 DEF row, SheetRow

\* The commit of a batch writes a row the sheet had no negative number for.
LEMMA WriteRowHolds ==
    ASSUME CatalogInv, RowsHold, NEW h \in Hands, WriteRow(h)
    PROVE  RowsHold'
<1> DEFINE s == work[h].sku
           row == RowOf(h)
           seen == work[h].seen
           cur == product[s]
           p == Upserted(h)
           booked == p.stock - Units(s)
           x == Commit(work[h].batch, work[h].row + 1)
<1>1. /\ work[h].job = "upsert" /\ work' = [work EXCEPT ![h] = x] /\ batch' = batch
      /\ \/ MayPublish(p) /\ Write(h, s, p, booked)
         \/ UNCHANGED rowVars
    BY DEF WriteRow, Do
<1>2. /\ work[h].batch \in Batches /\ batch[work[h].batch].status # "none"
      /\ work[h].row \in DOMAIN batch[work[h].batch].sheet.rows
      /\ s = row.sku /\ s \in Skus
  <2>1. HandOK(work[h], batch, product)
    BY DEF CatalogInv, CatalogTypes
  <2>2. /\ AtRow(work[h], batch) /\ work[h].row # 0
        /\ s = batch[work[h].batch].sheet.rows[work[h].row].sku
    BY <1>1, <2>1 DEF HandOK, Resting
  <2> QED
    BY <2>2 DEF AtRow, RowOf
<1>3. Planned(batch[work[h].batch], product)
    BY <1>2 DEF CatalogInv, CatalogTypes, BatchOK, NoBatch
<1>4. row.price \in Cell /\ row.stock \in Cell
  <2> DEFINE sheet == batch[work[h].batch].sheet
  <2>1. sheet \in Sheets /\ work[h].row \in DOMAIN sheet.rows /\ row = sheet.rows[work[h].row]
    BY <1>2, <1>3 DEF Planned, RowOf
  <2> HIDE DEF sheet, row
  <2> QED
    BY <2>1, SheetCells
<1>5. x.job = "commit"
  <2>1. x = [job |-> "commit", sku |-> "none", batch |-> work[h].batch,
             row |-> NextRow(work[h].batch, work[h].row + 1)]
    BY DEF Commit
  <2> HIDE DEF x
  <2> QED
    BY <2>1
<1>6. \A g \in Hands : work'[g] = work[g] \/ work'[g].job \notin {"patch", "upsert"}
    BY <1>1, <1>5 DEF CatalogInv, CatalogTypes
<1>7. CASE UNCHANGED rowVars
    BY <1>1, <1>5, <1>7, HandsHold DEF rowVars, Informed, RowsHold
<1>8. CASE MayPublish(p) /\ Write(h, s, p, booked)
  <2>1. InTable(cur) /\ Stocked(cur) /\ (cur # Absent => cur.price \in Nat /\ cur.stock \in Nat)
    BY <1>2 DEF CatalogInv, CatalogTypes, RowsHold, Stocked
  <2>2. seen = Absent \/ cur # Absent
    BY <1>1 DEF RowsHold, Informed
  <2> DEFINE price == IF seen = Absent THEN Given(row.price, 0) ELSE row.price
             eff == EffectiveStatus(row, seen.status, ProfileOf(h))
             supplier == batch[work[h].batch].sheet.supplier
  <2>3. price \in Cell /\ (seen = Absent => price \in Nat)
    BY <1>4, GivenIsThere DEF Cell
  <2>4. CASE cur = Absent
    <3>1. p = [status |-> eff.status, reviewed |-> eff.reviewed, supplied |-> supplier,
               price |-> price, cost |-> row.cost, stock |-> Given(row.stock, 0)]
      BY <1>2, <2>4 DEF Upserted
    <3>2. Given(row.stock, 0) \in Nat /\ price \in Nat
      BY <1>4, <2>2, <2>3, <2>4, GivenIsThere
    <3> HIDE DEF p, price, eff, supplier, row, s, x, booked
    <3>3. p.price \in Nat /\ p.stock \in Nat /\ IsProduct(p)
      BY <3>1, <3>2 DEF IsProduct
    <3>4. p # Absent /\ Stocked(p)
      BY <1>8, <3>3, ProductsAreThere DEF Stocked
    <3> QED
      BY <1>1, <1>2, <1>6, <1>8, <3>4, WrittenRowsHold
  <2>5. CASE cur # Absent
    <3> DEFINE keep == cur.supplied \/ supplier
               flag == Flag(cur, eff)
    <3>1. p = [status |-> eff.status, reviewed |-> flag, supplied |-> keep,
               price |-> Given(price, cur.price), cost |-> Given(row.cost, cur.cost),
               stock |-> Given(row.stock, cur.stock)]
      BY <1>2, <2>5 DEF Upserted
    <3>2. Given(row.stock, cur.stock) \in Nat /\ Given(price, cur.price) \in Nat
      BY <1>4, <2>1, <2>3, <2>5, GivenIsThere
    <3> HIDE DEF p, price, eff, supplier, keep, flag, row, cur, s, x, booked
    <3>3. p.price \in Nat /\ p.stock \in Nat /\ IsProduct(p)
      BY <3>1, <3>2 DEF IsProduct
    <3>4. p # Absent /\ Stocked(p)
      BY <1>8, <3>3, ProductsAreThere DEF Stocked
    <3> QED
      BY <1>1, <1>2, <1>6, <1>8, <3>4, WrittenRowsHold
  <2> QED
    BY <2>4, <2>5
<1> QED
    BY <1>1, <1>7, <1>8

\* So does the old import, one row at a time.
LEMMA WriteCsvRowHolds ==
    ASSUME CatalogInv, RowsHold, NEW h \in Hands, WriteCsvRow(h)
    PROVE  RowsHold'
<1> DEFINE s == work[h].sku
           row == work[h].change
           cur == product[s]
           status == IF row.status = "none" THEN "published" ELSE row.status
           reviewed == Exists(s) => cur.reviewed
           supplied == (Exists(s) /\ cur.supplied) \/ row.supplied
           cost == IF Exists(s) THEN Given(row.cost, cur.cost) ELSE row.cost
           stock == Given(row.stock, 0)
           p == [status |-> status, reviewed |-> reviewed, supplied |-> supplied,
                 price |-> row.price, cost |-> cost, stock |-> stock]
           booked == p.stock - Units(s)
<1>1. /\ work[h].job = "csv" /\ work' = [work EXCEPT ![h] = Resting] /\ batch' = batch
      /\ \/ MayPublish(p) /\ Write(h, s, p, booked)
         \/ UNCHANGED <<product, disturbed, writes>>
    BY DEF WriteCsvRow, Rest, Do
<1>2. s \in Skus /\ row \in CsvRows
  <2>1. HandOK(work[h], batch, product)
    BY DEF CatalogInv, CatalogTypes
  <2> QED
    BY <1>1, <2>1 DEF HandOK, Resting
<1>3. row.price \in Nat /\ row.stock \in Cell
  <2>1. row \in [price : Nat, cost : Cell, stock : Cell, status : STRING, supplied : BOOLEAN]
    BY <1>2, CatalogAssumption
  <2> QED
    BY <2>1
<1>4. stock \in Nat
    BY <1>3, GivenIsThere
<1>5. Resting.job = "none"
    BY DEF Resting
<1>6. \A g \in Hands : work'[g] = work[g] \/ work'[g].job \notin {"patch", "upsert"}
    BY <1>1, <1>5 DEF CatalogInv, CatalogTypes
<1>7. CASE UNCHANGED <<product, disturbed, writes>>
    BY <1>1, <1>5, <1>7, HandsHold DEF Informed, RowsHold
<1>8. CASE MayPublish(p) /\ Write(h, s, p, booked)
  <2> HIDE DEF status, reviewed, supplied, cost, stock, row, s, booked
  <2>1. p.price \in Nat /\ p.stock \in Nat /\ IsProduct(p)
    BY <1>3, <1>4 DEF IsProduct
  <2> HIDE DEF p
  <2>2. p # Absent /\ Stocked(p)
    BY <1>8, <2>1, ProductsAreThere DEF Stocked
  <2> QED
    BY <1>1, <1>2, <1>6, <1>8, <2>2, WrittenRowsHold
<1> QED
    BY <1>1, <1>7, <1>8

\* A product is born reviewed.
LEMMA CreateHolds ==
    ASSUME CatalogInv, RowsHold, NEW h \in Hands, NEW s \in Skus, NEW new \in NewProducts,
           CreateProduct(h, s, new)
    PROVE  RowsHold'
<1> DEFINE yes == TRUE
           no == FALSE
           p == [status |-> new.status, reviewed |-> yes, supplied |-> no,
                 price |-> new.price, cost |-> new.cost, stock |-> new.stock]
           x == [job |-> "trail", sku |-> s, seen |-> [price |-> 0, stock |-> 0],
                 change |-> [price |-> new.price, stock |-> None]]
<1>1. /\ Write(h, s, p, new.stock) /\ work' = [work EXCEPT ![h] = x] /\ batch' = batch
    BY DEF CreateProduct, Do
<1>2. new.price \in Nat /\ new.stock \in Nat
  <2>1. new \in [price : Nat, cost : Cell, stock : Nat, status : STRING]
    BY CatalogAssumption
  <2> QED
    BY <2>1
<1>3. yes /\ x.job = "trail"
    OBVIOUS
<1> HIDE DEF yes, no, x
<1>4. p.price \in Nat /\ p.stock \in Nat /\ p.reviewed = yes /\ IsProduct(p)
    BY <1>2 DEF IsProduct
<1> HIDE DEF p
<1>5. p # Absent /\ Stocked(p)
    BY <1>3, <1>4, ProductsAreThere DEF Stocked, MayPublish
<1>6. \A g \in Hands : work'[g] = work[g] \/ work'[g].job \notin {"patch", "upsert"}
    BY <1>1, <1>3 DEF CatalogInv, CatalogTypes
<1> QED
    BY <1>1, <1>5, <1>6, WrittenRowsHold

\* A patch writes what it was given, and the database refuses the rest.
LEMMA WritePatchHolds ==
    ASSUME CatalogInv, RowsHold, NEW h \in Hands, WritePatch(h)
    PROVE  RowsHold'
<1> DEFINE s == work[h].sku
           was == work[h]
           c == was.change
           cur == product[s]
           p == Patched(h)
           x == [was EXCEPT !.job = "trail"]
<1>1. /\ was.job = "patch" /\ batch' = batch
      /\ \/ MayPublish(p) /\ Write(h, s, p, 0) /\ work' = [work EXCEPT ![h] = x]
         \/ work' = [work EXCEPT ![h] = Resting] /\ UNCHANGED <<product, disturbed, writes>>
    BY DEF WritePatch, Do, Rest
<1>2. /\ s \in Skus /\ cur # Absent
      /\ was = [job |-> was.job, sku |-> was.sku, seen |-> was.seen, change |-> was.change]
  <2>1. HandOK(was, batch, product)
    BY DEF CatalogInv, CatalogTypes
  <2> QED
    BY <1>1, <2>1 DEF HandOK, Resting
<1>3. c.price \in Cell /\ c.stock \in Cell
  <2>1. c \in Patches
    BY <1>1 DEF RowsHold, Informed
  <2>2. c \in [price : Cell, stock : Cell, status : STRING]
    BY <2>1, CatalogAssumption
  <2> QED
    BY <2>2
<1>4. CASE work' = [work EXCEPT ![h] = Resting] /\ UNCHANGED <<product, disturbed, writes>>
  <2>1. Informed(Resting, product)
    BY DEF Resting, Informed
  <2> QED
    BY <1>1, <1>4, <2>1, HandsHold DEF RowsHold
<1>5. CASE MayPublish(p) /\ Write(h, s, p, 0) /\ work' = [work EXCEPT ![h] = x]
  <2>1. IsProduct(cur) /\ cur.price \in Nat /\ cur.stock \in Nat
    BY <1>2 DEF CatalogInv, CatalogTypes, InTable, RowsHold, Stocked
  <2>2. x.job = "trail"
    <3> HIDE DEF was
    <3>1. x = [job |-> "trail", sku |-> was.sku, seen |-> was.seen, change |-> was.change]
      BY <1>2
    <3> HIDE DEF x
    <3> QED
      BY <3>1
  <2>3. IsProduct(p) /\ p.price \in Nat /\ p.stock \in Nat
    <3> DEFINE price == Given(c.price, cur.price)
               stock == Given(c.stock, cur.stock)
               status == IF c.status = "none" THEN cur.status ELSE c.status
               p1 == [cur EXCEPT !.price = price]
               p2 == [p1 EXCEPT !.stock = stock]
               p3 == [p2 EXCEPT !.status = status]
    <3>1. price \in Nat /\ stock \in Nat
      BY <1>3, <2>1, GivenIsThere
    <3>2. p = p3
      BY <2>1 DEF Patched, IsProduct
    <3> HIDE DEF price, stock, status, cur, p
    <3>3. p1 = [status |-> cur.status, reviewed |-> cur.reviewed, supplied |-> cur.supplied,
                price |-> price, cost |-> cur.cost, stock |-> cur.stock]
      BY <2>1 DEF IsProduct
    <3> HIDE DEF p1
    <3>4. p2 = [status |-> cur.status, reviewed |-> cur.reviewed, supplied |-> cur.supplied,
                price |-> price, cost |-> cur.cost, stock |-> stock]
      BY <3>3
    <3> HIDE DEF p2
    <3>5. p3 = [status |-> status, reviewed |-> cur.reviewed, supplied |-> cur.supplied,
                price |-> price, cost |-> cur.cost, stock |-> stock]
      BY <3>4
    <3> HIDE DEF p3
    <3> QED
      BY <3>1, <3>2, <3>5 DEF IsProduct
  <2> HIDE DEF x, p, s
  <2>4. p # Absent /\ Stocked(p)
    BY <1>5, <2>3, ProductsAreThere DEF Stocked
  <2>5. \A g \in Hands : work'[g] = work[g] \/ work'[g].job \notin {"patch", "upsert"}
    BY <1>5, <2>2 DEF CatalogInv, CatalogTypes
  <2> QED
    BY <1>1, <1>2, <1>5, <2>4, <2>5, WrittenRowsHold
<1> HIDE DEF p, x, s
<1> QED
    BY <1>1, <1>4, <1>5

\* The shop takes what is there, and the clerk what leaves nothing below zero.
LEMMA ShopWriteHolds ==
    ASSUME CatalogInv, RowsHold, NEW s \in Skus, Exists(s), NEW n \in Int,
           product[s].stock + n >= 0, NEW booked, UNCHANGED <<batch, work>>,
           Write(None, s, [product[s] EXCEPT !.stock = @ + n], booked)
    PROVE  RowsHold'
<1>1. PICK p, q : p = product[s] /\ q = [product[s] EXCEPT !.stock = @ + n]
    OBVIOUS
<1>2. p # Absent /\ IsProduct(p) /\ p.price \in Nat /\ p.stock \in Nat /\ MayPublish(p)
    BY <1>1 DEF CatalogInv, CatalogTypes, InTable, RowsHold, Stocked, Exists
<1> DEFINE left == p.stock + n
<1>3. q = [p EXCEPT !.stock = left] /\ left \in Nat
    BY <1>1, <1>2
<1> HIDE DEF left
<1>4. q = [status |-> p.status, reviewed |-> p.reviewed, supplied |-> p.supplied,
           price |-> p.price, cost |-> p.cost, stock |-> left]
    BY <1>2, <1>3 DEF IsProduct
<1>5. /\ q.price = p.price /\ q.stock = left /\ q.status = p.status /\ q.reviewed = p.reviewed
      /\ IsProduct(q)
    BY <1>2, <1>3, <1>4 DEF IsProduct
<1>6. q # Absent /\ Stocked(q)
    BY <1>2, <1>3, <1>5, ProductsAreThere DEF Stocked, MayPublish
<1> QED
    BY <1>1, <1>6, WrittenRowsHold

\* Every step keeps the rows in order.
LEMMA EveryStepHoldsRows == CatalogInv /\ RowsHold /\ [CatalogNext]_catalogVars => RowsHold'
<1> SUFFICES ASSUME CatalogInv, RowsHold, [CatalogNext]_catalogVars PROVE RowsHold'
    OBVIOUS
<1>1. CASE UNCHANGED catalogVars
    BY <1>1 DEF catalogVars, rowVars, RowsHold, Informed
<1>2. ASSUME NEW b \in Batches, NEW f \in Sheets, DryRun(b, f) PROVE RowsHold'
  <2> DEFINE plan == PlanRows(f.rows, product, f.profile)
             missing == IF f.supplier THEN MissingSKUs(f.rows, product, f.profile) ELSE {}
             new == [status |-> "validated", sheet |-> f, plan |-> plan, missing |-> missing]
  <2>1. batch' = [batch EXCEPT ![b] = new] /\ UNCHANGED <<product, writes, disturbed, work>>
    BY <1>2 DEF DryRun, rowVars
  <2> HIDE DEF plan, missing
  <2>2. new.status = "validated"
    OBVIOUS
  <2> HIDE DEF new
  <2>3. \A c \in Batches : batch'[c] = batch[c] \/ batch'[c].status = "validated"
    BY <2>1, <2>2 DEF CatalogInv, CatalogTypes
  <2> QED
    BY <2>1, <2>3 DEF RowsHold, Informed
<1>3. ASSUME NEW b \in Batches, NEW h \in Hands, StartCommit(h, b) PROVE RowsHold'
  <2>1. Commit(b, 1).job = "commit"
    BY DEF Commit
  <2>2. Informed(Commit(b, 1), product)
    BY <2>1 DEF Informed
  <2> QED
    BY <1>3, <2>2, HandsHold DEF StartCommit, Do, rowVars, RowsHold
<1>4. ASSUME NEW h \in Hands, ReadRow(h) PROVE RowsHold'
  <2> DEFINE row == RowOf(h)
             seen == product[row.sku]
             x == [job |-> "upsert", sku |-> row.sku, batch |-> work[h].batch,
                   row |-> work[h].row, seen |-> seen]
  <2>1. work' = [work EXCEPT ![h] = x] /\ UNCHANGED <<product, writes, disturbed, batch>>
    BY <1>4 DEF ReadRow, Do, rowVars
  <2>2. x.job = "upsert" /\ x.sku = row.sku /\ x.seen = product[row.sku]
    OBVIOUS
  <2> HIDE DEF x
  <2>3. Informed(x, product)
    BY <2>2 DEF Informed
  <2> QED
    BY <2>1, <2>3, HandsHold DEF RowsHold
<1>5. ASSUME NEW h \in Hands, WriteRow(h) PROVE RowsHold'
    BY <1>5, WriteRowHolds
<1>6. ASSUME NEW h \in Hands, FinishCommit(h) \/ FailCommit(h) PROVE RowsHold'
  <2>0. PICK gone, status :
          /\ gone \subseteq batch[work[h].batch].missing /\ status \in {"committed", "failed"}
          /\ CloseBatch(h, gone, status)
    BY <1>6 DEF FinishCommit, FailCommit
  <2> DEFINE b == work[h].batch
             old == batch[b]
  <2>1. /\ work[h].job = "commit" /\ work' = [work EXCEPT ![h] = Resting]
        /\ batch' = [batch EXCEPT ![b] = [old EXCEPT !.status = status]]
        /\ \A s \in Skus : product'[s] = IF s \in gone /\ product[s].supplied
                                         THEN [product[s] EXCEPT !.status = "archived"]
                                         ELSE product[s]
        /\ UNCHANGED <<disturbed, writes>>
    BY <2>0 DEF CloseBatch, Rest, Do
  <2>2. b \in Batches /\ Planned(old, product)
    <3>1. HandOK(work[h], batch, product)
      BY DEF CatalogInv, CatalogTypes
    <3>2. AtRow(work[h], batch)
      BY <2>1, <3>1 DEF HandOK, Resting
    <3> QED
      BY <3>2 DEF AtRow, CatalogInv, CatalogTypes, BatchOK, NoBatch
  <2>3. \A s \in gone : product[s] # Absent
    BY <2>0, <2>2 DEF Planned
  <2>4. [old EXCEPT !.status = status].status = status
    <3>1. old = [status |-> old.status, sheet |-> old.sheet, plan |-> old.plan,
                 missing |-> old.missing]
      BY <2>2 DEF Planned
    <3> HIDE DEF old
    <3> QED
      BY <3>1
  <2> HIDE DEF old
  <2>5. \A s \in Skus : \/ product'[s] = product[s]
                        \/ /\ product[s] # Absent
                           /\ product'[s] = [product[s] EXCEPT !.status = "archived"]
    BY <2>1, <2>3
  <2>6. \A c \in Batches : batch'[c].status \in {"none", "validated", "committed", "failed"}
    BY <2>0, <2>1, <2>2, <2>4 DEF RowsHold, CatalogInv, CatalogTypes
  <2>7. \A g \in Hands : work'[g] = work[g] \/ work'[g] = Resting
    BY <2>1 DEF CatalogInv, CatalogTypes
  <2>8. Informed(Resting, product) /\ Resting.job = "none"
    BY DEF Informed, Resting
  <2>9. \A g \in Hands : Informed(work'[g], product)
    BY <2>7, <2>8 DEF RowsHold
  <2>10. ASSUME NEW g \in Hands, work'[g].job = "upsert" PROVE work'[g].sku \in Skus
    <3>1. work'[g] = work[g] /\ HandOK(work[g], batch, product)
      BY <2>7, <2>8, <2>10 DEF CatalogInv, CatalogTypes
    <3> QED
      BY <2>10, <3>1 DEF HandOK, AtRow, Resting
  <2> QED
    BY <2>1, <2>5, <2>6, <2>9, <2>10, ArchivedRowsHold
<1>7. ASSUME NEW h \in Hands, WritePatch(h) PROVE RowsHold'
    BY <1>7, WritePatchHolds
<1>8. Informed(Resting, product)
    BY DEF Informed, Resting
<1>9. ASSUME NEW h \in Hands, WriteTrail(h) PROVE RowsHold'
    BY <1>8, <1>9, HandsHold DEF WriteTrail, Rest, Do, RowsHold
<1>10. ASSUME NEW h \in Hands, WriteCsvRow(h) PROVE RowsHold'
    BY <1>10, WriteCsvRowHolds
<1>11. ASSUME NEW h \in Hands, Die(h) PROVE RowsHold'
  <2>1. HandOK(work[h], batch, product)
    BY DEF CatalogInv, CatalogTypes
  <2>2. work[h].job = "trail" => work[h].sku \in Skus
    BY <2>1 DEF HandOK, Resting
  <2>3. disturbed' \subseteq Skus
    BY <1>11, <2>2 DEF Die, RowsHold
  <2> QED
    BY <1>8, <1>11, <2>3, HandsHold DEF Die, Rest, Do
<1>12. ASSUME NEW h \in Hands, NEW s \in Skus, NEW c \in Patches, ReadForAudit(h, s, c)
       PROVE  RowsHold'
  <2> DEFINE seen == product[s]
             x == [job |-> "patch", sku |-> s, seen |-> seen, change |-> c]
  <2>1. work' = [work EXCEPT ![h] = x] /\ UNCHANGED <<product, writes, disturbed, batch>>
    BY <1>12 DEF ReadForAudit, Do, rowVars
  <2> HIDE DEF seen
  <2>2. x.job = "patch" /\ x.change = c
    OBVIOUS
  <2> HIDE DEF x
  <2>3. Informed(x, product)
    BY <2>2 DEF Informed
  <2> QED
    BY <2>1, <2>3, HandsHold DEF RowsHold
<1>13. ASSUME NEW h \in Hands, NEW s \in Skus, NEW n \in NewProducts, CreateProduct(h, s, n)
       PROVE  RowsHold'
    BY <1>13, CreateHolds
<1>14. ASSUME NEW h \in Hands, NEW s \in Skus, NEW r \in CsvRows, ReadCsvRow(h, s, r)
       PROVE  RowsHold'
  <2> DEFINE seen == product[s]
             x == [job |-> "csv", sku |-> s, seen |-> seen, change |-> r]
  <2>1. work' = [work EXCEPT ![h] = x] /\ UNCHANGED <<product, writes, disturbed, batch>>
    BY <1>14 DEF ReadCsvRow, Do, rowVars
  <2> HIDE DEF seen
  <2>2. x.job = "csv"
    OBVIOUS
  <2> HIDE DEF x
  <2>3. Informed(x, product)
    BY <2>2 DEF Informed
  <2> QED
    BY <2>1, <2>3, HandsHold DEF RowsHold
<1>15. ASSUME NEW s \in Skus, ArchiveProduct(s) PROVE RowsHold'
  <2>1. /\ product[s] # Absent /\ UNCHANGED <<work, batch, writes, disturbed>>
        /\ product' = [product EXCEPT ![s] = [product[s] EXCEPT !.status = "archived"]]
    BY <1>15 DEF ArchiveProduct, Exists
  <2>2. \A t \in Skus : \/ product'[t] = product[t]
                        \/ /\ product[t] # Absent
                           /\ product'[t] = [product[t] EXCEPT !.status = "archived"]
    BY <2>1 DEF CatalogInv, CatalogTypes
  <2>3. ASSUME NEW g \in Hands, work[g].job = "upsert" PROVE work[g].sku \in Skus
    <3>1. HandOK(work[g], batch, product)
      BY DEF CatalogInv, CatalogTypes
    <3> QED
      BY <2>3, <3>1 DEF HandOK, AtRow, Resting
  <2> QED
    BY <2>1, <2>2, <2>3, ArchivedRowsHold DEF RowsHold
<1>16. ASSUME NEW s \in Skus, SellOne(s) PROVE RowsHold'
  <2> DEFINE p == product[s]
             n == -1
  <2>1. p # Absent /\ p.stock \in Nat /\ p.stock > 0
    BY <1>16 DEF SellOne, Exists, RowsHold, Stocked
  <2>2. p.stock - 1 = p.stock + n /\ n \in Int /\ p.stock + n >= 0
    BY <2>1
  <2>3. Write(None, s, [p EXCEPT !.stock = p.stock - 1], -1)
    BY <1>16 DEF SellOne
  <2>4. [p EXCEPT !.stock = p.stock - 1] = [p EXCEPT !.stock = @ + n]
    BY <2>2
  <2>5. Write(None, s, [p EXCEPT !.stock = @ + n], n)
    BY <2>3, <2>4
  <2>6. Exists(s) /\ UNCHANGED <<batch, work>>
    BY <1>16 DEF SellOne
  <2> HIDE DEF n
  <2> QED
    BY <2>2, <2>5, <2>6, ShopWriteHolds
<1>17. ASSUME NEW s \in Skus, NEW d \in {-1, 1}, AdjustStock(s, d) PROVE RowsHold'
  <2>1. /\ d \in Int /\ Exists(s) /\ UNCHANGED <<batch, work>> /\ product[s].stock + d >= 0
        /\ Write(None, s, [product[s] EXCEPT !.stock = @ + d], d)
    BY <1>17 DEF AdjustStock
  <2> QED
    BY <2>1, ShopWriteHolds
<1> QED
    BY <1>1, <1>2, <1>3, <1>4, <1>5, <1>6, <1>7, <1>9, <1>10, <1>11, <1>12, <1>13, <1>14,
       <1>15, <1>16, <1>17 DEF CatalogNext

\* The rows of the catalogue, whoever writes them: no price and no stock below zero, and
\* nothing on sale whose price nobody reviewed (products_published_needs_review).
LEMMA CatalogTypesAlways == CatalogSpec => []CatalogTypeOK
<1>1. CatalogInit => RowsHold
  <2> SUFFICES ASSUME CatalogInit PROVE RowsHold
    OBVIOUS
  <2> DEFINE yes == TRUE
  <2>1. OnSale = [status |-> "published", reviewed |-> yes, supplied |-> yes,
                  price |-> 2, cost |-> None, stock |-> 2]
    BY DEF OnSale
  <2>2. yes
    OBVIOUS
  <2> HIDE DEF yes
  <2>3. OnSale.reviewed /\ OnSale.price = 2 /\ OnSale.stock = 2
    BY <2>1, <2>2
  <2>4. \A s \in Skus : Stocked(product[s])
    BY <2>3 DEF CatalogInit, Stocked, MayPublish
  <2>5. \A h \in Hands : Informed(work[h], product)
    BY DEF CatalogInit, Resting, Informed
  <2>6. \A b \in Batches : batch[b].status = "none"
    BY DEF CatalogInit, NoBatch
  <2> QED
    BY <2>4, <2>5, <2>6, CatalogBounds DEF CatalogInit, RowsHold
<1>2. CatalogInv /\ RowsHold /\ [CatalogNext]_catalogVars => RowsHold'
    BY EveryStepHoldsRows
<1>3. CatalogInv /\ RowsHold => CatalogTypeOK
    BY DEF RowsHold, Stocked, CatalogTypeOK, Exists
<1> QED
    BY <1>1, <1>2, <1>3, CatalogInvAlways, PTL DEF CatalogSpec
-----------------------------------------------------------------------------
(* The types of the others.                                                     *)

\* The gallery: its variables and the number of requests.
LEMMA GalleryTypesAlways == GallerySpec => []GalleryTypeOK
<1> DEFINE Asked == asks \in 0..MaxGalleryAsks
<1>1. GalleryInit => Asked
    BY GalleryAssumption DEF GalleryInit
<1>2. Asked /\ [GalleryNext]_galleryVars => Asked'
  <2> SUFFICES ASSUME Asked, [GalleryNext]_galleryVars PROVE Asked'
    OBVIOUS
  <2>1. asks' = asks \/ (asks < MaxGalleryAsks /\ asks' = asks + 1)
    BY DEF GalleryNext, galleryVars, Upload, DeletePhoto, Begin, FindByChecksum, Put, Fail, Undo,
       LockGallery, InsertPhoto, DeleteObjects, StopUpload, SetCover, Reorder
  <2> QED
    BY <2>1, GalleryAssumption
<1>3. GalleryInv /\ Asked => GalleryTypeOK
  <2> SUFFICES ASSUME GalleryInv, Asked PROVE GalleryTypeOK
    OBVIOUS
  <2>1. \A p \in Photos : gallery[p] \in {Unlisted} \union Row /\ objects[p] \subseteq 1..3
    BY DEF GalleryInv, GalleryTypes
  <2>2. \A p \in Photos : gallery[p].listed \in BOOLEAN
    <3>1. Unlisted.listed = FALSE /\ \A x \in Row : x.listed = TRUE
      BY DEF Unlisted, Row
    <3> QED
      BY <2>1, <3>1
  <2>3. DOMAIN Sides = 1..3
    BY DEF Sides
  <2>4. \A h \in PhotoHands : editor[h].step \in Steps
    BY DEF GalleryInv, GalleryTypes, Free, Editing, Steps
  <2>5. doubtful \subseteq Photos /\ arranged \in BOOLEAN
    BY DEF GalleryInv, GalleryTypes
  <2> QED
    BY <2>1, <2>2, <2>3, <2>4, <2>5 DEF GalleryTypeOK, Steps
<1> QED
    BY <1>1, <1>2, <1>3, GalleryInvAlways, PTL DEF GallerySpec

\* No batch counts more orders than there are.
LEMMA CountsAreFew ==
    ASSUME NEW S \in SUBSET BasketOrders, NEW pq
    PROVE  Counts(S, pq) \in 0..Cardinality(BasketOrders)
<1> DEFINE T == {o \in S : /\ Cardinality(Baskets[o]) \in 2..MaxBasketSize
                           /\ {pq[1], pq[2]} \subseteq Baskets[o]}
<1>1. IsFiniteSet(BasketOrders) /\ T \subseteq BasketOrders
    BY CopurchaseAssumption DEF BasketOrders
<1>2. Counts(S, pq) = Cardinality(T)
    BY DEF Counts
<1> HIDE DEF T
<1>3. IsFiniteSet(T) /\ Cardinality(T) <= Cardinality(BasketOrders)
    BY <1>1, FS_Subset
<1>4. Cardinality(T) \in Nat /\ Cardinality(BasketOrders) \in Nat
    BY <1>1, <1>3, FS_CardinalityType
<1> QED
    BY <1>2, <1>3, <1>4

\* The counting job: no number above that of the orders, and the clock within its bound.
LEMMA CopurchaseTypesAlways == CopurchaseSpec => []CopurchaseTypeOK
<1> DEFINE OnTheClock == minute \in 1..LastMinute
<1>1. CopurchaseInit => OnTheClock
    BY CopurchaseAssumption DEF CopurchaseInit
<1>2. OnTheClock /\ [CopurchaseNext]_copurchaseVars => OnTheClock'
  <2> SUFFICES ASSUME OnTheClock, [CopurchaseNext]_copurchaseVars PROVE OnTheClock'
    OBVIOUS
  <2>1. minute' = minute \/ (minute < LastMinute /\ minute' = minute + 1)
    BY DEF CopurchaseNext, copurchaseVars, Minute, Confirm, Land, BeginCount, LockWatermark,
       SeeWindow, CountWindow, SaveCount, AbandonCount
  <2> QED
    BY <2>1, CopurchaseAssumption
<1>3. CopurchaseInv /\ OnTheClock => CopurchaseTypeOK
  <2> SUFFICES ASSUME CopurchaseInv, OnTheClock PROVE CopurchaseTypeOK
    OBVIOUS
  <2>1. \A pq \in BasketPairs : together[pq] \in 0..Cardinality(BasketOrders)
    <3> DEFINE S == {o \in BasketOrders : confirmed[o].step # "active" /\ confirmed[o].at <= watermark}
    <3>1. \A pq \in BasketPairs : together[pq] = Counts(S, pq)
      BY DEF CopurchaseInv, EveryBasketCountsOnce
    <3>2. S \in SUBSET BasketOrders
      OBVIOUS
    <3> HIDE DEF S
    <3> QED
      BY <3>1, <3>2, CountsAreFew
  <2>2. together \in [BasketPairs -> Nat]
    BY DEF CopurchaseInv, CopurchaseTypes
  <2>3. together \in [BasketPairs -> 0..Cardinality(BasketOrders)]
    BY <2>1, <2>2
  <2>4. watermark \in Int /\ \A o \in BasketOrders : confirmed[o].step \in {"active", "writing", "committed"}
    BY DEF CopurchaseInv, CopurchaseTypes, Confirmation
  <2>5. \A r \in Refreshers : refresher[r].step \in {"off", "waiting", "window", "count", "save"}
    <3>1. AtRest.step = "off" /\ \A x \in Counting : x.step \in {"waiting", "window", "count", "save"}
      BY DEF AtRest, Counting
    <3>2. \A r \in Refreshers : refresher[r] = AtRest \/ refresher[r] \in Counting
      BY DEF CopurchaseInv, CopurchaseTypes
    <3> QED
      BY <3>1, <3>2
  <2> QED
    BY <2>3, <2>4, <2>5 DEF CopurchaseTypeOK
<1> QED
    BY <1>1, <1>2, <1>3, CopurchaseInvAlways, PTL DEF CopurchaseSpec

\* The library: what the reviewer has open was a page, and the history is bounded.
LEMMA LibraryTypesAlways == LibrarySpec => []LibraryTypeOK
<1> DEFINE Open == /\ reading \in Said
                   /\ Len(earlier) <= MaxVersions
<1>1. LibraryInit => Open
    BY LibraryAssumption DEF LibraryInit, Said
<1>2. LibraryInv /\ Open /\ [LibraryNext]_libraryVars => Open'
  <2> SUFFICES ASSUME LibraryInv, Open, [LibraryNext]_libraryVars PROVE Open'
    OBVIOUS
  <2>1. /\ page.text \in Said /\ page \in Version
        /\ earlier \in Seq(Version) /\ Len(earlier) \in Nat /\ MaxVersions \in Nat
    BY LibraryAssumption DEF LibraryInv, Vetted, Version
  <2>2. ASSUME NEW text \in Texts, Ingerir(text) PROVE Open'
    <3>1. earlier' = earlier \/ earlier' = <<page>> \o earlier
      BY <2>2 DEF Ingerir
    <3>2. Len(<<page>> \o earlier) = 1 + Len(earlier)
      BY <2>1
    <3> QED
      BY <2>1, <2>2, <3>1, <3>2 DEF Ingerir
  <2>3. CASE Pendentes
    BY <2>1, <2>3 DEF Pendentes
  <2>4. CASE Publicar \/ Rejeitar
    BY <2>4 DEF Publicar, Rejeitar, Judged, Said
  <2>5. CASE Reverter
    <3>1. earlier # <<>> /\ earlier' = Tail(earlier) /\ reading' = reading
      BY <2>5 DEF Reverter
    <3>2. Len(Tail(earlier)) = Len(earlier) - 1
      BY <2>1, <3>1
    <3> QED
      BY <2>1, <3>1, <3>2
  <2>6. CASE LibraryRestarts
    BY <2>6, LibraryAssumption DEF LibraryRestarts, Said
  <2>7. CASE UNCHANGED libraryVars
    BY <2>7 DEF libraryVars
  <2> QED
    BY <2>2, <2>3, <2>4, <2>5, <2>6, <2>7 DEF LibraryNext
<1>3. LibraryInv /\ Open => LibraryTypeOK
    BY DEF LibraryInv, Vetted, LibraryTypeOK
<1> QED
    BY <1>1, <1>2, <1>3, LibraryInvAlways, PTL DEF LibrarySpec

\* The storefront: nothing but goods is shown.
LEMMA ShopTypesAlways == ShopSpec => []ShopTypeOK
<1> DEFINE OnShelf == /\ \A p \in Goods : shelf[p].status \in {"draft", "published", "archived"}
                      /\ changes \in 0..MaxShelfChanges
<1>1. ShopInit => OnShelf
    BY StorefrontAssumption DEF ShopInit
<1>2. ShopInv /\ OnShelf /\ [ShopNext]_shopVars => OnShelf'
  <2> SUFFICES ASSUME ShopInv, OnShelf, [ShopNext]_shopVars PROVE OnShelf'
    OBVIOUS
  <2>1. ASSUME NEW p \in Goods, ChangeShelf(p) PROVE OnShelf'
    <3>1. changes' \in 0..MaxShelfChanges
      BY <2>1, StorefrontAssumption DEF ChangeShelf
    <3>2. /\ DOMAIN shelf = Goods /\ "status" \in DOMAIN shelf[p]
          /\ shelf' = [shelf EXCEPT ![p].status = IF @ = "published" THEN "archived" ELSE "published"]
      BY <2>1 DEF ShopInv, GoodShelf, ChangeShelf
    <3>3. shelf'[p].status \in {"archived", "published"} /\ \A q \in Goods : q # p => shelf'[q] = shelf[q]
      BY <3>2
    <3> QED
      BY <3>1, <3>3
  <2>2. CASE UNCHANGED <<shelf, changes>>
    BY <2>2
  <2> QED
    BY <2>1, <2>2 DEF ShopNext, shopVars, OpenProduct, OpenListing, CountHits, CountFuzzy, ReadPage,
       LeaveShop
<1>3. ShopInv /\ OnShelf => ShopTypeOK
  <2> SUFFICES ASSUME ShopInv, OnShelf PROVE ShopTypeOK
    OBVIOUS
  <2>1. \/ visitor = NoVisitor
        \/ visitor.step \in {"count", "fuzzy", "page", "read"} /\ visitor.seen \in Seq(Goods)
    BY DEF ShopInv, Listers, Onlookers
  <2>2. visitor.seen \in Seq(Goods) => ToSet(visitor.seen) \subseteq Goods
    <3> SUFFICES ASSUME NEW s \in Seq(Goods) PROVE ToSet(s) \subseteq Goods
      OBVIOUS
    <3>1. \A i \in DOMAIN s : s[i] \in Goods
      BY ElementOfSeq, LenProperties
    <3> QED
      BY <3>1 DEF ToSet
  <2> QED
    BY <2>1, <2>2 DEF ShopTypeOK, NoVisitor
<1> QED
    BY <1>1, <1>2, <1>3, ShopInvAlways, PTL DEF ShopSpec
-----------------------------------------------------------------------------
(* A sheet that is imported a second time *)

\* A row that was written as its sheet says is skipped: what it moved does not move again,
\* it is as far above its cost as it was, and there is nothing left to change.
LEMMA WrittenRowIsSkipped ==
    ASSUME NEW row, NEW q, NEW p, NEW profile,
           row.price \in Int, row.cost \in Int,
           Verdict(row, q, profile) \in {"create", "update"},
           ~row.others, row.status \in {"none", p.status}, p # Absent,
           row.price # None => p.price = row.price, row.stock # None => p.stock = row.stock,
           p.cost = IF row.cost # None THEN row.cost ELSE IF q = Absent THEN None ELSE q.cost
    PROVE  Verdict(row, p, profile) = "skip"
<1>1. row.category # "unknown"
    BY DEF Verdict
<1>2. ~(Has(row, "price") /\ MovesTooFar(row.price, p.price))
    BY DEF Has, MovesTooFar, DropLimit, RiseLimit
<1>3. ~BelowCost(row, p.cost, profile)
  <2>1. ~BelowCost(row, IF q = Absent THEN None ELSE q.cost, profile)
    BY DEF Verdict
  <2>2. (IF Has(row, "cost") THEN row.cost ELSE p.cost)
          = (IF Has(row, "cost") THEN row.cost ELSE IF q = Absent THEN None ELSE q.cost)
    BY DEF Has
  <2> QED
    BY <2>1, <2>2 DEF BelowCost
<1>4. ~Changes(row, p)
  <2>1. row["price"] # None => row["price"] = p["price"]
    OBVIOUS
  <2>2. row["stock"] # None => row["stock"] = p["stock"]
    OBVIOUS
  <2>3. row["cost"] # None => row["cost"] = p["cost"]
    OBVIOUS
  <2>4. \A f \in {"price", "cost", "stock"} : Has(row, f) => row[f] = p[f]
    BY <2>1, <2>2, <2>3 DEF Has
  <2> QED
    BY <2>4 DEF Changes
<1> QED
    BY <1>1, <1>2, <1>3, <1>4 DEF Verdict

\* "Rodar o mesmo arquivo duas vezes tem que dar o mesmo resultado" (pipeline.go:640): a row
\* that was committed on the product its writer had read is skipped when its sheet is planned
\* again, whatever the dry run had seen and whoever wrote to the product since.
THEOREM ReimportsChangeNothing == CatalogSpec => ReimportChangesNothing
<1> DEFINE A == \A h \in Hands :
                  /\ WriteRow(h) /\ MayPublish(Upserted(h)) /\ work[h].seen = product[work[h].sku]
                  /\ Verdict(RowOf(h), work[h].seen, ProfileOf(h)) \in {"create", "update"}
                  /\ ~RowOf(h).others /\ RowOf(h).status \in {"none", Upserted(h).status}
                  => Verdict(RowOf(h), product'[work[h].sku], ProfileOf(h)) = "skip"
<1>1. CatalogInv => A
  <2> SUFFICES ASSUME CatalogInv, NEW h \in Hands, WriteRow(h), MayPublish(Upserted(h)),
                      work[h].seen = product[work[h].sku],
                      Verdict(RowOf(h), work[h].seen, ProfileOf(h)) \in {"create", "update"},
                      ~RowOf(h).others, RowOf(h).status \in {"none", Upserted(h).status}
               PROVE  Verdict(RowOf(h), product'[work[h].sku], ProfileOf(h)) = "skip"
    OBVIOUS
  <2> DEFINE s == work[h].sku
             row == RowOf(h)
             q == product[s]
             p == Upserted(h)
  <2>1. work[h].job = "upsert" /\ \E booked : Write(h, s, p, booked)
    BY DEF WriteRow
  <2>2. /\ work[h].batch \in Batches /\ batch[work[h].batch].status # "none"
        /\ work[h].row \in DOMAIN batch[work[h].batch].sheet.rows
        /\ s = row.sku /\ s \in Skus
    <3>1. HandOK(work[h], batch, product)
      BY DEF CatalogInv, CatalogTypes
    <3>2. /\ AtRow(work[h], batch) /\ work[h].row # 0
          /\ s = batch[work[h].batch].sheet.rows[work[h].row].sku
      BY <2>1, <3>1 DEF HandOK, Resting
    <3> QED
      BY <3>2 DEF AtRow, RowOf
  <2>3. row.price \in Int /\ row.stock \in Int /\ row.cost \in Int
    <3>1. batch[work[h].batch].sheet \in Sheets
      BY <2>2 DEF CatalogInv, CatalogTypes, BatchOK, NoBatch, Planned
    <3> QED
      BY <2>2, <3>1, SheetsAreRows DEF RowOf
  <2>4. product'[s] = p
    BY <2>1, <2>2 DEF Write, CatalogInv, CatalogTypes
  <2>5. /\ p # Absent
        /\ row.price # None => p.price = row.price
        /\ row.stock # None => p.stock = row.stock
        /\ p.cost = IF row.cost # None THEN row.cost ELSE IF q = Absent THEN None ELSE q.cost
    <3> DEFINE eff == EffectiveStatus(row, q.status, ProfileOf(h))
               supplier == batch[work[h].batch].sheet.supplier
    <3>1. CASE q = Absent
      <4>1. p = [status |-> eff.status, reviewed |-> eff.reviewed, supplied |-> supplier,
                 price |-> Given(row.price, 0), cost |-> row.cost, stock |-> Given(row.stock, 0)]
        BY <2>2, <3>1 DEF Upserted
      <4> HIDE DEF p, eff, supplier, row
      <4>2. "price" \in DOMAIN p /\ "price" \notin DOMAIN Absent
        BY <4>1 DEF Absent
      <4> QED
        BY <3>1, <4>1, <4>2 DEF Given
    <3>2. CASE q # Absent
      <4> DEFINE keep == q.supplied \/ supplier
                 flag == Flag(q, eff)
      <4>1. p = [status |-> eff.status, reviewed |-> flag, supplied |-> keep,
                 price |-> Given(row.price, q.price), cost |-> Given(row.cost, q.cost),
                 stock |-> Given(row.stock, q.stock)]
        BY <2>2, <3>2 DEF Upserted
      <4> HIDE DEF p, eff, supplier, keep, flag, row
      <4>2. "price" \in DOMAIN p /\ "price" \notin DOMAIN Absent
        BY <4>1 DEF Absent
      <4> QED
        BY <3>2, <4>1, <4>2 DEF Given
    <3> QED
      BY <3>1, <3>2
  <2> HIDE DEF p, row
  <2>6. Verdict(row, q, ProfileOf(h)) \in {"create", "update"} /\ ~row.others
        /\ row.status \in {"none", p.status}
    BY DEF p, row
  <2>7. Verdict(row, p, ProfileOf(h)) = "skip"
    BY <2>3, <2>5, <2>6, WrittenRowIsSkipped
  <2> QED
    BY <2>4, <2>7 DEF row
<1>2. CatalogInv => [A]_catalogVars
    BY <1>1
<1>3. ReimportChangesNothing <=> [][A]_catalogVars
    BY DEF ReimportChangesNothing
<1> HIDE DEF A
<1> QED
    BY <1>2, <1>3, CatalogInvAlways, PTL
=============================================================================
