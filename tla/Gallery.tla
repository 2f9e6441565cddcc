-------------------------------- MODULE Gallery --------------------------------
(* The photos of one product: upload, order, cover and removal                  *)
(* (handler/product_image_upload.go), the renditions made of a file              *)
(* (imaging/normalize.go) and the objects they are stored as (internal/storage). *)
(* The key of an object comes from the hash of the file, so every upload of the  *)
(* same file writes, and every cleanup deletes, the same objects.               *)
(* Stored objects and rows change in different steps, each of which may be the   *)
(* last. The entry of the audit trail that ends each handler is left out, and so *)
(* are pictures given by their URL (AddImage and the two imports), which have no *)
(* objects and take place 0, or any place, without the lock.                    *)
EXTENDS Integers, Sequences, FiniteSets, FiniteSetsExt

CONSTANTS Photos,       \* files by their hash
          FileOf,       \* what a file is: genuine, width, height
          PhotoHands,   \* requests being handled
          MaxImages,    \* maxImagesPerProduct
          MaxGalleryAsks

ASSUME GalleryAssumption ==
    /\ \A p \in Photos : FileOf[p].width \in Nat /\ FileOf[p].height \in Nat
    /\ MaxImages \in Nat /\ MaxGalleryAsks \in Nat

VARIABLES gallery,   \* product_images of the product, by the hash of the file
          objects,   \* the renditions stored of each file
          editor,    \* what each request is at
          doubtful,  \* files that two requests dealt with at once, or whose commit got no answer
          arranged,  \* someone chose an order or a cover
          asks

galleryVars == <<gallery, objects, editor, doubtful, arranged, asks>>

Unlisted == [listed |-> FALSE]
Free == [step |-> "idle"]
Listed == {p \in Photos : gallery[p].listed}
GalleryInit ==
    /\ gallery = [p \in Photos |-> Unlisted] /\ objects = [p \in Photos |-> {}]
    /\ editor = [h \in PhotoHands |-> Free]
    /\ doubtful = {} /\ arranged = FALSE /\ asks = 0
-----------------------------------------------------------------------------
(* Normalize: thumb, medium and large, squares of these sides.                  *)
Sides == <<300, 800, 1600>>
Longest(p) == IF FileOf[p].width > FileOf[p].height THEN FileOf[p].width ELSE FileOf[p].height
RefusedFile(p) == \/ ~FileOf[p].genuine \/ Longest(p) \notin 200..12000
              \/ FileOf[p].width * FileOf[p].height > 50000000
(* A rendition larger than the file is not made, except the first; its name      *)
(* stands for the largest there is.                                             *)
Renditions(p) == {i \in DOMAIN Sides : i = 1 \/ Sides[i] <= Longest(p)}
Variants(p) == [v \in DOMAIN Sides |-> Max({i \in Renditions(p) : i <= v})]

Work(h, step, p) == [editor EXCEPT ![h] = [step |-> step, photo |-> p, written |-> {}, pos |-> 0]]
Begin(h, step, p) ==
    /\ editor[h].step = "idle" /\ asks < MaxGalleryAsks /\ asks' = asks + 1
    /\ editor' = Work(h, step, p)
    /\ doubtful' = IF \E k \in PhotoHands : editor[k].step # "idle" /\ editor[k].photo = p
                   THEN doubtful \union {p} ELSE doubtful
Goto(h, step) == editor' = [editor EXCEPT ![h].step = step]
Done(h) == editor' = [editor EXCEPT ![h] = Free]

(* The store: an object is there whole or not at all. *)
StorePut(p, i) == objects' = [objects EXCEPT ![p] = @ \union {i}]
(* Each deletion may fail, and is left at that. *)
StoreDelete(p, keys) == \E gone \in SUBSET keys : objects' = [objects EXCEPT ![p] = @ \ gone]

(* Upload: the limit is looked at before anything is stored. *)
Upload(h, p) ==
    /\ Cardinality(Listed) + 1 <= MaxImages /\ ~RefusedFile(p)
    /\ Begin(h, "look", p)
    /\ UNCHANGED <<gallery, objects, arranged>>
(* findByChecksum: a file already there is answered, not stored again. *)
FindByChecksum(h) ==
    /\ editor[h].step = "look"
    /\ IF gallery[editor[h].photo].listed THEN Done(h) ELSE Goto(h, "put")
    /\ UNCHANGED <<gallery, objects, doubtful, arranged, asks>>
Put(h) ==
    /\ editor[h].step = "put"
    /\ LET p == editor[h].photo
           left == Renditions(p) \ editor[h].written
       IN IF left = {} THEN Goto(h, "lock") /\ UNCHANGED objects
          ELSE /\ StorePut(p, Min(left))
               /\ editor' = [editor EXCEPT ![h].written = @ \union {Min(left)}]
    /\ UNCHANGED <<gallery, doubtful, arranged, asks>>
Fail(h) ==
    /\ editor[h].step \in {"put", "lock", "insert"} /\ Goto(h, "undo")
    /\ UNCHANGED <<gallery, objects, doubtful, arranged, asks>>
(* rollback of processOne deletes what this request wrote. *)
Undo(h) ==
    /\ editor[h].step = "undo"
    /\ StoreDelete(editor[h].photo, editor[h].written)
    /\ Done(h)
    /\ UNCHANGED <<gallery, doubtful, arranged, asks>>

NextPosition == IF Listed = {} THEN 0 ELSE Max({gallery[p].pos : p \in Listed}) + 1
\* Mutant: the position is read without the lock.
PositionUnlocked(h) ==
    /\ editor[h].step = "lock"
    /\ editor' = [editor EXCEPT ![h].step = "insert", ![h].pos = NextPosition]
    /\ UNCHANGED <<gallery, objects, doubtful, arranged, asks>>
(* The advisory lock of the product makes one upload at a time read the next     *)
(* position and insert.                                                         *)
LockGallery(h) ==
    /\ editor[h].step = "lock" /\ \A k \in PhotoHands : editor[k].step # "insert"
    /\ editor' = [editor EXCEPT ![h].step = "insert", ![h].pos = NextPosition]
    /\ UNCHANGED <<gallery, objects, doubtful, arranged, asks>>
(* ON CONFLICT DO NOTHING: who comes second leaves the row and the objects of   *)
(* the first. A commit whose answer is lost is taken for a failure.             *)
InsertPhoto(h, answered) ==
    /\ editor[h].step = "insert"
    /\ LET p == editor[h].photo
       IN IF gallery[p].listed
          THEN Done(h) /\ UNCHANGED <<gallery, doubtful>>
          ELSE /\ gallery' = [gallery EXCEPT ![p] = [listed |-> TRUE, pos |-> editor[h].pos,
                                                     variants |-> Variants(p)]]
               /\ IF answered THEN Done(h) /\ UNCHANGED doubtful
                  ELSE Goto(h, "undo") /\ doubtful' = doubtful \union {p}
    /\ UNCHANGED <<objects, arranged, asks>>

(* Delete: the row, and only then the objects it names. *)
DeletePhoto(h, p) ==
    /\ gallery[p].listed
    /\ Begin(h, "objects", p)
    /\ gallery' = [gallery EXCEPT ![p] = Unlisted]
    /\ UNCHANGED <<objects, arranged>>
DeleteObjects(h) ==
    /\ editor[h].step = "objects"
    /\ StoreDelete(editor[h].photo, Renditions(editor[h].photo))
    /\ Done(h)
    /\ UNCHANGED <<gallery, doubtful, arranged, asks>>

(* Reorder takes any list of photos of the product, also one that leaves some   *)
(* out; SetCover moves every other one up. The rows they write stay locked to   *)
(* the commit.                                                                  *)
Reorder(list) ==
    /\ asks < MaxGalleryAsks /\ asks' = asks + 1
    /\ list # << >> /\ \A i \in DOMAIN list : gallery[list[i]].listed
    /\ gallery' = [p \in Photos |->
         LET places == {i \in DOMAIN list : list[i] = p}
         IN IF places = {} THEN gallery[p] ELSE [gallery[p] EXCEPT !.pos = Max(places) - 1]]
    /\ arranged' = TRUE
    /\ UNCHANGED <<objects, editor, doubtful>>
SetCover(p) ==
    /\ asks < MaxGalleryAsks /\ asks' = asks + 1 /\ gallery[p].listed
    /\ gallery' = [q \in Photos |-> IF ~gallery[q].listed THEN gallery[q]
                                    ELSE IF q = p THEN [gallery[q] EXCEPT !.pos = 0]
                                    ELSE [gallery[q] EXCEPT !.pos = @ + 1]]
    /\ arranged' = TRUE
    /\ UNCHANGED <<objects, editor, doubtful>>

(* The process ends: what was stored stays, an open transaction does not. *)
StopUpload(h) == /\ editor[h].step # "idle" /\ Done(h)
                 /\ UNCHANGED <<gallery, objects, doubtful, arranged, asks>>

GalleryNext ==
    \/ \E h \in PhotoHands :
         \/ \E p \in Photos : Upload(h, p) \/ DeletePhoto(h, p)
         \/ FindByChecksum(h) \/ Put(h) \/ Fail(h) \/ Undo(h) \/ LockGallery(h)
         \/ \E answered \in BOOLEAN : InsertPhoto(h, answered)
         \/ DeleteObjects(h) \/ StopUpload(h)
    \/ \E p \in Photos : SetCover(p) \/ Reorder(<<p>>) \/ \E q \in Photos \ {p} : Reorder(<<p, q>>)
GallerySpec == GalleryInit /\ [][GalleryNext]_galleryVars
-----------------------------------------------------------------------------
(* Every variable holds a value of its kind. *)
GalleryTypeOK ==
    /\ \A p \in Photos : gallery[p].listed \in BOOLEAN /\ objects[p] \subseteq DOMAIN Sides
    /\ \A h \in PhotoHands : editor[h].step \in {"idle", "look", "put", "lock", "insert", "undo",
                                                 "objects"}
    /\ doubtful \subseteq Photos /\ arranged \in BOOLEAN /\ asks \in 0..MaxGalleryAsks

(* Every photo on show can be drawn: the objects its row names are stored, after *)
(* any failure and any crash, unless two requests dealt with the same file at    *)
(* the same time or a commit got no answer. And as long as nobody arranged them, *)
(* no two uploads claim the same place, so that the cover is not a matter of     *)
(* chance among them.                                                           *)
EveryPhotoCanBeDrawn ==
    /\ \A p \in Listed \ doubtful : \A v \in DOMAIN Sides : gallery[p].variants[v] \in objects[p]
    /\ ~arranged => \A p, q \in Listed : p # q => gallery[p].pos # gallery[q].pos
=============================================================================
