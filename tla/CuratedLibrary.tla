--------------------------- MODULE CuratedLibrary ---------------------------
(***************************************************************************)
(* The documents Alice may cite (assistant-service/internal/ingest): one   *)
(* document, from a registered source, through staging, a reviewer's       *)
(* verdict, a new version, and the way back.  The reviewer lists what is   *)
(* pending, reads it, and gives the verdict later, by the document's id.   *)
(*                                                                         *)
(* Left out: titles, dates, hashes, the refusal of an empty document or of *)
(* a source nobody registered, and how a search matches words.             *)
(***************************************************************************)
EXTENDS Naturals, Sequences

CONSTANTS
    Texts,        \* what a document may say
    MaxVersions   \* bound: versions kept in the history
ASSUME LibraryAssumption == MaxVersions \in Nat

VARIABLES
    page,      \* the document: its text and status
    earlier,   \* its versions before, the last one first
    reading,   \* the text the reviewer has open, or NoText
    read,      \* every text a reviewer read before a verdict (history)
    overtaken      \* a verdict fell on another text than the one read (history)
libraryVars == <<page, earlier, reading, read, overtaken>>

NoText == "none"
NoPage == [text |-> NoText, status |-> "absent"]

LibraryInit ==
    page = NoPage /\ earlier = <<>> /\ reading = NoText /\ read = {} /\ overtaken = FALSE

\* Sanitizar: an order to the model is neutralised where a pattern knows it, and then
\* what nobody can see is taken out: an order broken up by it ("hidden") comes out whole.
\* An order no pattern knows is a text like any other.
Sanitizar(text) ==
    CASE text = "order" -> "neutralised"
      [] text = "hidden" -> "order"
      [] OTHER -> text

\* Mutant: a new version of a published document goes on being published.
StatusKept(text) ==
    [text |-> Sanitizar(text), status |-> IF page = NoPage THEN "staging" ELSE page.status]
\* Ingerir: staging, whatever the version before was.
Staged(text) == [text |-> Sanitizar(text), status |-> "staging"]

Ingerir(text) ==
    /\ Len(earlier) < MaxVersions
    /\ page' = Staged(text)
    /\ earlier' = IF page = NoPage THEN earlier ELSE <<page>> \o earlier
    /\ UNCHANGED <<reading, read, overtaken>>

\* Pendentes: the reviewer opens what waits for a verdict.
Pendentes ==
    /\ page.status = "staging" /\ reading = NoText
    /\ reading' = page.text
    /\ read' = read \union {page.text}
    /\ UNCHANGED <<page, earlier, overtaken>>

\* Publicar and Rejeitar: by id, on the text that is there now, whatever its status.
Judged(status) ==
    /\ reading # NoText /\ page # NoPage
    /\ page' = [page EXCEPT !.status = status]
    /\ reading' = NoText
    /\ overtaken' = (overtaken \/ page.text # reading)
    /\ UNCHANGED <<earlier, read>>
Publicar == Judged("published")
Rejeitar == Judged("rejected")

\* Reverter: the version before, with the status it had.
Reverter ==
    /\ earlier # <<>>
    /\ page' = Head(earlier) /\ earlier' = Tail(earlier)
    /\ UNCHANGED <<reading, read, overtaken>>

\* Everything is in memory: a restart leaves nothing to review or to cite.
LibraryRestarts ==
    /\ page # NoPage
    /\ page' = NoPage /\ earlier' = <<>> /\ reading' = NoText
    /\ UNCHANGED <<read, overtaken>>

\* Buscar: the published texts, what ParaModelo fences and labels for the model.
Buscar == {v.text : v \in {w \in {page} : w.status = "published"}}

LibraryNext ==
    \/ \E text \in Texts : Ingerir(text)
    \/ Pendentes \/ Publicar \/ Rejeitar \/ Reverter \/ LibraryRestarts

LibrarySpec == LibraryInit /\ [][LibraryNext]_libraryVars
-----------------------------------------------------------------------------
\* What a page may say once it was sanitised.
Said == Texts \union {"neutralised", "order", NoText}
Version == [text : Said,
            status : {"absent", "staging", "published", "rejected"}]
LibraryTypeOK ==
    /\ page \in Version /\ earlier \in Seq(Version) /\ Len(earlier) <= MaxVersions
    /\ reading \in Said /\ overtaken \in BOOLEAN

\* "Staging nunca chega à Alice": through any number of versions and returns, every
\* text she can cite is one a reviewer had open, as she cites it: what the sanitizer
\* let through was seen by a person.  Only a new version slipped in between the
\* reading and the verdict is published unread.
OnlyReadPagesAreCited == overtaken \/ Buscar \subseteq read
=============================================================================
