------------------------------ MODULE LankongFetch ------------------------------
(***************************************************************************)
(* LankongFetcher.FetchURLs: album by album, a first request learns the    *)
(* number of pages, and each page is then requested by its number, page 1  *)
(* again. A request is retried; a page that fails to the last retry is     *)
(* left out, an album whose first request does so is left out whole, and   *)
(* what has been collected is returned without an error.                   *)
(*                                                                         *)
(* Pages are slices of a list that people add to and take from meanwhile.  *)
(***************************************************************************)
EXTENDS Lists

CONSTANTS
    Image,         \* the images that albums hold
    Linked,        \* those that come with a URL
    Albums,        \* number of albums of the source
    PerPage,       \* images on a page
    MaxRetries,    \* retries of a request
    MaxChanges     \* bound on the images added and removed during a fetch

ASSUME ImageAssumption == IsFiniteSet(Image) /\ Linked \subseteq Image
ASSUME LankongSizes ==
    /\ Albums \in Nat \ {0} /\ PerPage \in Nat \ {0}
    /\ MaxRetries \in Nat /\ MaxChanges \in Nat

VARIABLES
    albums,    \* the images of each album, newest first
    lk         \* the fetch

\* attempt counts the retries of the current request. What follows last is
\* history: given: the albums when the fetch began; missed: the <<album, page>>
\* left out, page 0 for the first request; changes: to the albums since.
NoLankong ==
    [pc |-> "idle", album |-> 1, page |-> 0, attempt |-> 0, urls |-> <<>>,
     last |-> 0, given |-> albums, missed |-> {}, changes |-> 0]

Images(list) == {list[i] : i \in DOMAIN list}
WithLink(page) == Select(page, Linked)

-----------------------------------------------------------------------------
(* The image host. An album without images has one empty page.             *)

LastPage(list) ==
    IF list = <<>> THEN 1 ELSE (Len(list) + PerPage - 1) \div PerPage

PageOf(list, p) ==
    SubSeq(list, PerPage * (p - 1) + 1,
           IF PerPage * p < Len(list) THEN PerPage * p ELSE Len(list))

AlbumChanges ==
    /\ lk.pc \in {"first", "page"} /\ lk.changes < MaxChanges
    /\ \E a \in 1..Albums :
           \/ \E i \in Image :
                  /\ \A b \in 1..Albums : i \notin Images(albums[b]) \cup Images(lk.given[b])
                  /\ albums' = [albums EXCEPT ![a] = <<i>> \o @]
           \/ \E n \in DOMAIN albums[a] : albums' = [albums EXCEPT ![a] = RemoveAt(@, n)]
    /\ lk' = [lk EXCEPT !.changes = @ + 1]

-----------------------------------------------------------------------------
(* The fetch.                                                              *)

StartLankong ==
    /\ lk.pc = "idle"
    /\ lk' = [NoLankong EXCEPT !.pc = "first"]
    /\ UNCHANGED albums

\* To the next album, or to the end.
NextAlbum(f) ==
    IF f.album = Albums THEN [f EXCEPT !.pc = "done"]
    ELSE [f EXCEPT !.pc = "first", !.album = @ + 1, !.attempt = 0]

\* To the next page, or past the last.
NextPage(f) ==
    IF f.page = f.last THEN NextAlbum(f)
    ELSE [f EXCEPT !.page = @ + 1, !.attempt = 0]

\* Mutant: the page of the first request is not asked for again, nor kept.
MutFirstAnswersSkips ==
    /\ lk.pc = "first"
    /\ LET n == LastPage(albums[lk.album])
       IN  lk' = IF n = 1 THEN NextAlbum(lk)
                 ELSE [lk EXCEPT !.pc = "page", !.page = 2, !.attempt = 0, !.last = n]
    /\ UNCHANGED albums

FirstAnswers ==
    /\ lk.pc = "first"
    /\ lk' = [lk EXCEPT !.pc = "page", !.page = 1, !.attempt = 0,
                        !.last = LastPage(albums[lk.album])]
    /\ UNCHANGED albums

\* Mutant: an image that has been seen before is taken for the end.
MutPageAnswersStops ==
    /\ lk.pc = "page"
    /\ LET page == WithLink(PageOf(albums[lk.album], lk.page))
       IN  lk' = IF Images(page) \cap Images(lk.urls) # {} THEN NextAlbum(lk)
                 ELSE NextPage([lk EXCEPT !.urls = @ \o page])
    /\ UNCHANGED albums

PageAnswers ==
    /\ lk.pc = "page"
    /\ lk' = NextPage([lk EXCEPT
           !.urls = @ \o WithLink(PageOf(albums[lk.album], lk.page))])
    /\ UNCHANGED albums

\* Mutant: the count of retries starts again before it is used up.
MutRequestFailsForever ==
    /\ lk.pc \in {"first", "page"}
    /\ lk' = [lk EXCEPT !.attempt = (@ + 1) % (MaxRetries + 1)]
    /\ UNCHANGED albums

\* fetchPageWithRetry: a rate limit only waits longer.
RequestFails ==
    /\ lk.pc \in {"first", "page"}
    /\ LET miss(p) == [lk EXCEPT !.missed = @ \cup {<<lk.album, p>>}]
       IN  lk' = CASE lk.attempt < MaxRetries -> [lk EXCEPT !.attempt = @ + 1]
                   [] lk.attempt = MaxRetries /\ lk.pc = "first" -> NextAlbum(miss(0))
                   [] OTHER -> NextPage(miss(lk.page))
    /\ UNCHANGED albums

ReturnLankong ==
    /\ lk.pc = "done"
    /\ lk' = NoLankong
    /\ UNCHANGED albums

LankongStep ==
    StartLankong \/ FirstAnswers \/ PageAnswers \/ RequestFails \/ ReturnLankong

\* An image is in one place.
LankongInit ==
    /\ albums \in [1..Albums -> UNION {[1..n -> Image] : n \in 0..Cardinality(Image)}]
    /\ \A a, b \in 1..Albums : \A n \in DOMAIN albums[a], m \in DOMAIN albums[b] :
           albums[a][n] = albums[b][m] => a = b /\ n = m
    /\ lk = NoLankong

-----------------------------------------------------------------------------
(* The reference for a fetch f: what the albums held, page by page but for *)
(* those missed.                                                           *)

PagesTo(f, a, n) ==
    FlattenSeq([p \in 1..n |-> IF <<a, p>> \in f.missed THEN <<>>
                                ELSE WithLink(PageOf(f.given[a], p))])

AlbumsTo(f, n) ==
    FlattenSeq([a \in 1..n |-> IF <<a, 0>> \in f.missed THEN <<>>
                                ELSE PagesTo(f, a, LastPage(f.given[a]))])

\* Images that were there when the fetch began and still are.
Steady ==
    Linked \cap UNION {Images(lk.given[a]) \cap Images(albums[a]) : a \in 1..Albums}
=============================================================================
