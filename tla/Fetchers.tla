-------------------------------- MODULE Fetchers --------------------------------
(***************************************************************************)
(* The two fetchers that page through an upstream, as FetchURLsWithOptions *)
(* calls them by the type of the data source. A source has one type; its   *)
(* fetches follow each other, and what they return is all that SourceCache *)
(* gets to see: a list with content, nothing, or an error.                 *)
(***************************************************************************)
EXTENDS LankongFetch, S3Listing

VARIABLE type    \* the type of the data source

lankongVars == <<albums, lk>>
s3Vars == <<shape, bucket, s3>>
fetchVars == <<lankongVars, s3Vars, type>>

\* The upstream of the other type is left empty.
FetchInit ==
    \/ /\ type = "lankong"
       /\ LankongInit
       /\ shape = [k \in Key |-> "wanted"] /\ bucket = {} /\ s3 = NoListing
    \/ /\ type = "s3"
       /\ S3Init
       /\ albums = [a \in 1..Albums |-> <<>>] /\ lk = NoLankong

Lankong == type = "lankong" /\ LankongStep /\ UNCHANGED <<s3Vars, type>>
S3 == type = "s3" /\ ListingStep /\ UNCHANGED <<lankongVars, type>>
S3Fails == type = "s3" /\ ListFails /\ UNCHANGED <<lankongVars, type>>
Upstream ==
    \/ type = "lankong" /\ AlbumChanges /\ UNCHANGED <<s3Vars, type>>
    \/ type = "s3" /\ BucketChanges /\ UNCHANGED <<lankongVars, type>>

FetchNext == Lankong \/ S3 \/ S3Fails \/ Upstream

\* The fetchers run, and the context of a listing that does not end by itself
\* ends when its time has come. Nothing makes a request succeed.
FetchSpec ==
    /\ FetchInit /\ [][FetchNext]_fetchVars
    /\ WF_fetchVars(Lankong) /\ WF_fetchVars(S3) /\ WF_fetchVars(S3Fails)

-----------------------------------------------------------------------------
(* Properties.                                                             *)

\* Of albums that stay as they are, a fetch returns every image with a link,
\* each once and in order, except for the pages that failed to the last retry.
\* Pages shift under a fetch when images come or go, and the number of pages
\* is from before: an image that was there all the time may be lost by that,
\* but no more of them than there were changes.
AlbumsAreFound ==
    lk.pc = "done" =>
        /\ lk.changes = 0 => lk.urls = AlbumsTo(lk, Albums)
        /\ lk.missed = {} => Cardinality(Steady \ Images(lk.urls)) <= lk.changes

\* A listing that succeeds has every wanted object that was there all the
\* time, and none twice, whichever others came and went and however folders
\* lie between them: both versions go on from a key, not from a position.
ListingsAreComplete ==
    s3.pc = "done" =>
        /\ \A k \in s3.steady \cap Wanted : \E i \in DOMAIN s3.urls : s3.urls[i] = k
        /\ \A i, j \in DOMAIN s3.urls : i < j => s3.urls[i] < s3.urls[j]

\* Every fetch ends: retries are bounded, and a listing that asks for a page
\* of folders again and again has its deadline.
FetchesEnd ==
    /\ (lk.pc # "idle") ~> (lk.pc = "idle")
    /\ (s3.pc # "idle") ~> (s3.pc = "idle")
=============================================================================
