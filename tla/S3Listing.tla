------------------------------- MODULE S3Listing -------------------------------
(***************************************************************************)
(* S3Fetcher.FetchURLs: listObjects asks for page after page until one is  *)
(* not truncated, then convertObjectsToURLs keeps the objects the source   *)
(* is after. Version 2 goes on from the token of the last page, version 1  *)
(* from the last object of it. A page also counts the folders that the     *)
(* delimiter rolls up, which are no objects: version 1 asks for a page of  *)
(* folders alone again and again, until its context ends.                  *)
(*                                                                         *)
(* An entry is an object or such a folder. Entries are numbered in the     *)
(* order of their keys. They come and go while the listing runs.           *)
(***************************************************************************)
EXTENDS Lists

CONSTANTS
    Entries,       \* number of keys that the bucket may hold
    PageSize,      \* entries on a page
    MaxMoves       \* bound on the objects that come and go during a listing

ASSUME S3Sizes == Entries \in Nat /\ PageSize \in Nat \ {0} /\ MaxMoves \in Nat

VARIABLES
    shape,     \* what each key is
    bucket,    \* the keys that are there
    s3         \* the listing

Key == 1..Entries

\* "other": a folder's own object, or an extension that is not asked for.
Shapes == {"wanted", "other", "folder"}

\* after: the token or marker of the next page, 0 for none. steady is history:
\* the keys that have been there since the listing began; moves: changes since.
NoListing ==
    [pc |-> "idle", version |-> "v2", after |-> 0, objects |-> <<>>,
     urls |-> <<>>, steady |-> {}, moves |-> 0]

Objects == {k \in Key : shape[k] # "folder"}
Wanted == {k \in Key : shape[k] = "wanted"}

-----------------------------------------------------------------------------
(* The storage service.                                                    *)

Rest(k) == {i \in bucket : i > k}

PageAfter(k) == {i \in Rest(k) : Cardinality({j \in Rest(k) : j <= i}) <= PageSize}

Truncated(k) == Cardinality(Rest(k)) > PageSize

BucketChanges ==
    /\ s3.pc = "list" /\ s3.moves < MaxMoves
    /\ \E k \in Key :
           /\ bucket' = IF k \in bucket THEN bucket \ {k} ELSE bucket \cup {k}
           /\ s3' = [s3 EXCEPT !.steady = @ \ {k}, !.moves = @ + 1]
    /\ UNCHANGED shape

-----------------------------------------------------------------------------
(* The listing.                                                            *)

StartListing ==
    /\ s3.pc = "idle"
    /\ \E v \in {"v1", "v2"} :
           s3' = [NoListing EXCEPT !.pc = "list", !.version = v, !.steady = bucket]
    /\ UNCHANGED <<shape, bucket>>

\* Mutant: version 1 goes on from the page's first object.
MutAfterFirst(page) ==
    CASE s3.version = "v2" -> Max(page)
      [] s3.version = "v1" /\ page \cap Objects # {} -> Min(page \cap Objects)
      [] OTHER -> s3.after

\* The next token is that of the page's last entry.
After(page) ==
    CASE s3.version = "v2" -> Max(page)
      [] s3.version = "v1" /\ page \cap Objects # {} -> Max(page \cap Objects)
      [] OTHER -> s3.after

\* Pages are in the order of the keys.
ListPage ==
    /\ s3.pc = "list"
    /\ LET page == PageAfter(s3.after)
           all == s3.objects \o Select([k \in Key |-> k], page \cap Objects)
       IN  s3' = IF Truncated(s3.after)
                   THEN [s3 EXCEPT !.objects = all, !.after = After(page)]
                   ELSE [s3 EXCEPT !.objects = all, !.pc = "done",
                                   !.urls = Select(all, Wanted)]
    /\ UNCHANGED <<shape, bucket>>

\* A request fails, or the context ends, thirty seconds after the listing
\* began: what has been listed is thrown away.
ListFails ==
    /\ s3.pc = "list"
    /\ s3' = [s3 EXCEPT !.pc = "failed"]
    /\ UNCHANGED <<shape, bucket>>

ReturnListing ==
    /\ s3.pc \in {"done", "failed"}
    /\ s3' = NoListing
    /\ UNCHANGED <<shape, bucket>>

ListingStep == StartListing \/ ListPage \/ ReturnListing

S3Init ==
    /\ shape \in [Key -> Shapes]
    /\ bucket \in SUBSET Key
    /\ s3 = NoListing
=============================================================================
