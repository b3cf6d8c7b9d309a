---------------------------- MODULE MCSourceCache ----------------------------
(* Instances of SourceCache for TLC. A configuration is named for the type  *)
(* it stands for; album and bucket are two remote ones, blank a manual one  *)
(* without a URL.                                                          *)
EXTENDS SourceCache, TLC

CONSTANTS album, bucket, links, blank, others, api

MCTypeOf ==
    [c \in Config |->
        CASE c \in {album, bucket} -> "remote"
          [] c \in {links, blank}  -> "manual"
          [] c = others            -> "endpoint"
          [] c = api               -> "api"]

Slots == Permutations(Worker)
=============================================================================
