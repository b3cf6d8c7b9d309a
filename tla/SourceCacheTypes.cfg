CONSTANTS
    album = album
    bucket = bucket
    links = links
    blank = blank
    others = others
    api = api
    NoList = NoList
    Source = {s1}
    Worker = {w1}
    Config = {album, blank, others, api}
    Hollow = {blank}
    TypeOf <- MCTypeOf
    MaxGen = 1
SPECIFICATION FairSpec
INVARIANT OnlyGenuineLists
INVARIANT ApiIsLive
PROPERTY KeepsPromise
PROPERTY WorkEnds
