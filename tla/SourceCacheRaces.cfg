CONSTANTS
    album = album
    bucket = bucket
    links = links
    blank = blank
    others = others
    api = api
    NoList = NoList
    Source = {s1}
    Worker = {w1, w2}
    Config = {album}
    Hollow = {}
    TypeOf <- MCTypeOf
    MaxGen = 1
SPECIFICATION Spec
SYMMETRY Slots
INVARIANT TypeOK
INVARIANT RefreshIsNew
INVARIANT CachedNeverFails
PROPERTY JobsWriteOnlyLastSync
