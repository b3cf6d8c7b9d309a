CONSTANTS
    album = album
    bucket = bucket
    links = links
    blank = blank
    others = others
    api = api
    NoList = NoList
    Source = {s1}
    Worker = {w1}
    Config = {links, album}
    Hollow = {}
    TypeOf <- MCTypeOf
    MaxGen = 0
SPECIFICATION Spec
INVARIANT PreloadsFetch
