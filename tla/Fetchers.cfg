CONSTANTS
    Image = {i1, i2, i3, i4}
    Linked = {i1, i2, i3}
    Albums = 2
    PerPage = 1
    MaxRetries = 1
    MaxChanges = 2
    Entries = 4
    PageSize = 2
    MaxMoves = 2
SPECIFICATION FetchSpec
INVARIANT AlbumsAreFound
INVARIANT ListingsAreComplete
PROPERTY FetchesEnd
