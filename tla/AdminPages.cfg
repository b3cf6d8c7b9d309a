CONSTANTS
    Domain = {shop, blog, direct}
    Placeholder = {direct}
    Admin = {a1, a2}
    Blank = Blank
    Text = {t1, t2}
    OneText = {t1}
    Name = {e1}
    Body = {b1}
    NoLinks = NoLinks
    Owner = {e1, e2}
    Everyone = Everyone
    Nobody = Nobody
    Key = {k1, k2, padded}
    Padded = padded
    Name1 = k1
    Trim <- MCTrim
    Intro = Intro
    Path = {p1, p2}
    Rankings = {day, total}
    Ranges = {r1, r2}
    Days = {d1, d2}
    Tab = {x, y}
    MaxRecords = 3
    MaxSources = 2
    MaxRows = 2
    MaxAttempts = 2
    MaxInFlight = 2
    Commands <- MCCommands
SPECIFICATION Spec
CHECK_DEADLOCK FALSE
INVARIANT TypeOK
INVARIANT PlaceholdersPass
INVARIANT TablesAreStored
INVARIANT DropsStick
INVARIANT WindowsAreChosen
INVARIANT FormShowsText
INVARIANT CacheIsStored
INVARIANT TypedTextStays
INVARIANT HomeIsComplete
INVARIANT LoginIsKept
PROPERTY CallsAloneSync
PROPERTY UntouchedFieldsStay
PROPERTY OtherHeadersStay
