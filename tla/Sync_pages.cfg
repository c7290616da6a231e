\* Two tables and an assist; a reader that keeps asking for pages of one event.
SPECIFICATION FairSpec
CONSTANTS
    Tables = {t1, t2}
    Assists = {a1}
    Limit = 1
    MaxStamp = 4
    MaxLate = 0
INVARIANTS CursorIsComplete
PROPERTIES CursorNeverGoesBack TablesNeverGoBack CatchesUp
