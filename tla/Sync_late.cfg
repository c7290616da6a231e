\* An event commits behind one that was stamped later.
SPECIFICATION Spec
CONSTANTS
    Tables = {t1, t2}
    Assists = {}
    Limit = 2
    MaxStamp = 4
    MaxLate = 1
INVARIANTS CursorIsComplete
