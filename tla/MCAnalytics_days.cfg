\* The last instant of a day and the first of the next, in a timezone west of UTC.
SPECIFICATION AnalyticsSpec
CONSTANTS
    Tables = {t1}
    Sessions = {s1}
    Assists = {a1}
    TableOf <- OneTable
    Periods <- Overnight
    Workers = {w1, w2}
    DayTicks = 2
    Offset <- West
    Lag = 1
    FirstTick = 3
    LastTick = 4
    MaxCommits = 2
    MaxChanges = 2
SYMMETRY Interchangeable
INVARIANTS ProjectionCurrent
