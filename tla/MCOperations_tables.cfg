\* Seating and clearing two tables, with a reusable command id.
SPECIFICATION FairSpec
CONSTANTS
    Tables = {t1, t2}
    Sessions = {s1, s2}
    Assists = {}
    Actions = {x}
    Commands = {c1}
    MaxLag = 3
    Clients = {p1, p2}
    None = None
INVARIANTS OneActiveSession EventPerVersion AppliedOnce AnswersAgree
PROPERTIES ExpectedVersionHonoured CommandsEnd
