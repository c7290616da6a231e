\* Two assists over two parties at one table.
SPECIFICATION Spec
CONSTANTS
    Tables = {t1}
    Sessions = {s1, s2}
    Assists = {a1, a2}
    Actions = {x}
    Commands = {}
    MaxLag = 0
    Clients = {p1, p2}
    None = None
SYMMETRY Symmetry
INVARIANTS TypeOK OnePendingPerAction GuestAssistHasSession
PROPERTIES ImplementsFloor
