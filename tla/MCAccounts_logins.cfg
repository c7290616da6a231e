\* Two people, two requests at a time, a session and the one it is rotated into.
SPECIFICATION Spec
CONSTANTS
    p1 = p1
    p2 = p2
    People = {p1, p2}
    Founder = p1
    Nobody = Nobody
    Requests = {r1, r2}
    MaxRows = 2
    MaxSessions = 2
SYMMETRY Interchangeable
INVARIANTS InvitationHeld
