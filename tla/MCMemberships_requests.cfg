\* Two people, one location member, three requests at a time and as many connections.
SPECIFICATION Spec
CONSTANTS
    Users = {u1, u2}
    Staff = {s1}
    Requests = {r1, r2, r3}
    PoolSize = 3
SYMMETRY Interchangeable
INVARIANTS SomeoneGoesOn
