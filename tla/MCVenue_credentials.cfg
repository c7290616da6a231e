\* Two clients, two devices and a pairing code, two QR capabilities; every item
\* may be changed once after it was created.
SPECIFICATION Spec
CONSTANTS
    Requests = {r1, r2}
    Devices = {d1, d2}
    Codes = {c1}
    None = None
    MaxQR = 2
    MaxVersion = 2
SYMMETRY Interchangeable
INVARIANTS PairOnce
PROPERTIES RevokedIsOut NoLostEdit
