\* Two workers, two tables, an event that the vendor delivers again and again.
SPECIFICATION Spec
CONSTANTS
    Tables = {t1, t2}
    None = None
    Hooks <- OneArrival
    Workers = {w1, w2}
    MaxVersion = 4
SYMMETRY Interchangeable
INVARIANTS DeliveredOnce
PROPERTIES NoOverwrite
