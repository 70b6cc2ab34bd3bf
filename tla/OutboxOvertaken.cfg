\* One thread, two events of one customer, no halts.
SPECIFICATION Spec
CONSTANTS
    Procs = {p1}
    Tasks = {}
    Entities = {c1}
    NoEntity = none
    MaxEvents = 2
    BatchSize = 2
    MaxRetries = 2
    Poison <- NoPoison
    Lossy = FALSE
    MaxHalts = 0
INVARIANT
    OrderedByKey
