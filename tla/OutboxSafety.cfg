\* Two threads and one admin task over two events of one customer.
SPECIFICATION Spec
CONSTANTS
    Procs = {p1, p2}
    Tasks = {t1}
    Entities = {c1}
    NoEntity = none
    MaxEvents = 2
    BatchSize = 2
    MaxRetries = 2
    Poison <- NoPoison
    Lossy = FALSE
    MaxHalts = 1
SYMMETRY Symmetry
INVARIANTS
    TypeOK
    NoEventLost
    RetryNeverAhead
    DeadLetterOnlyExhausted
    PublishedInOrder
    BoundedDuplication
PROPERTY
    RefinesRelay
