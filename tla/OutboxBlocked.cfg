\* As many events that Kafka never takes as a batch holds.
SPECIFICATION LiveSpec
CONSTANTS
    Procs = {p1}
    Tasks = {t1}
    Entities = {c1}
    NoEntity = none
    MaxEvents = 2
    BatchSize = 1
    MaxRetries = 2
    Poison <- OnePoison
    Lossy = FALSE
    MaxHalts = 0
PROPERTY
    FailuresDoNotBlock
