\* One thread, one task, two events; Kafka never takes the oldest.
SPECIFICATION LiveSpec
CONSTANTS
    Procs = {p1}
    Tasks = {t1}
    Entities = {c1}
    NoEntity = none
    MaxEvents = 2
    BatchSize = 2
    MaxRetries = 2
    Poison <- OnePoison
    Lossy = TRUE
    MaxHalts = 2
PROPERTY
    NoEventStuck
