\* Two customers, three records, two faults; a client may name the first customer
\* the worker makes, and another's.
SPECIFICATION LiveSpec
CONSTANTS
    MaxRows = 2
    Names = {n1}
    Emails = {e1, e2}
    StripeIds <- SomeIds
    NoStripe = null
    NoRow = norow
    NoCustomer = nobody
    MaxMessages = 3
    MaxAttempts = 2
    Named <- NamedIds
    Foreign <- Others
    MaxFaults = 2
INVARIANTS
    TypeOK
    NothingSkipped
    LinkIsReal
    BoundedCopies
    QuietMirror
PROPERTIES
    EveryEventHandled
    RefinesConsumer
