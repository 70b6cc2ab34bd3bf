\* Three requests over two rows, one of which may fail anywhere.
SPECIFICATION Spec
CONSTANTS
    Requests = {r1, r2, r3}
    MaxRows = 2
    Names = {n1, n2}
    Emails = {e1, e2}
    StripeIds = {s1}
    NoStripe = null
    NoRow = norow
    MaxFails = 1
SYMMETRY Symmetry
INVARIANTS
    TypeOK
    AckedIsAnnounced
    FinalStateAnnounced
    LastEventTells
