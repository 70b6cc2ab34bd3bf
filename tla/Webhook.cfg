\* Two replicas over two rows and two Stripe customers.
SPECIFICATION Spec
CONSTANTS
    MaxRows = 2
    Names = {n1, noname}
    Emails = {e1, e2}
    StripeIds = {s1, s2}
    NoStripe = null
    NoRow = norow
    NoName = noname
    NoEmail = noemail
    Handlers = {h1, h2}
    Strategies = {"flag", "reject", "merge"}
    MaxEvents = 2
    MaxWrites = 1
INVARIANTS
    TypeOK
    OrderlyMirror
    BoundedPending
PROPERTIES
    NamedRepeatsNothing
    LinkKept
    EmailKept
SYMMETRY Symmetry
CHECK_DEADLOCK FALSE
