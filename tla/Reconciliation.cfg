\* One run and one manual resolution over two rows and two Stripe customers,
\* disturbed by one write.
SPECIFICATION Spec
CONSTANTS
    MaxRows = 2
    Names = {n1}
    Emails = {e1, e2}
    StripeIds = {s1, s2}
    NoStripe = null
    NoRow = norow
    NoName = noname
    NoEmail = noemail
    NoCustomer = nocustomer
    Runs = {r1}
    Admins = {a1}
    Unknown = n1
    OptionSets = {{}, {"auto_resolve", "auto_sync_to_stripe"}, {"auto_sync_to_local"},
                  {"auto_resolve", "auto_sync_to_stripe", "auto_sync_to_local"}}
    ListLimits = {1, 2}
    MaxWrites = 1
INVARIANTS
    TypeOK
PROPERTIES
    NothingUnreported
    AutoResolvedIsDone
    ManualIsDone
    Additive
SYMMETRY Symmetry
CHECK_DEADLOCK FALSE
