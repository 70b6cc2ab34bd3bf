\* One customer created, its event delivered again after a crash.
SPECIFICATION Spec
CONSTANTS
    MaxRows = 1
    Names = {n1}
    Emails = {e1}
    StripeIds <- SomeIds
    NoStripe = null
    NoRow = norow
    NoCustomer = nobody
    MaxMessages = 2
    MaxAttempts = 2
    Named <- NamedIds
    Foreign <- Others
    MaxFaults = 1
INVARIANT
    SafeToReplay
