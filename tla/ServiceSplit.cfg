\* One request, which may fail anywhere.
SPECIFICATION Spec
CONSTANTS
    Requests = {r1}
    MaxRows = 1
    Names = {n1}
    Emails = {e1}
    StripeIds = {}
    NoStripe = null
    NoRow = norow
    MaxFails = 1
INVARIANT
    CommittedTogether
