\* One handler, one event without a name, delivered twice.
SPECIFICATION Spec
CONSTANTS
    MaxRows = 1
    Names = {n1, noname}
    Emails = {e1}
    StripeIds = {s1}
    NoStripe = null
    NoRow = norow
    NoName = noname
    NoEmail = noemail
    Handlers = {h1}
    Strategies = {"flag"}
    MaxEvents = 1
    MaxWrites = 1
PROPERTY
    SafeToRepeat
CHECK_DEADLOCK FALSE
