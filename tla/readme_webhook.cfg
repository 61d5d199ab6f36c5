SPECIFICATION Spec
CONSTANTS
    Transactions = {t1}
    Callbacks = {c1, c2}
    Checks = {}
    NoPayment = NoPayment
    NoDelivery = NoDelivery
    Free = Free
    CallbackSpelling <- ReadmeWords
    QuerySpelling <- QueryWords
    MayOmit = FALSE
    Unreliable = FALSE
    Signatures = {TRUE}
    LeaseOutlivesHandler = TRUE
INVARIANTS
    FailureIsTrue
CHECK_DEADLOCK FALSE
