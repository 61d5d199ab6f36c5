SPECIFICATION ExecutorSpec
CONSTANTS
    Transactions = {t1}
    Callbacks = {c1, c2}
    Checks = {k1}
    NoPayment = NoPayment
    NoDelivery = NoDelivery
    NoCheck = NoCheck
    Free = Free
    CallbackSpelling <- FinalWords
    QuerySpelling <- QueryWords
    MayOmit = FALSE
    Unreliable = TRUE
    Signatures = {TRUE, FALSE}
    LeaseOutlivesHandler = FALSE
SYMMETRY Symmetric
INVARIANTS
    FailureIsTrue
    SettledByTheHub
    FinalHubInv
PROPERTIES
    FinalIsStable
    FollowsTheHub
CHECK_DEADLOCK FALSE
