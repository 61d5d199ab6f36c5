SPECIFICATION ExecutorSpec
CONSTANTS
    Transactions = {t1}
    Callbacks = {c1, c2}
    Checks = {k1}
    NoPayment = NoPayment
    NoDelivery = NoDelivery
    NoCheck = NoCheck
    Free = Free
    CallbackSpelling <- AnyWords
    QuerySpelling <- AnyQueryWords
    MayOmit = TRUE
    Unreliable = TRUE
    Signatures = {TRUE, FALSE}
    LeaseOutlivesHandler = FALSE
SYMMETRY Symmetric
INVARIANTS
    ExecutorTypeOK
    AnnouncedWasRecorded
    RowIsTrue
    SuccessIsTrue
    ExecutorInv
CHECK_DEADLOCK FALSE
