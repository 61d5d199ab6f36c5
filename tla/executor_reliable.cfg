SPECIFICATION FairExecutorSpec
CONSTANTS
    Transactions = {t1}
    Callbacks = {c1, c2}
    Checks = {k1, k2}
    NoPayment = NoPayment
    NoDelivery = NoDelivery
    NoCheck = NoCheck
    Free = Free
    CallbackSpelling <- FinalWords
    QuerySpelling <- QueryWords
    MayOmit = FALSE
    Unreliable = FALSE
    Signatures = {TRUE}
    LeaseOutlivesHandler = TRUE
PROPERTIES
    DeliverySettles
    FinalIsAnnounced
    CheckCatchesUp
CHECK_DEADLOCK FALSE
