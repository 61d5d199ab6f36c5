SPECIFICATION FairSpec
CONSTANTS
    Transactions = {t1}
    Callbacks = {c1, c2}
    Checks = {}
    NoPayment = NoPayment
    NoDelivery = NoDelivery
    Free = Free
    CallbackSpelling <- FinalWords
    QuerySpelling <- QueryWords
    MayOmit = FALSE
    Unreliable = TRUE
    Signatures = {TRUE}
    LeaseOutlivesHandler = TRUE
PROPERTIES
    AnsweredIsProcessed
CHECK_DEADLOCK FALSE
