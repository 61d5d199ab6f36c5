SPECIFICATION FairServiceSpec
CONSTANTS
    Transactions = {t1}
    Callbacks = {c1, c2}
    Checks = {}
    NoPayment = NoPayment
    NoDelivery = NoDelivery
    Free = Free
    CallbackSpelling <- FinalWords
    QuerySpelling <- QueryWords
    MayOmit = FALSE
    Unreliable = TRUE
    Signatures = {TRUE}
    LeaseOutlivesHandler = TRUE
    Owner = "APA"
    Links = {l1, l2}
    NoLink = NoLink
    BrokerFails = TRUE
INVARIANTS
    OneLoop
    ChannelIsCurrent
    ServiceInv
PROPERTIES
    SettlesOnce
    LockIsFreed
    DeliveryEnds
    ChannelReturns
CHECK_DEADLOCK FALSE
