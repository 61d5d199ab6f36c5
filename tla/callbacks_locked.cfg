SPECIFICATION Spec
CONSTANTS
    Transactions = {t1}
    Callbacks = {c1, c2, c3}
    Checks = {}
    NoPayment = NoPayment
    NoDelivery = NoDelivery
    Free = Free
    CallbackSpelling <- ProgressWords
    QuerySpelling <- QueryWords
    MayOmit = FALSE
    Unreliable = TRUE
    Signatures = {TRUE, FALSE}
    LeaseOutlivesHandler = TRUE
SYMMETRY Symmetric
INVARIANTS
    TypeOK
    MutualExclusion
    SettledOnce
    SettlementInv
PROPERTIES
    SettlesOnce
CHECK_DEADLOCK FALSE
