SPECIFICATION FairPipelineSpec
CONSTANTS
    References = {r1, r2}
    Requests = {q1, q2, q3}
    AirtelRequest = q1
    ChannelOf <- ByAirtel
    NoOrder = NoOrder
    NoReference = NoReference
    TransactionIdNullable = TRUE
    RepositoryInjected = TRUE
    JobCarriesRouting = TRUE
    TransactionIdStored = TRUE
    MaxAttempts = 3
    MaxStalls = 1
    MaxPollAttempts = 3
    StatusQueue = "payments-status-check"
    StatusWorker = "payments-status-check"
    Unreliable = FALSE
INVARIANTS
    ChargedOnce
PROPERTIES
    RequestIsCharged
    ChargeIsPolled
CHECK_DEADLOCK FALSE
