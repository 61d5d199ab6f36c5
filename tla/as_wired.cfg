SPECIFICATION FairPipelineSpec
CONSTANTS
    References = {r1}
    Requests = {q1}
    AirtelRequest = q1
    ChannelOf <- ByAirtel
    NoOrder = NoOrder
    NoReference = NoReference
    TransactionIdNullable = FALSE
    RepositoryInjected = FALSE
    JobCarriesRouting = FALSE
    TransactionIdStored = FALSE
    MaxAttempts = 3
    MaxStalls = 1
    MaxPollAttempts = 3
    StatusQueue = "payments-status-check"
    StatusWorker = "payment-status-check"
    Unreliable = FALSE
PROPERTIES
    RequestIsCharged
CHECK_DEADLOCK FALSE
