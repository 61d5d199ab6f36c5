SPECIFICATION FairPipelineSpec
CONSTANTS
    References = {r1}
    Requests = {q1}
    AirtelRequest = q1
    ChannelOf <- ByAirtel
    NoOrder = NoOrder
    NoReference = NoReference
    TransactionIdNullable = TRUE
    RepositoryInjected = TRUE
    JobCarriesRouting = TRUE
    TransactionIdStored = TRUE
    MaxAttempts = 3
    MaxStalls = 1
    MaxPollAttempts = 3
    StatusQueue = "payments-status-check"
    StatusWorker = "payments-status-check"
    Unreliable = FALSE
PROPERTIES
    PendingIsPolledAgain
CHECK_DEADLOCK FALSE
