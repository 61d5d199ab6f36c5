SPECIFICATION FairPipelineSpec
CONSTANTS
    References = {r1}
    Requests = {q1, q2}
    AirtelRequest = q1
    ChannelOf <- ByAirtel
    NoOrder = NoOrder
    NoReference = NoReference
    TransactionIdNullable = TRUE
    RepositoryInjected = TRUE
    JobCarriesRouting = TRUE
    TransactionIdStored = TRUE
    MaxAttempts = 2
    MaxStalls = 1
    MaxPollAttempts = 2
    StatusQueue = "payments-status-check"
    StatusWorker = "payments-status-check"
    Unreliable = TRUE
INVARIANTS
    PipelineTypeOK
    JobHasOrder
    RefusedLeavesNoTrace
    ChargesBounded
    ChargesPaidFor
    UnpolledPaidFor
    AskedBounded
    OneChannel
    PipelineInv
PROPERTIES
    ChargesAsPromised
    AcceptedEnds
    ChargeIsAskedAbout
CHECK_DEADLOCK FALSE
