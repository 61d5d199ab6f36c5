----------------------------- MODULE OrderStore -----------------------------
(***************************************************************************)
(* What the HTTP side and the queue workers of payment initiation share:   *)
(* the payments table, keyed by the merchant's reference, and the BullMQ   *)
(* queue `payment-initiation' with one possible job per reference.         *)
(*                                                                         *)
(* BullMQ and TypeORM are not under src/; their operations are modelled    *)
(* from the options QueueServiceImpl and PaymentRepositoryImpl give them.  *)
(***************************************************************************)
EXTENDS Naturals, Sequences, ExecutorRouting

CONSTANTS
    References,             \* merchants' payment references, the table's key
    Requests,               \* POST /initiate calls
    ChannelOf,              \* the channel each request names
    NoOrder,                \* findByReference returned null; no job was added
    TransactionIdNullable,  \* may a row be inserted without a transactionId?
    JobCarriesRouting,      \* does an initiation job hold partnerId and channel?
    MaxAttempts,            \* defaultJobOptions.attempts
    MaxStalls,              \* how often BullMQ revives a job whose worker died
    Unreliable              \* may an external call fail, or a process die?

ASSUME OrderAssumption ==
    /\ NoOrder \notin Requests
    /\ ChannelOf \in [Requests -> Channels]
    /\ TransactionIdNullable \in BOOLEAN
    /\ JobCarriesRouting \in BOOLEAN
    /\ MaxAttempts \in Nat \ {0}
    /\ MaxStalls \in Nat
    /\ Unreliable \in BOOLEAN

VARIABLES
    orders,    \* the table: the request whose fields a row holds
    job,       \* the state of job `payment-check-<reference>'
    jobOf,     \* the request that added it, whose channel it carries
    attempts,  \* its attemptsMade
    stalls     \* how often its worker has died

orderVars == <<orders, job, jobOf, attempts, stalls>>

JobStates == {"absent", "waiting", "active", "completed", "failed"}

OrderInit ==
    /\ orders = [r \in References |-> NoOrder]
    /\ job = [r \in References |-> "absent"]
    /\ jobOf = [r \in References |-> NoOrder]
    /\ attempts = [r \in References |-> 0]
    /\ stalls = [r \in References |-> 0]

\* Mutant of AddJob: add() without a jobId, a new job every time.
AddJobAnew(r, q) ==
    /\ job' = [job EXCEPT ![r] = "waiting"]
    /\ jobOf' = [jobOf EXCEPT ![r] = q]
    /\ attempts' = [attempts EXCEPT ![r] = 0]
    /\ UNCHANGED stalls

\* add() with a jobId: ignored while a job of that id is kept in any state,
\* finished ones included (removeOnComplete, removeOnFail keep the last ones).
AddJob(r, q) ==
    /\ IF job[r] = "absent"
       THEN /\ job' = [job EXCEPT ![r] = "waiting"]
            /\ jobOf' = [jobOf EXCEPT ![r] = q]
       ELSE UNCHANGED <<job, jobOf>>
    /\ UNCHANGED <<attempts, stalls>>

OrderTypeOK ==
    /\ orders \in [References -> Requests \cup {NoOrder}]
    /\ job \in [References -> JobStates]
    /\ jobOf \in [References -> Requests \cup {NoOrder}]
    /\ \A r \in References : job[r] = "absent" <=> jobOf[r] = NoOrder
    /\ attempts \in [References -> 0..MaxAttempts]
    /\ stalls \in [References -> 0..(MaxStalls + 1)]

=============================================================================
