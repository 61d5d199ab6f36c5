---------------------------- MODULE PaymentQueue ----------------------------
(***************************************************************************)
(* QueueServiceImpl's two workers.  The initiation worker reads the row a  *)
(* job names, asks the hub to charge the subscriber by the fields it read, *)
(* through the job's channel, and schedules a status check of the          *)
(* transaction the hub returned; when anything throws, BullMQ runs the     *)
(* whole job again, up to MaxAttempts times, and once more if the worker's *)
(* process died.  The status-check worker asks for the status, with the    *)
(* attempts of its own queue.  Of a payment that is still pending it adds  *)
(* the job again under the id of the job it is running, which BullMQ       *)
(* ignores.                                                                *)
(***************************************************************************)
EXTENDS OrderStore

CONSTANTS
    RepositoryInjected,   \* is this.paymentRepository the repository?
    MaxPollAttempts,      \* the status queue's defaultJobOptions.attempts
    TransactionIdStored,  \* does the row of a charge get its transaction id?
    StatusQueue,          \* the queue addStatusCheckJob adds to
    StatusWorker          \* the queue the status-check worker serves

ASSUME QueueAssumption ==
    /\ RepositoryInjected \in BOOLEAN
    /\ MaxPollAttempts \in Nat \ {0}
    /\ TransactionIdStored \in BOOLEAN

VARIABLES
    phase,         \* where the worker of each reference's job is
    paymentOrder,  \* whose fields are in the row it read, until it has used them
    charges,       \* the hub's charges by reference: of whose fields, by which channel
    polls          \* the job `status-check-<transaction id>' of each charge

workerVars == <<phase, paymentOrder, charges, polls>>

Phases     == {"idle", "find", "charge", "schedule"}
ChargeType == [order : Requests, channel : Channels]

\* pending and decided are both `completed' to BullMQ: by what the check found.
PollStates == {"absent", "delayed", "active", "pending", "decided", "failed"}

\* attemptsMade, its stalls, and how often the processor has been entered.
PollType == [state : PollStates, made : 0..MaxPollAttempts,
             stalls : 0..(MaxStalls + 1), asked : Nat]

WorkerInit ==
    /\ phase = [r \in References |-> "idle"]
    /\ paymentOrder = [r \in References |-> NoOrder]
    /\ charges = [r \in References |-> <<>>]
    /\ polls = [r \in References |-> <<>>]

-----------------------------------------------------------------------------
(* The initiation worker.                                                  *)

\* The worker goes on with the row it has read, or with none.
Proceed(r, place, row) ==
    /\ phase' = [phase EXCEPT ![r] = place]
    /\ paymentOrder' = [paymentOrder EXCEPT ![r] = row]

SetJob(r, state, place) ==
    /\ job' = [job EXCEPT ![r] = state]
    /\ Proceed(r, place, NoOrder)
    /\ UNCHANGED <<orders, jobOf>>

TakeJob(r) ==
    /\ job[r] = "waiting"
    /\ SetJob(r, "active", "find")
    /\ UNCHANGED <<attempts, stalls, charges, polls>>

CompleteJob(r) == SetJob(r, "completed", "idle") /\ UNCHANGED <<attempts, stalls>>

\* Mutant of FailJob: one attempt too many.
FailJobLate(r) ==
    /\ SetJob(r, IF attempts[r] < MaxAttempts THEN "waiting" ELSE "failed", "idle")
    /\ attempts' = [attempts EXCEPT ![r] = @ + 1]
    /\ UNCHANGED stalls

\* The processor threw: again after the backoff, or never.
FailJob(r) ==
    /\ SetJob(r, IF attempts[r] + 1 < MaxAttempts THEN "waiting" ELSE "failed", "idle")
    /\ attempts' = [attempts EXCEPT ![r] = @ + 1]
    /\ UNCHANGED stalls

\* What a run needs to get as far as the hub: a repository to read the order
\* from, and a job that names its executor.
Wired == RepositoryInjected /\ JobCarriesRouting

\* findByReference, then the executor of the job's partner and channel.  It
\* throws of an object that is no repository, and of a job without them.
FindJobOrder(r) ==
    /\ phase[r] = "find"
    /\ \/ /\ orders[r] # NoOrder
          /\ Wired
          /\ Proceed(r, "charge", orders[r])
          /\ UNCHANGED orderVars
       \/ /\ Unreliable \/ orders[r] = NoOrder \/ ~Wired
          /\ FailJob(r)
    /\ UNCHANGED <<charges, polls>>

JobChannel(r) == ChannelOf[jobOf[r]]

NoPoll == [state |-> "absent", made |-> 0, stalls |-> 0, asked |-> 0]

\* initiateMpesaPayment or initiateAirtelPayment reach the hub, with the fields
\* of the row as it was read, though another request may have overwritten it
\* since, and in the channel the job was added with.  The charge is a new
\* transaction, for which there is no status-check job yet.
ReachHub(r) ==
    /\ charges' = [charges EXCEPT ![r] =
                       Append(@, [order |-> paymentOrder[r], channel |-> JobChannel(r)])]
    /\ polls' = [polls EXCEPT ![r] = Append(@, NoPoll)]

\* The partner's configuration, then a POST to the hub with a timeout of 10 s,
\* which the hub may outlive and charge all the same.  The row that was read
\* is not used again.
Charge(r) ==
    \/ /\ ReachHub(r)
       /\ Proceed(r, "schedule", NoOrder)
       /\ UNCHANGED orderVars
    \/ /\ Unreliable
       /\ ReachHub(r) \/ UNCHANGED <<charges, polls>>
       /\ FailJob(r)

StkPush(r)     == phase[r] = "charge" /\ JobChannel(r) = "MPESA" /\ Charge(r)
DirectDebit(r) == phase[r] = "charge" /\ JobChannel(r) = "AIRTEL" /\ Charge(r)

SetPoll(r, i, poll) == polls' = [polls EXCEPT ![r][i] = poll]

\* Mutant of AddPoll: a job whatever the queue holds.
AddPollAnew(poll) == [poll EXCEPT !.state = "delayed", !.made = 0]

\* add() with the jobId of the transaction: ignored while that job is kept.
AddPoll(poll) ==
    IF poll.state = "absent" THEN [poll EXCEPT !.state = "delayed"] ELSE poll

\* Mutant of SchedulePoll: the job is finished without it.
SkipPoll(r) ==
    /\ phase[r] = "schedule"
    /\ CompleteJob(r)
    /\ UNCHANGED <<charges, polls>>

\* addStatusCheckJob for the transaction just charged.
SchedulePoll(r) ==
    /\ phase[r] = "schedule"
    /\ LET last     == Len(charges[r])
           Schedule == SetPoll(r, last, AddPoll(polls[r][last]))
       IN  \/ Schedule /\ CompleteJob(r)
           \/ Unreliable /\ (Schedule \/ UNCHANGED polls) /\ FailJob(r)
    /\ UNCHANGED charges

\* The worker's process dies with the job active; BullMQ finds it stalled.
WorkerDies(r) ==
    /\ Unreliable
    /\ job[r] = "active"
    /\ SetJob(r, IF stalls[r] < MaxStalls THEN "waiting" ELSE "failed", "idle")
    /\ stalls' = [stalls EXCEPT ![r] = @ + 1]
    /\ UNCHANGED <<attempts, charges, polls>>

-----------------------------------------------------------------------------
(* The status-check worker.                                                *)

\* Mutant of TakePoll: no worker for any queue.
IgnorePoll(r, i) == FALSE

TakePoll(r, i) ==
    /\ StatusWorker = StatusQueue
    /\ polls[r][i].state = "delayed"
    /\ SetPoll(r, i, [polls[r][i] EXCEPT !.state = "active", !.asked = @ + 1])
    /\ UNCHANGED <<orderVars, phase, paymentOrder, charges>>

RequeueLimit == 5

\* statusCheck found the payment and the hub answered.  If it said `pending',
\* addStatusCheckJob is called with this job's own id.
EndPoll(r, i) ==
    /\ polls[r][i].state = "active"
    /\ TransactionIdStored
    /\ LET pending == [polls[r][i] EXCEPT !.state = "pending"]
       IN  \/ SetPoll(r, i, [polls[r][i] EXCEPT !.state = "decided"])
           \/ SetPoll(r, i, IF pending.made < RequeueLimit THEN AddPoll(pending) ELSE pending)
    /\ UNCHANGED <<orderVars, phase, paymentOrder, charges>>

\* Mutant of FailPoll: the queue's defaultJobOptions without attempts.
FailPollAtOnce(r, i) ==
    /\ polls[r][i].state = "active"
    /\ Unreliable \/ ~TransactionIdStored
    /\ SetPoll(r, i, [polls[r][i] EXCEPT !.state = "failed", !.made = @ + 1])
    /\ UNCHANGED <<orderVars, phase, paymentOrder, charges>>

\* statusCheck threw, as it does when no row has the transaction id: again
\* after the backoff, or never.
FailPoll(r, i) ==
    /\ polls[r][i].state = "active"
    /\ Unreliable \/ ~TransactionIdStored
    /\ LET made  == polls[r][i].made + 1
           state == IF made < MaxPollAttempts THEN "delayed" ELSE "failed"
       IN  SetPoll(r, i, [polls[r][i] EXCEPT !.state = state, !.made = made])
    /\ UNCHANGED <<orderVars, phase, paymentOrder, charges>>

\* The worker's process dies during the check.
PollerDies(r, i) ==
    /\ Unreliable
    /\ polls[r][i].state = "active"
    /\ LET state == IF polls[r][i].stalls < MaxStalls THEN "delayed" ELSE "failed"
       IN  SetPoll(r, i, [polls[r][i] EXCEPT !.state = state, !.stalls = @ + 1])
    /\ UNCHANGED <<orderVars, phase, paymentOrder, charges>>

-----------------------------------------------------------------------------
JobStep(r) ==
    TakeJob(r) \/ FindJobOrder(r) \/ StkPush(r) \/ DirectDebit(r) \/ SchedulePoll(r)

PollStep(r, i) == TakePoll(r, i) \/ EndPoll(r, i) \/ FailPoll(r, i)

WorkerNext ==
    \E r \in References :
        \/ JobStep(r) \/ WorkerDies(r)
        \/ \E i \in DOMAIN polls[r] : PollStep(r, i) \/ PollerDies(r, i)

WorkerTypeOK ==
    /\ phase \in [References -> Phases]
    /\ paymentOrder \in [References -> Requests \cup {NoOrder}]
    /\ charges \in [References -> Seq(ChargeType)]
    /\ polls \in [References -> Seq(PollType)]
    /\ \A r \in References : Len(polls[r]) = Len(charges[r])

=============================================================================
