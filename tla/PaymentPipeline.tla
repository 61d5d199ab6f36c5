-------------------------- MODULE PaymentPipeline --------------------------
(***************************************************************************)
(* Payment initiation end to end: HTTP requests put orders and jobs where  *)
(* the queue's workers take them from.                                     *)
(***************************************************************************)
EXTENDS PaymentInitiation, PaymentQueue, FiniteSets

pipelineVars == <<orderVars, requestVars, workerVars>>

PipelineInit == OrderInit /\ RequestInit /\ WorkerInit

PipelineNext ==
    \/ RequestNext /\ UNCHANGED workerVars
    \/ WorkerNext /\ UNCHANGED requestVars

\* Node runs every request whose await is answered; the workers (concurrency
\* 10) take every job, and every call they make ends or times out.
PipelineFairness ==
    /\ \A q \in Requests : WF_pipelineVars(RequestStep(q) /\ UNCHANGED workerVars)
    /\ \A r \in References :
          /\ WF_pipelineVars(JobStep(r) /\ UNCHANGED requestVars)
          /\ \A i \in 1..(MaxAttempts + MaxStalls) :
                WF_pipelineVars(i \in DOMAIN polls[r] /\ PollStep(r, i) /\ UNCHANGED requestVars)

PipelineSpec     == PipelineInit /\ [][PipelineNext]_pipelineVars
FairPipelineSpec == PipelineSpec /\ PipelineFairness

-----------------------------------------------------------------------------
\* Every variable stays in its type.
PipelineTypeOK == OrderTypeOK /\ RequestTypeOK /\ WorkerTypeOK

\* A worker never finds a job whose order is missing: the row is committed
\* before the job is added, on every path.
JobHasOrder ==
    \A r \in References : job[r] # "absent" => orders[r] # NoOrder

\* A request refused as a duplicate leaves nothing behind: its fields are
\* neither in the table nor in any charge, whenever a worker read the row it
\* charges by, and its channel is not the job's.
RefusedLeavesNoTrace ==
    \A q \in Requests, r \in References :
        reply[q] = "duplicate" =>
            /\ orders[r] # q /\ jobOf[r] # q
            /\ \A i \in DOMAIN charges[r] : charges[r][i].order # q

\* However the hub, Redis and the processes fail, a reference is charged no
\* more often than its job is run: MaxAttempts times, and once for each stall.
ChargesBounded ==
    \A r \in References : Len(charges[r]) <= MaxAttempts + MaxStalls

\* The runs of a reference's job that threw or died.
Spent(r) == attempts[r] + stalls[r]

\* Every charge but the one being scheduled or last scheduled is owed to an
\* attempt that failed or to a worker that died: no run charges twice, and no
\* second job is run for a reference.
ChargesPaidFor ==
    \A r \in References :
        Len(charges[r]) <=
            Spent(r) + IF phase[r] = "schedule" \/ job[r] = "completed" THEN 1 ELSE 0

\* The charges of a reference that have no status check.
Unpolled(r) == {i \in DOMAIN polls[r] : polls[r][i].state = "absent"}

\* A charge is left without a status check only by an attempt that failed or a
\* worker that died between the two, but for the one being scheduled.
UnpolledPaidFor ==
    \A r \in References :
        Cardinality(Unpolled(r)) <= Spent(r) + IF phase[r] = "schedule" THEN 1 ELSE 0

\* The hub is asked for one transaction no more often than its job is run,
\* whatever it answers: a poll that adds itself again does not start over.
AskedBounded ==
    \A r \in References : \A i \in DOMAIN polls[r] :
        polls[r][i].asked <= MaxPollAttempts + MaxStalls

\* A reference is never charged both by M-Pesa and by Airtel, though requests
\* for it that name one and the other race, and the row is the later one's.
OneChannel ==
    \A r \in References : \A i, j \in DOMAIN charges[r] :
        charges[r][i].channel = charges[r][j].channel

\* Whatever fails, an accepted request's reference is charged, or its job has
\* used up its attempts.
AcceptedEnds ==
    \A q \in Requests, r \in References :
        (reply[q] = "accepted" /\ reference[q] = r)
            ~> (charges[r] # <<>> \/ job[r] = "failed")

\* A status check that the hub has answered; an answer `pending' is the last,
\* too (see PendingIsPolledAgain).
Answered(poll) == poll.state \in {"pending", "decided"}

\* One that has failed with no run left that its queue allows.
UsedUp(poll) ==
    /\ poll.state = "failed"
    /\ poll.made = MaxPollAttempts \/ poll.stalls > MaxStalls

\* Whatever fails, the hub is asked about a charged reference until it answers
\* or the check's runs are used up, unless its job's runs are.  That the answer
\* is a decision is not said.
ChargeIsAskedAbout ==
    \A r \in References :
        charges[r] # <<>> ~>
            \/ job[r] = "failed" /\ (attempts[r] = MaxAttempts \/ stalls[r] > MaxStalls)
            \/ \E i \in DOMAIN polls[r] : Answered(polls[r][i]) \/ UsedUp(polls[r][i])

\* When nothing fails, a reference is charged once, even if two requests for
\* it pass the duplicate check together: they share one job.
ChargedOnce ==
    \A r \in References : Len(charges[r]) <= 1

\* A request that finds its executor gets its reference charged (when nothing
\* fails).
RequestIsCharged ==
    \A q \in Requests, r \in References :
        (reqPc[q] = "find" /\ reference[q] = r) ~> charges[r] # <<>>

\* Every charge is followed by a status check of its transaction, which the
\* hub answers (when nothing fails).
ChargeIsPolled ==
    \A r \in References :
        charges[r] # <<>> ~>
            (polls[r] # <<>> /\ polls[r][1].state \in {"pending", "decided"})

-----------------------------------------------------------------------------
(* Why all that holds.                                                      *)

\* A request that has not saved yet, or never will.
Unsaved(q) ==
    \/ reqPc[q] \in {"idle", "find", "select", "insert", "update"}
    \/ reply[q] \in {"duplicate", "unrouted"}

RequestInv(q) ==
    /\ reqPc[q] \in RequestRunning => reference[q] \in References
    /\ reqPc[q] \in RequestRunning \cup {"idle"} => reply[q] = "none"
    /\ reqPc[q] = "enqueue" => Row(q) # NoOrder
    /\ Unsaved(q) =>
          \A r \in References :
              /\ orders[r] # q /\ jobOf[r] # q /\ paymentOrder[r] # q
              /\ \A i \in DOMAIN charges[r] : charges[r][i].order # q

\* A check is asked for once by each of its runs, and runs while it has both
\* attempts and stalls left.
PollInv(poll) ==
    /\ poll.state # "failed" => poll.made < MaxPollAttempts /\ poll.stalls <= MaxStalls
    /\ poll.made + poll.stalls <= MaxPollAttempts + MaxStalls
    /\ poll.asked <= poll.made + poll.stalls
                     + IF poll.state \in {"active", "pending", "decided"} THEN 1 ELSE 0

\* So is a job; and its channel is settled when it is added.
JobInv(r) ==
    /\ phase[r] # "idle" => job[r] = "active"
    /\ phase[r] \in {"charge", "schedule"} => Wired
    /\ phase[r] = "charge" => paymentOrder[r] # NoOrder
    /\ phase[r] = "schedule" =>
          charges[r] # <<>> /\ polls[r][Len(polls[r])].state = "absent"
    /\ job[r] = "absent" => charges[r] = <<>>
    /\ job[r] # "failed" => attempts[r] < MaxAttempts /\ stalls[r] <= MaxStalls
    /\ Spent(r) <= MaxAttempts + MaxStalls
    /\ \A i \in DOMAIN charges[r] : charges[r][i].channel = JobChannel(r)
    /\ \A i \in DOMAIN polls[r] : PollInv(polls[r][i])

\* When nothing fails, a job that has what it needs never throws, and the
\* others never charge.
SmoothRun(r) ==
    ~Unreliable =>
        /\ stalls[r] = 0
        /\ IF Wired THEN attempts[r] = 0 ELSE charges[r] = <<>>

\* All of it is inductive together.
PipelineInv ==
    /\ PipelineTypeOK
    /\ JobHasOrder
    /\ ChargesPaidFor
    /\ UnpolledPaidFor
    /\ \A q \in Requests : RequestInv(q)
    /\ \A r \in References : JobInv(r) /\ SmoothRun(r)

-----------------------------------------------------------------------------
\* The promise of ChargePromise, read off the table, the jobs and the charges.
ChannelsOf(transactions) == [i \in DOMAIN transactions |-> transactions[i].channel]

Promise == INSTANCE ChargePromise WITH
    ordered   <- {r \in References : orders[r] # NoOrder},
    committed <- [r \in References |->
                     IF job[r] = "absent" THEN "none" ELSE JobChannel(r)],
    charged   <- [r \in References |-> ChannelsOf(charges[r])],
    Budget    <- IF Unreliable THEN MaxAttempts + MaxStalls ELSE 1

\* However requests race, calls fail and jobs are run again, each reference is
\* committed to one channel for good, after its row is there, and charged
\* through it as often as its runs allow, once when nothing fails.
ChargesAsPromised == Promise!Spec

-----------------------------------------------------------------------------
\* A check that finds the payment pending, with runs left, is run again later,
\* as processStatusCheckJob's own add of the job is meant to have it.
PendingIsPolledAgain ==
    \A r \in References : \A i \in 1..(MaxAttempts + MaxStalls) :
        (/\ i \in DOMAIN polls[r]
         /\ polls[r][i].state = "pending"
         /\ polls[r][i].made < RequeueLimit)
            ~> (i \in DOMAIN polls[r] /\ polls[r][i].state = "active")

\* Of the requests for one reference at most one is accepted: the others are
\* refused as duplicate attempts.
OneAccepted ==
    \A p, q \in Requests :
        reply[p] = "accepted" /\ reply[q] = "accepted" /\ reference[p] = reference[q]
        => p = q

=============================================================================
