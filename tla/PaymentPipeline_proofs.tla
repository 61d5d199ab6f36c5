----------------------- MODULE PaymentPipeline_proofs -----------------------
(***************************************************************************)
(* Proofs about PaymentPipeline: its invariant PipelineInv is inductive,   *)
(* for any sets of requests and references, any limits of the queues, and  *)
(* every failure, and every other safety property follows from it.         *)
(***************************************************************************)
EXTENDS PaymentPipeline, TLAPS, FiniteSetTheorems, SequenceTheorems

\* What PipelineInv says of one reference.
RefInv(r) ==
    /\ job[r] # "absent" => orders[r] # NoOrder
    /\ Len(charges[r]) <=
           Spent(r) + IF phase[r] = "schedule" \/ job[r] = "completed" THEN 1 ELSE 0
    /\ Cardinality(Unpolled(r)) <= Spent(r) + IF phase[r] = "schedule" THEN 1 ELSE 0
    /\ JobInv(r)
    /\ SmoothRun(r)

\* PipelineInv, by references and requests.
LEMMA PipelineInvParts ==
  PipelineInv <=> /\ PipelineTypeOK
                  /\ \A q \in Requests : RequestInv(q)
                  /\ \A r \in References : RefInv(r)
  BY DEF PipelineInv, RefInv, JobHasOrder, ChargesPaidFor, UnpolledPaidFor

LEMMA PipelineInvPartsNext ==
  PipelineInv' <=> /\ PipelineTypeOK'
                   /\ \A q \in Requests : RequestInv(q)'
                   /\ \A r \in References : RefInv(r)'
  BY DEF PipelineInv, RefInv, JobHasOrder, ChargesPaidFor, UnpolledPaidFor

\* The state of a reference that a step about another one leaves alone.
Untouched(s) ==
    /\ orders'[s] = orders[s]
    /\ job'[s] = job[s] /\ jobOf'[s] = jobOf[s]
    /\ attempts'[s] = attempts[s] /\ stalls'[s] = stalls[s]
    /\ phase'[s] = phase[s] /\ paymentOrder'[s] = paymentOrder[s]
    /\ charges'[s] = charges[s] /\ polls'[s] = polls[s]

LEMMA UntouchedKeeps ==
  ASSUME NEW s \in References, RefInv(s), Untouched(s)
  PROVE  RefInv(s)'
  <1>1. /\ Unpolled(s)' = Unpolled(s)
        /\ Spent(s)' = Spent(s)
        /\ JobChannel(s)' = JobChannel(s)
    BY DEF Untouched, Unpolled, Spent, JobChannel
  <1>2. JobInv(s)' /\ SmoothRun(s)'
    BY <1>1 DEF Untouched, RefInv, JobInv, SmoothRun, PollInv
  <1> QED
    BY <1>1, <1>2 DEF Untouched, RefInv

-----------------------------------------------------------------------------
(* The ledger of one reference: its charges, and the status checks of them. *)

\* The charges without a status check are finitely many.
LEMMA UnpolledFinite ==
  ASSUME PipelineTypeOK, NEW r \in References
  PROVE  IsFiniteSet(Unpolled(r)) /\ Cardinality(Unpolled(r)) \in Nat
  <1>1. polls[r] \in Seq(PollType)
    BY DEF PipelineTypeOK, WorkerTypeOK
  <1>2. Len(polls[r]) \in Nat /\ DOMAIN polls[r] = 1..Len(polls[r])
    BY <1>1, LenProperties
  <1>3. IsFiniteSet(1..Len(polls[r]))
    BY <1>2, FS_Interval
  <1>4. Unpolled(r) \in SUBSET (1..Len(polls[r]))
    BY <1>2 DEF Unpolled
  <1> QED
    BY <1>3, <1>4, FS_Subset, FS_CardinalityType

\* SetPoll replaces one status check of one reference.
LEMMA SetPollEffect ==
  ASSUME PipelineTypeOK, NEW r \in References, NEW i \in DOMAIN polls[r],
         NEW poll \in PollType, SetPoll(r, i, poll)
  PROVE  /\ polls' \in [References -> Seq(PollType)]
         /\ \A s \in References \ {r} : polls'[s] = polls[s]
         /\ Len(polls'[r]) = Len(polls[r])
         /\ DOMAIN polls'[r] = DOMAIN polls[r]
         /\ \A j \in DOMAIN polls[r] : polls'[r][j] = IF j = i THEN poll ELSE polls[r][j]
  <1>1. polls \in [References -> Seq(PollType)]
    BY DEF PipelineTypeOK, WorkerTypeOK
  <1>2. i \in 1..Len(polls[r]) /\ DOMAIN polls[r] = 1..Len(polls[r])
    BY <1>1, LenProperties
  <1> DEFINE new == [polls[r] EXCEPT ![i] = poll]
  <1>3. /\ new \in Seq(PollType)
        /\ Len(new) = Len(polls[r])
        /\ \A j \in 1..Len(polls[r]) : new[j] = IF j = i THEN poll ELSE polls[r][j]
    BY <1>1, <1>2, ExceptSeq
  <1>4. DOMAIN new = 1..Len(polls[r])
    BY <1>3, LenProperties
  <1>5. polls' = [polls EXCEPT ![r] = new]
    BY DEF SetPoll
  <1> HIDE DEF new
  <1> QED
    BY <1>1, <1>2, <1>3, <1>4, <1>5

\* A charge that reaches the hub is one more in the ledger, by the row its
\* worker read and in the job's channel, and has no status check.
Reached(r) ==
    /\ charges' \in [References -> Seq(ChargeType)]
    /\ polls' \in [References -> Seq(PollType)]
    /\ \A s \in References \ {r} : charges'[s] = charges[s] /\ polls'[s] = polls[s]
    /\ Len(charges'[r]) = Len(charges[r]) + 1
    /\ Len(polls'[r]) = Len(charges'[r])
    /\ DOMAIN charges'[r] = DOMAIN charges[r] \cup {Len(charges'[r])}
    /\ DOMAIN polls'[r] = DOMAIN polls[r] \cup {Len(polls'[r])}
    /\ \A i \in DOMAIN charges[r] : charges'[r][i] = charges[r][i]
    /\ \A i \in DOMAIN polls[r] : polls'[r][i] = polls[r][i]
    /\ charges'[r][Len(charges'[r])] =
           [order |-> paymentOrder[r], channel |-> JobChannel(r)]
    /\ polls'[r][Len(polls'[r])] = NoPoll
    /\ Cardinality(Unpolled(r)') = Cardinality(Unpolled(r)) + 1

LEMMA ReachHubEffect ==
  ASSUME PipelineTypeOK, NEW r \in References, paymentOrder[r] # NoOrder,
         jobOf[r] # NoOrder, ReachHub(r)
  PROVE  Reached(r)
  <1> DEFINE charge == [order |-> paymentOrder[r], channel |-> JobChannel(r)]
             n == Len(charges[r])
  <1>1. /\ charges \in [References -> Seq(ChargeType)]
        /\ polls \in [References -> Seq(PollType)]
        /\ Len(polls[r]) = n
    BY DEF PipelineTypeOK, WorkerTypeOK
  <1>2. /\ n \in Nat
        /\ DOMAIN charges[r] = 1..n
        /\ DOMAIN polls[r] = 1..n
    BY <1>1, LenProperties
  <1>3. charge \in ChargeType
    BY OrderAssumption DEF PipelineTypeOK, OrderTypeOK, WorkerTypeOK, ChargeType, JobChannel
  <1>4. NoPoll \in PollType
    BY OrderAssumption, QueueAssumption DEF NoPoll, PollType, PollStates
  <1>5. /\ charges' = [charges EXCEPT ![r] = Append(charges[r], charge)]
        /\ polls' = [polls EXCEPT ![r] = Append(polls[r], NoPoll)]
    BY DEF ReachHub
  <1> HIDE DEF charge
  <1>6. /\ charges' \in [References -> Seq(ChargeType)]
        /\ polls' \in [References -> Seq(PollType)]
        /\ \A s \in References \ {r} : charges'[s] = charges[s] /\ polls'[s] = polls[s]
    BY <1>1, <1>3, <1>4, <1>5
  <1>7. /\ charges'[r] = Append(charges[r], charge)
        /\ polls'[r] = Append(polls[r], NoPoll)
    BY <1>1, <1>5
  <1>8. /\ Len(charges'[r]) = n + 1 /\ Len(polls'[r]) = n + 1
        /\ charges'[r][n + 1] = charge /\ polls'[r][n + 1] = NoPoll
        /\ \A i \in 1..n : charges'[r][i] = charges[r][i] /\ polls'[r][i] = polls[r][i]
    BY <1>1, <1>2, <1>3, <1>4, <1>7
  <1>9. DOMAIN charges'[r] = 1..(n + 1) /\ DOMAIN polls'[r] = 1..(n + 1)
    BY <1>6, <1>8, LenProperties
  <1>10. 1..(n + 1) = (1..n) \cup {n + 1} /\ n + 1 \notin 1..n
    BY <1>2
  <1>11. Unpolled(r)' = Unpolled(r) \cup {n + 1}
    BY <1>2, <1>8, <1>9, <1>10 DEF Unpolled, NoPoll
  <1>12. n + 1 \notin Unpolled(r)
    BY <1>2, <1>10 DEF Unpolled
  <1>13. Cardinality(Unpolled(r)') = Cardinality(Unpolled(r)) + 1
    BY <1>11, <1>12, UnpolledFinite, FS_AddElement
  <1> QED
    BY <1>2, <1>6, <1>8, <1>9, <1>10, <1>13 DEF charge, Reached

\* Scheduling the check of the last charge takes it out of the unpolled ones.
LEMMA ScheduleEffect ==
  ASSUME PipelineTypeOK, NEW r \in References, charges[r] # <<>>,
         polls[r][Len(charges[r])].state = "absent",
         PollInv(polls[r][Len(charges[r])]),
         SetPoll(r, Len(charges[r]), AddPoll(polls[r][Len(charges[r])]))
  PROVE  /\ polls' \in [References -> Seq(PollType)]
         /\ \A s \in References \ {r} : polls'[s] = polls[s]
         /\ Len(polls'[r]) = Len(polls[r])
         /\ DOMAIN polls'[r] = DOMAIN polls[r]
         /\ \A j \in DOMAIN polls[r] :
               polls'[r][j] = polls[r][j] \/ PollInv(polls'[r][j])
         /\ Cardinality(Unpolled(r)') = Cardinality(Unpolled(r)) - 1
  <1> DEFINE n == Len(charges[r])
             old == polls[r][n]
             new == AddPoll(old)
  <1>1. /\ charges[r] \in Seq(ChargeType)
        /\ polls[r] \in Seq(PollType)
        /\ Len(polls[r]) = n
    BY DEF PipelineTypeOK, WorkerTypeOK
  <1>2. /\ n \in Nat \ {0}
        /\ DOMAIN polls[r] = 1..n
    BY <1>1, EmptySeq, LenProperties
  <1>3. n \in DOMAIN polls[r] /\ old \in PollType
    BY <1>1, <1>2, ElementOfSeq
  <1>4. new = [old EXCEPT !.state = "delayed"]
    BY DEF AddPoll
  <1>5. new \in PollType
    BY <1>3, <1>4 DEF PollType, PollStates
  <1>6. /\ new.state = "delayed" /\ new.made = old.made
        /\ new.stalls = old.stalls /\ new.asked = old.asked
    BY <1>3, <1>4 DEF PollType
  <1>7. PollInv(new)
    BY <1>6 DEF PollInv
  <1>8. SetPoll(r, n, new)
    OBVIOUS
  <1> HIDE DEF new, n
  <1>9. /\ polls' \in [References -> Seq(PollType)]
        /\ \A s \in References \ {r} : polls'[s] = polls[s]
        /\ Len(polls'[r]) = Len(polls[r])
        /\ DOMAIN polls'[r] = DOMAIN polls[r]
        /\ \A j \in DOMAIN polls[r] : polls'[r][j] = IF j = n THEN new ELSE polls[r][j]
    BY <1>3, <1>5, <1>8, SetPollEffect
  <1>10. Unpolled(r)' = Unpolled(r) \ {n}
    BY <1>6, <1>9 DEF Unpolled
  <1>11. n \in Unpolled(r)
    BY <1>3 DEF Unpolled, n
  <1>12. Cardinality(Unpolled(r)') = Cardinality(Unpolled(r)) - 1
    BY <1>10, <1>11, UnpolledFinite, FS_RemoveElement
  <1> QED
    BY <1>7, <1>9, <1>12

-----------------------------------------------------------------------------
(* The end of a run of a job.                                              *)

\* A job is active from an order that exists, and by a request's channel.
LEMMA ActiveJob ==
  ASSUME PipelineTypeOK, NEW r \in References, RefInv(r), job[r] = "active"
  PROVE  /\ orders[r] # NoOrder /\ jobOf[r] # NoOrder
         /\ attempts[r] \in Nat /\ stalls[r] \in Nat
         /\ attempts[r] < MaxAttempts /\ stalls[r] <= MaxStalls
         /\ Spent(r) \in Nat
  BY OrderAssumption DEF PipelineTypeOK, OrderTypeOK, RefInv, JobInv, Spent

\* SetJob moves the job and its worker only, which forgets the row it read.
LEMMA SetJobEffect ==
  ASSUME PipelineTypeOK, NEW r \in References, job[r] = "active",
         NEW state \in JobStates \ {"absent"}, NEW place \in Phases,
         SetJob(r, state, place)
  PROVE  /\ job' \in [References -> JobStates]
         /\ phase' \in [References -> Phases]
         /\ paymentOrder' \in [References -> Requests \cup {NoOrder}]
         /\ job'[r] = state /\ phase'[r] = place /\ paymentOrder'[r] = NoOrder
         /\ \A s \in References \ {r} :
               job'[s] = job[s] /\ phase'[s] = phase[s] /\ paymentOrder'[s] = paymentOrder[s]
         /\ orders' = orders /\ jobOf' = jobOf
         /\ \A s \in References : job'[s] = "absent" <=> jobOf'[s] = NoOrder
  BY DEF SetJob, Proceed, PipelineTypeOK, OrderTypeOK, WorkerTypeOK, JobStates

\* What a step of a worker does to the ledger of a run's reference.
LedgerStep(r, charged, unpolled) ==
    /\ charges' \in [References -> Seq(ChargeType)]
    /\ polls' \in [References -> Seq(PollType)]
    /\ Len(polls'[r]) = Len(charges'[r])
    /\ \A s \in References \ {r} : charges'[s] = charges[s] /\ polls'[s] = polls[s]
    /\ Len(charges'[r]) = Len(charges[r]) + charged
    /\ Cardinality(Unpolled(r)') = Cardinality(Unpolled(r)) + unpolled
    /\ \A i \in DOMAIN charges'[r] :
          /\ charges'[r][i].channel = JobChannel(r)
          /\ \/ i \in DOMAIN charges[r] /\ charges'[r][i] = charges[r][i]
             \/ charges'[r][i].order = paymentOrder[r]
    /\ \A i \in DOMAIN polls'[r] : PollInv(polls'[r][i])

LEMMA LedgerKept ==
  ASSUME PipelineTypeOK, NEW r \in References, RefInv(r), UNCHANGED <<charges, polls>>
  PROVE  LedgerStep(r, 0, 0)
  <1>1. Unpolled(r)' = Unpolled(r)
    BY DEF Unpolled
  <1>2. Cardinality(Unpolled(r)) + 0 = Cardinality(Unpolled(r))
    BY UnpolledFinite
  <1>3. Len(charges[r]) + 0 = Len(charges[r])
    BY LenProperties DEF PipelineTypeOK, WorkerTypeOK
  <1> QED
    BY <1>1, <1>2, <1>3 DEF LedgerStep, PipelineTypeOK, WorkerTypeOK, RefInv, JobInv, PollInv

LEMMA LedgerReached ==
  ASSUME PipelineTypeOK, NEW r \in References, RefInv(r), phase[r] = "charge", ReachHub(r)
  PROVE  /\ LedgerStep(r, 1, 1)
         /\ charges'[r] # <<>>
         /\ polls'[r][Len(polls'[r])].state = "absent"
  <1>1. Reached(r)
    <2>1. job[r] = "active" /\ paymentOrder[r] # NoOrder
      BY DEF RefInv, JobInv
    <2> QED
      BY <2>1, ActiveJob, ReachHubEffect
  <1>2. PollInv(NoPoll) /\ NoPoll.state = "absent"
    BY OrderAssumption, QueueAssumption DEF PollInv, NoPoll
  <1>3. /\ \A i \in DOMAIN charges[r] : charges[r][i].channel = JobChannel(r)
        /\ \A i \in DOMAIN polls[r] : PollInv(polls[r][i])
    BY DEF RefInv, JobInv
  <1>4. \A i \in DOMAIN polls'[r] : PollInv(polls'[r][i])
    BY <1>1, <1>2, <1>3 DEF Reached
  <1>5. charges[r] \in Seq(ChargeType) /\ charges'[r] \in Seq(ChargeType)
    BY <1>1 DEF Reached, PipelineTypeOK, WorkerTypeOK
  <1>6. charges'[r] # <<>>
    BY <1>1, <1>5, EmptySeq, LenProperties DEF Reached
  <1>7. LedgerStep(r, 1, 1)
    BY <1>1, <1>3, <1>4 DEF LedgerStep, Reached
  <1> QED
    BY <1>1, <1>2, <1>6, <1>7 DEF Reached

LEMMA LedgerScheduled ==
  ASSUME PipelineTypeOK, NEW r \in References, RefInv(r), phase[r] = "schedule",
         SetPoll(r, Len(charges[r]), AddPoll(polls[r][Len(charges[r])])),
         UNCHANGED charges
  PROVE  LedgerStep(r, 0, -1)
  <1>1. Len(polls[r]) = Len(charges[r])
    BY DEF PipelineTypeOK, WorkerTypeOK
  <1>2. /\ charges[r] # <<>>
        /\ polls[r][Len(charges[r])].state = "absent"
        /\ \A i \in DOMAIN polls[r] : PollInv(polls[r][i])
        /\ \A i \in DOMAIN charges[r] : charges[r][i].channel = JobChannel(r)
    BY <1>1 DEF RefInv, JobInv
  <1>3. charges[r] \in Seq(ChargeType) /\ polls[r] \in Seq(PollType)
    BY DEF PipelineTypeOK, WorkerTypeOK
  <1>4. Len(charges[r]) \in DOMAIN polls[r] /\ Len(charges[r]) + 0 = Len(charges[r])
    BY <1>1, <1>2, <1>3, EmptySeq, LenProperties
  <1>5. PollInv(polls[r][Len(charges[r])])
    BY <1>2, <1>4
  <1>6. Cardinality(Unpolled(r)) - 1 = Cardinality(Unpolled(r)) + (-1)
    BY UnpolledFinite
  <1>7. /\ polls' \in [References -> Seq(PollType)]
        /\ \A s \in References \ {r} : polls'[s] = polls[s]
        /\ Len(polls'[r]) = Len(polls[r])
        /\ DOMAIN polls'[r] = DOMAIN polls[r]
        /\ \A j \in DOMAIN polls[r] :
              polls'[r][j] = polls[r][j] \/ PollInv(polls'[r][j])
        /\ Cardinality(Unpolled(r)') = Cardinality(Unpolled(r)) - 1
    BY <1>2, <1>5, ScheduleEffect
  <1>8. \A i \in DOMAIN polls'[r] : PollInv(polls'[r][i])
    BY <1>2, <1>7
  <1> QED
    BY <1>1, <1>2, <1>4, <1>6, <1>7, <1>8 DEF LedgerStep, PipelineTypeOK, WorkerTypeOK

-----------------------------------------------------------------------------
(* A step of a worker keeps what is not about its own reference.           *)

\* The state of its reference's job that a step of a worker may change; a row
\* that it reads is its reference's.
JobMoves(r) ==
    /\ job' \in [References -> JobStates]
    /\ phase' \in [References -> Phases]
    /\ paymentOrder' \in [References -> Requests \cup {NoOrder}]
    /\ attempts' \in [References -> 0..MaxAttempts]
    /\ stalls' \in [References -> 0..(MaxStalls + 1)]
    /\ orders' = orders /\ jobOf' = jobOf
    /\ \A s \in References : job'[s] = "absent" <=> jobOf'[s] = NoOrder
    /\ paymentOrder'[r] \in {NoOrder, orders[r], paymentOrder[r]}
    /\ \A s \in References \ {r} :
          /\ job'[s] = job[s] /\ phase'[s] = phase[s] /\ paymentOrder'[s] = paymentOrder[s]
          /\ attempts'[s] = attempts[s] /\ stalls'[s] = stalls[s]

\* The fields a worker reads, or charges by, are none of an unsaved request.
LEMMA WorkerSparesRequests ==
  ASSUME NEW r \in References, JobMoves(r),
         NEW charged, NEW unpolled, LedgerStep(r, charged, unpolled),
         UNCHANGED requestVars, NEW q \in Requests, RequestInv(q)
  PROVE  RequestInv(q)'
  <1>0. orders' = orders /\ jobOf' = jobOf
    BY DEF JobMoves
  <1>1. /\ (reqPc[q] \in RequestRunning => reference[q] \in References)'
        /\ (reqPc[q] \in RequestRunning \cup {"idle"} => reply[q] = "none")'
        /\ (reqPc[q] = "enqueue" => Row(q) # NoOrder)'
        /\ Unsaved(q)' <=> Unsaved(q)
    BY <1>0 DEF RequestInv, requestVars, Row, Unsaved
  <1>2. ASSUME Unsaved(q), NEW s \in References, NEW i \in DOMAIN charges'[s]
        PROVE  charges'[s][i].order # q
    <2>1. /\ paymentOrder[s] # q
          /\ \A j \in DOMAIN charges[s] : charges[s][j].order # q
      BY <1>2 DEF RequestInv
    <2>2. CASE s = r
      BY <1>2, <2>1, <2>2 DEF LedgerStep
    <2>3. CASE s # r
      <3>1. charges'[s] = charges[s]
        BY <2>3 DEF LedgerStep
      <3> QED
        BY <1>2, <2>1, <3>1
    <2> QED
      BY <2>2, <2>3
  <1>3. ASSUME Unsaved(q), NEW s \in References
        PROVE  orders'[s] # q /\ jobOf'[s] # q /\ paymentOrder'[s] # q
    <2>1. orders[s] # q /\ jobOf[s] # q /\ paymentOrder[s] # q
      BY <1>3 DEF RequestInv
    <2>2. paymentOrder'[s] \in {NoOrder, orders[s], paymentOrder[s]}
      BY DEF JobMoves
    <2> QED
      BY <1>0, <2>1, <2>2, OrderAssumption
  <1> QED
    BY <1>1, <1>2, <1>3 DEF RequestInv

\* So what is left to show of a worker's step is its own reference.
LEMMA WorkerStepKeeps ==
  ASSUME PipelineInv, NEW r \in References, JobMoves(r), UNCHANGED requestVars,
         NEW charged, NEW unpolled, LedgerStep(r, charged, unpolled), RefInv(r)'
  PROVE  PipelineInv'
  <1>1. PipelineTypeOK'
    BY DEF PipelineInv, PipelineTypeOK, OrderTypeOK, RequestTypeOK, WorkerTypeOK,
       JobMoves, LedgerStep, requestVars
  <1>2. ASSUME NEW q \in Requests
        PROVE  RequestInv(q)'
    BY <1>2, WorkerSparesRequests DEF PipelineInv, JobMoves
  <1>3. ASSUME NEW s \in References
        PROVE  RefInv(s)'
    <2>1. CASE s = r
      BY <2>1
    <2>2. CASE s # r
      <3>1. Untouched(s)
        BY <2>2 DEF Untouched, JobMoves, LedgerStep
      <3> QED
        BY <3>1, PipelineInvParts, UntouchedKeeps
    <2> QED
      BY <2>1, <2>2
  <1> QED
    BY <1>1, <1>2, <1>3, PipelineInvPartsNext

\* The status check of a charge may go on as long as it keeps within its limits.
LEMMA PollStepKeeps ==
  ASSUME PipelineInv, NEW r \in References, NEW i \in DOMAIN polls[r],
         polls[r][i].state # "absent",
         NEW poll \in PollType, poll.state # "absent", PollInv(poll),
         SetPoll(r, i, poll),
         UNCHANGED <<orderVars, phase, paymentOrder, charges, requestVars>>
  PROVE  PipelineInv'
  <1>0. PipelineTypeOK /\ RefInv(r)
    BY PipelineInvParts
  <1>1. /\ polls' \in [References -> Seq(PollType)]
        /\ \A s \in References \ {r} : polls'[s] = polls[s]
        /\ Len(polls'[r]) = Len(polls[r])
        /\ DOMAIN polls'[r] = DOMAIN polls[r]
        /\ \A j \in DOMAIN polls[r] : polls'[r][j] = IF j = i THEN poll ELSE polls[r][j]
    BY <1>0, SetPollEffect
  <1>2. Unpolled(r)' = Unpolled(r)
    BY <1>1 DEF Unpolled
  <1>3. /\ Cardinality(Unpolled(r)) + 0 = Cardinality(Unpolled(r))
        /\ Len(charges[r]) + 0 = Len(charges[r])
    BY <1>0, UnpolledFinite, LenProperties DEF PipelineTypeOK, WorkerTypeOK
  <1>4. \A j \in DOMAIN polls'[r] : PollInv(polls'[r][j])
    BY <1>0, <1>1 DEF RefInv, JobInv
  <1>5. \A j \in DOMAIN charges[r] : charges[r][j].channel = JobChannel(r)
    BY <1>0 DEF RefInv, JobInv
  <1>6. LedgerStep(r, 0, 0)
    BY <1>0, <1>1, <1>2, <1>3, <1>4, <1>5 DEF LedgerStep, PipelineTypeOK, WorkerTypeOK
  <1>7. JobMoves(r)
    BY <1>0 DEF JobMoves, orderVars, PipelineTypeOK, OrderTypeOK, WorkerTypeOK
  <1>8. phase[r] = "schedule" => polls'[r][Len(polls'[r])].state = "absent"
    <2>1. SUFFICES ASSUME phase[r] = "schedule"
                   PROVE  polls'[r][Len(polls'[r])].state = "absent"
      OBVIOUS
    <2>2. charges[r] # <<>> /\ polls[r][Len(polls[r])].state = "absent"
      BY <1>0, <2>1 DEF RefInv, JobInv
    <2>3. Len(polls[r]) \in DOMAIN polls[r] /\ Len(polls[r]) # i
      BY <1>0, <2>2, EmptySeq, LenProperties DEF PipelineTypeOK, WorkerTypeOK
    <2> QED
      BY <1>1, <2>2, <2>3
  <1>9. Spent(r)' = Spent(r) /\ JobChannel(r)' = JobChannel(r)
    BY DEF Spent, JobChannel, orderVars
  <1>10. JobInv(r)' /\ SmoothRun(r)'
    BY <1>0, <1>4, <1>5, <1>8, <1>9 DEF RefInv, JobInv, SmoothRun, orderVars
  <1>11. RefInv(r)'
    BY <1>0, <1>2, <1>9, <1>10 DEF RefInv, orderVars
  <1> QED
    BY <1>6, <1>7, <1>11, WorkerStepKeeps

-----------------------------------------------------------------------------
(* The initiation worker.                                                  *)

\* A run that throws pays for the charge it made.
LEMMA FailJobKeeps ==
  ASSUME PipelineInv, NEW r \in References, job[r] = "active",
         FailJob(r), UNCHANGED requestVars,
         \/ LedgerStep(r, 0, 0)
         \/ LedgerStep(r, 1, 1) /\ phase[r] # "schedule"
         \/ LedgerStep(r, 0, -1),
         Unreliable \/ (~Wired /\ charges'[r] = charges[r])
  PROVE  PipelineInv'
  <1> PICK charged \in {0, 1}, unpolled \in {-1, 0, 1} :
             /\ LedgerStep(r, charged, unpolled)
             /\ unpolled <= charged
             /\ phase[r] = "schedule" => charged = 0
    <2>1. CASE LedgerStep(r, 0, 0)
      BY <2>1
    <2>2. CASE LedgerStep(r, 1, 1) /\ phase[r] # "schedule"
      BY <2>2
    <2>3. CASE LedgerStep(r, 0, -1)
      BY <2>3
    <2> QED
      BY <2>1, <2>2, <2>3
  <1>0. PipelineTypeOK /\ RefInv(r)
    BY PipelineInvParts
  <1> DEFINE state == IF attempts[r] + 1 < MaxAttempts THEN "waiting" ELSE "failed"
  <1>1. SetJob(r, state, "idle") /\ state \in JobStates \ {"absent"}
    BY DEF FailJob, JobStates
  <1>2. /\ job' \in [References -> JobStates]
        /\ phase' \in [References -> Phases]
        /\ paymentOrder' \in [References -> Requests \cup {NoOrder}]
        /\ job'[r] = state /\ phase'[r] = "idle" /\ paymentOrder'[r] = NoOrder
        /\ \A s \in References \ {r} :
              job'[s] = job[s] /\ phase'[s] = phase[s] /\ paymentOrder'[s] = paymentOrder[s]
        /\ orders' = orders /\ jobOf' = jobOf
        /\ \A s \in References : job'[s] = "absent" <=> jobOf'[s] = NoOrder
    BY <1>0, <1>1, SetJobEffect DEF Phases
  <1>3. /\ orders[r] # NoOrder /\ jobOf[r] # NoOrder
        /\ attempts[r] \in Nat /\ stalls[r] \in Nat
        /\ attempts[r] < MaxAttempts /\ stalls[r] <= MaxStalls
        /\ Spent(r) \in Nat
    BY <1>0, ActiveJob
  <1>4. /\ attempts' = [attempts EXCEPT ![r] = attempts[r] + 1]
        /\ stalls' = stalls
        /\ attempts \in [References -> 0..MaxAttempts]
        /\ stalls \in [References -> 0..(MaxStalls + 1)]
    BY <1>0 DEF FailJob, PipelineTypeOK, OrderTypeOK
  <1>5. attempts[r] + 1 \in 0..MaxAttempts
    BY <1>3, OrderAssumption
  <1>6. /\ attempts' \in [References -> 0..MaxAttempts]
        /\ attempts'[r] = attempts[r] + 1 /\ stalls'[r] = stalls[r]
        /\ \A s \in References \ {r} : attempts'[s] = attempts[s] /\ stalls'[s] = stalls[s]
    BY <1>4, <1>5
  <1>7. JobMoves(r)
    BY <1>2, <1>4, <1>6 DEF JobMoves
  <1>8. /\ Spent(r)' = Spent(r) + 1
        /\ Spent(r) + 1 <= MaxAttempts + MaxStalls
        /\ JobChannel(r)' = JobChannel(r)
    BY <1>2, <1>3, <1>6, OrderAssumption DEF Spent, JobChannel
  <1>9. /\ Len(charges'[r]) <= Spent(r)'
        /\ Cardinality(Unpolled(r)') <= Spent(r)'
    <2>1. /\ Len(charges[r]) <= Spent(r) + IF phase[r] = "schedule" THEN 1 ELSE 0
          /\ Cardinality(Unpolled(r)) <= Spent(r) + IF phase[r] = "schedule" THEN 1 ELSE 0
      BY <1>0 DEF RefInv
    <2>2. /\ Len(charges'[r]) = Len(charges[r]) + charged
          /\ Cardinality(Unpolled(r)') = Cardinality(Unpolled(r)) + unpolled
      BY DEF LedgerStep
    <2>3. Len(charges[r]) \in Nat /\ Cardinality(Unpolled(r)) \in Nat
      BY <1>0, UnpolledFinite, LenProperties DEF PipelineTypeOK, WorkerTypeOK
    <2>4. CASE phase[r] = "schedule"
      <3>1. charged = 0 /\ unpolled <= 0
        BY <2>4
      <3> QED
        BY <1>3, <1>8, <2>1, <2>2, <2>3, <2>4, <3>1
    <2>5. CASE phase[r] # "schedule"
      BY <1>3, <1>8, <2>1, <2>2, <2>3, <2>5
    <2> QED
      BY <2>4, <2>5
  <1>10. JobInv(r)'
    <2>1. (job[r] # "failed" => attempts[r] < MaxAttempts /\ stalls[r] <= MaxStalls)'
      BY <1>2, <1>3, <1>6
    <2>2. /\ \A i \in DOMAIN charges'[r] : charges'[r][i].channel = JobChannel(r)'
          /\ \A i \in DOMAIN polls'[r] : PollInv(polls'[r][i])
      BY <1>8 DEF LedgerStep
    <2>3. (Spent(r) <= MaxAttempts + MaxStalls)'
      BY <1>8
    <2> QED
      BY <1>1, <1>2, <2>1, <2>2, <2>3 DEF JobInv
  <1>11. SmoothRun(r)'
    <2>1. SUFFICES ASSUME ~Unreliable
                   PROVE  /\ stalls'[r] = 0
                          /\ ~Wired /\ charges'[r] = <<>>
      BY DEF SmoothRun
    <2> QED
      BY <1>0, <1>6, <2>1 DEF RefInv, SmoothRun
  <1>12. RefInv(r)'
    <2>1. Spent(r)' + 0 = Spent(r)' /\ job'[r] # "completed"
      BY <1>2, <1>3, <1>8
    <2> QED
      BY <1>2, <1>3, <1>9, <1>10, <1>11, <2>1 DEF RefInv
  <1> QED
    BY <1>7, <1>12, WorkerStepKeeps

\* A worker takes a job.
LEMMA TakeJobKeeps ==
  ASSUME PipelineInv, NEW r \in References, TakeJob(r), UNCHANGED requestVars
  PROVE  PipelineInv'
  <1>0. PipelineTypeOK /\ RefInv(r) /\ job[r] = "waiting"
    BY PipelineInvParts DEF TakeJob
  <1>1. LedgerStep(r, 0, 0)
    BY <1>0, LedgerKept DEF TakeJob
  <1>2. /\ JobMoves(r)
        /\ job'[r] = "active" /\ phase'[r] = "find"
        /\ UNCHANGED <<orders, jobOf, attempts, stalls, charges, polls>>
    BY <1>0 DEF TakeJob, SetJob, Proceed, JobMoves, PipelineTypeOK, OrderTypeOK, WorkerTypeOK,
       JobStates, Phases
  <1>3. /\ Unpolled(r)' = Unpolled(r) /\ Spent(r)' = Spent(r)
        /\ JobChannel(r)' = JobChannel(r)
    BY <1>2 DEF Unpolled, Spent, JobChannel
  <1>4. phase[r] # "schedule"
    BY <1>0 DEF RefInv, JobInv
  <1>5. JobInv(r)' /\ SmoothRun(r)'
    BY <1>0, <1>2, <1>3 DEF RefInv, JobInv, SmoothRun
  <1>6. RefInv(r)'
    BY <1>0, <1>2, <1>3, <1>4, <1>5 DEF RefInv
  <1> QED
    BY <1>1, <1>2, <1>6, WorkerStepKeeps

\* A worker finds the order of its job, or throws.
LEMMA FindJobOrderKeeps ==
  ASSUME PipelineInv, NEW r \in References, FindJobOrder(r), UNCHANGED requestVars
  PROVE  PipelineInv'
  <1>0. /\ PipelineTypeOK /\ RefInv(r)
        /\ phase[r] = "find" /\ job[r] = "active"
        /\ orders[r] # NoOrder
    BY PipelineInvParts DEF FindJobOrder, RefInv, JobInv
  <1>1. LedgerStep(r, 0, 0)
    BY <1>0, LedgerKept DEF FindJobOrder
  <1>2. CASE Wired /\ Proceed(r, "charge", orders[r]) /\ UNCHANGED orderVars
    <2>1. UNCHANGED <<orders, job, jobOf, attempts, stalls, charges, polls>>
      BY <1>2 DEF FindJobOrder, orderVars
    <2>2. JobMoves(r) /\ phase'[r] = "charge" /\ paymentOrder'[r] = orders[r]
      BY <1>0, <1>2, <2>1 DEF Proceed, JobMoves, PipelineTypeOK, OrderTypeOK, WorkerTypeOK, Phases
    <2>3. /\ Unpolled(r)' = Unpolled(r) /\ Spent(r)' = Spent(r)
          /\ JobChannel(r)' = JobChannel(r)
      BY <2>1 DEF Unpolled, Spent, JobChannel
    <2>4. JobInv(r)' /\ SmoothRun(r)'
      BY <1>0, <1>2, <2>1, <2>2, <2>3 DEF RefInv, JobInv, SmoothRun
    <2>5. RefInv(r)'
      BY <1>0, <2>1, <2>2, <2>3, <2>4 DEF RefInv
    <2> QED
      BY <1>1, <2>2, <2>5, WorkerStepKeeps
  <1>3. CASE (Unreliable \/ orders[r] = NoOrder \/ ~Wired) /\ FailJob(r)
    <2>1. Unreliable \/ (~Wired /\ charges'[r] = charges[r])
      BY <1>0, <1>3 DEF FindJobOrder
    <2> QED
      BY <1>0, <1>1, <1>3, <2>1, FailJobKeeps
  <1> QED
    BY <1>2, <1>3 DEF FindJobOrder

\* A worker charges the subscriber, or throws, charged or not.
LEMMA ChargeKeeps ==
  ASSUME PipelineInv, NEW r \in References, phase[r] = "charge", Charge(r),
         UNCHANGED requestVars
  PROVE  PipelineInv'
  <1>0. /\ PipelineTypeOK /\ RefInv(r)
        /\ job[r] = "active" /\ Wired
        /\ orders[r] # NoOrder
    BY PipelineInvParts DEF RefInv, JobInv
  <1>1. ASSUME ReachHub(r)
        PROVE  /\ LedgerStep(r, 1, 1)
               /\ charges'[r] # <<>>
               /\ polls'[r][Len(polls'[r])].state = "absent"
    BY <1>0, <1>1, LedgerReached
  <1>2. CASE ReachHub(r) /\ Proceed(r, "schedule", NoOrder) /\ UNCHANGED orderVars
    <2>1. UNCHANGED <<orders, job, jobOf, attempts, stalls>>
      BY <1>2 DEF orderVars
    <2>2. JobMoves(r) /\ phase'[r] = "schedule"
      BY <1>0, <1>2, <2>1 DEF Proceed, JobMoves, PipelineTypeOK, OrderTypeOK, WorkerTypeOK, Phases
    <2>3. Spent(r)' = Spent(r) /\ JobChannel(r)' = JobChannel(r)
      BY <2>1 DEF Spent, JobChannel
    <2>4. /\ Len(charges'[r]) <= Spent(r) + 1
          /\ Cardinality(Unpolled(r)') <= Spent(r) + 1
      <3>1. /\ Len(charges[r]) <= Spent(r) + 0
            /\ Cardinality(Unpolled(r)) <= Spent(r) + 0
        BY <1>0 DEF RefInv
      <3>2. /\ Len(charges'[r]) = Len(charges[r]) + 1
            /\ Cardinality(Unpolled(r)') = Cardinality(Unpolled(r)) + 1
        BY <1>1, <1>2 DEF LedgerStep
      <3>3. Len(charges[r]) \in Nat /\ Cardinality(Unpolled(r)) \in Nat /\ Spent(r) \in Nat
        BY <1>0, ActiveJob, UnpolledFinite, LenProperties DEF PipelineTypeOK, WorkerTypeOK
      <3> QED
        BY <3>1, <3>2, <3>3
    <2>5. JobInv(r)'
      BY <1>0, <1>1, <1>2, <2>1, <2>2, <2>3 DEF RefInv, JobInv, LedgerStep
    <2>6. SmoothRun(r)'
      BY <1>0, <2>1 DEF RefInv, SmoothRun
    <2>7. RefInv(r)'
      BY <1>0, <2>1, <2>2, <2>3, <2>4, <2>5, <2>6 DEF RefInv
    <2> QED
      BY <1>1, <1>2, <2>2, <2>7, WorkerStepKeeps
  <1>3. CASE Unreliable /\ ReachHub(r) /\ FailJob(r)
    <2>1. LedgerStep(r, 1, 1)
      BY <1>1, <1>3
    <2> QED
      BY <1>0, <1>3, <2>1, FailJobKeeps
  <1>4. CASE Unreliable /\ UNCHANGED <<charges, polls>> /\ FailJob(r)
    <2>1. LedgerStep(r, 0, 0) /\ phase[r] # "schedule"
      BY <1>0, <1>4, LedgerKept
    <2> QED
      BY <1>0, <1>4, <2>1, FailJobKeeps
  <1> QED
    BY <1>2, <1>3, <1>4 DEF Charge

\* A worker schedules the status check and completes its job, or throws, the
\* check scheduled or not.
LEMMA SchedulePollKeeps ==
  ASSUME PipelineInv, NEW r \in References, SchedulePoll(r), UNCHANGED requestVars
  PROVE  PipelineInv'
  <1> DEFINE last == Len(charges[r])
             Schedule == SetPoll(r, last, AddPoll(polls[r][last]))
  <1>0. /\ PipelineTypeOK /\ RefInv(r)
        /\ phase[r] = "schedule" /\ job[r] = "active"
        /\ charges' = charges
        /\ charges[r] # <<>>
    BY PipelineInvParts DEF SchedulePoll, RefInv, JobInv
  <1>1. ASSUME Schedule
        PROVE  LedgerStep(r, 0, -1)
    BY <1>0, <1>1, LedgerScheduled
  <1>2. CASE Schedule /\ CompleteJob(r)
    <2>1. /\ SetJob(r, "completed", "idle")
          /\ UNCHANGED <<attempts, stalls>>
          /\ "completed" \in JobStates \ {"absent"} /\ "idle" \in Phases
      BY <1>2 DEF CompleteJob, JobStates, Phases
    <2>2. /\ job' \in [References -> JobStates]
          /\ phase' \in [References -> Phases]
          /\ paymentOrder' \in [References -> Requests \cup {NoOrder}]
          /\ job'[r] = "completed" /\ phase'[r] = "idle" /\ paymentOrder'[r] = NoOrder
          /\ \A s \in References \ {r} :
                job'[s] = job[s] /\ phase'[s] = phase[s] /\ paymentOrder'[s] = paymentOrder[s]
          /\ orders' = orders /\ jobOf' = jobOf
          /\ \A s \in References : job'[s] = "absent" <=> jobOf'[s] = NoOrder
      BY <1>0, <2>1, SetJobEffect
    <2>3. JobMoves(r)
      BY <1>0, <2>1, <2>2 DEF JobMoves, PipelineTypeOK, OrderTypeOK
    <2>4. Spent(r)' = Spent(r) /\ JobChannel(r)' = JobChannel(r) /\ Spent(r) \in Nat
      BY <1>0, <2>1, <2>2, ActiveJob DEF Spent, JobChannel
    <2>5. /\ Len(charges'[r]) <= Spent(r) + 1
          /\ Cardinality(Unpolled(r)') <= Spent(r) + 0
      <3>1. /\ Len(charges[r]) <= Spent(r) + 1
            /\ Cardinality(Unpolled(r)) <= Spent(r) + 1
        BY <1>0 DEF RefInv
      <3>2. Cardinality(Unpolled(r)') = Cardinality(Unpolled(r)) + (-1)
        BY <1>1, <1>2 DEF LedgerStep
      <3>3. Cardinality(Unpolled(r)) \in Nat
        BY <1>0, UnpolledFinite
      <3> QED
        BY <1>0, <2>4, <3>1, <3>2, <3>3
    <2>6. JobInv(r)'
      BY <1>0, <1>1, <1>2, <2>1, <2>2, <2>4 DEF RefInv, JobInv, LedgerStep
    <2>7. SmoothRun(r)'
      BY <1>0, <2>1 DEF RefInv, SmoothRun
    <2>8. RefInv(r)'
      BY <1>0, <2>2, <2>4, <2>5, <2>6, <2>7 DEF RefInv
    <2> QED
      BY <1>1, <1>2, <2>3, <2>8, WorkerStepKeeps
  <1>3. CASE Unreliable /\ Schedule /\ FailJob(r)
    <2>1. LedgerStep(r, 0, -1)
      BY <1>1, <1>3
    <2> QED
      BY <1>0, <1>3, <2>1, FailJobKeeps
  <1>4. CASE Unreliable /\ UNCHANGED polls /\ FailJob(r)
    <2>1. LedgerStep(r, 0, 0)
      BY <1>0, <1>4, LedgerKept
    <2> QED
      BY <1>0, <1>4, <2>1, FailJobKeeps
  <1> QED
    BY <1>2, <1>3, <1>4 DEF SchedulePoll

\* A worker that dies leaves what it charged to be paid for by the stall.
LEMMA WorkerDiesKeeps ==
  ASSUME PipelineInv, NEW r \in References, WorkerDies(r), UNCHANGED requestVars
  PROVE  PipelineInv'
  <1> DEFINE state == IF stalls[r] < MaxStalls THEN "waiting" ELSE "failed"
  <1>0. /\ PipelineTypeOK /\ RefInv(r)
        /\ Unreliable /\ job[r] = "active"
        /\ UNCHANGED <<attempts, charges, polls>>
    BY PipelineInvParts DEF WorkerDies
  <1>1. SetJob(r, state, "idle") /\ state \in JobStates \ {"absent"}
    BY DEF WorkerDies, JobStates
  <1>2. /\ job' \in [References -> JobStates]
        /\ phase' \in [References -> Phases]
        /\ paymentOrder' \in [References -> Requests \cup {NoOrder}]
        /\ job'[r] = state /\ phase'[r] = "idle" /\ paymentOrder'[r] = NoOrder
        /\ \A s \in References \ {r} :
              job'[s] = job[s] /\ phase'[s] = phase[s] /\ paymentOrder'[s] = paymentOrder[s]
        /\ orders' = orders /\ jobOf' = jobOf
        /\ \A s \in References : job'[s] = "absent" <=> jobOf'[s] = NoOrder
    BY <1>0, <1>1, SetJobEffect DEF Phases
  <1>3. /\ orders[r] # NoOrder
        /\ attempts[r] \in Nat /\ stalls[r] \in Nat
        /\ attempts[r] < MaxAttempts /\ stalls[r] <= MaxStalls
        /\ Spent(r) \in Nat
    BY <1>0, ActiveJob
  <1>4. /\ stalls' = [stalls EXCEPT ![r] = stalls[r] + 1]
        /\ stalls[r] + 1 \in 0..(MaxStalls + 1)
        /\ stalls \in [References -> 0..(MaxStalls + 1)]
    BY <1>0, <1>3, OrderAssumption DEF WorkerDies, PipelineTypeOK, OrderTypeOK
  <1>5. /\ stalls' \in [References -> 0..(MaxStalls + 1)]
        /\ stalls'[r] = stalls[r] + 1
        /\ \A s \in References \ {r} : stalls'[s] = stalls[s]
    BY <1>4
  <1>6. JobMoves(r)
    BY <1>0, <1>2, <1>5 DEF JobMoves, PipelineTypeOK, OrderTypeOK
  <1>7. LedgerStep(r, 0, 0)
    BY <1>0, LedgerKept
  <1>8. /\ Spent(r)' = Spent(r) + 1
        /\ Spent(r) + 1 <= MaxAttempts + MaxStalls
        /\ JobChannel(r)' = JobChannel(r)
        /\ Unpolled(r)' = Unpolled(r)
    BY <1>0, <1>2, <1>3, <1>5, OrderAssumption DEF Spent, JobChannel, Unpolled
  <1>9. /\ Len(charges'[r]) <= Spent(r)'
        /\ Cardinality(Unpolled(r)') <= Spent(r)'
    <2>1. Len(charges[r]) \in Nat /\ Cardinality(Unpolled(r)) \in Nat
      BY <1>0, UnpolledFinite, LenProperties DEF PipelineTypeOK, WorkerTypeOK
    <2> QED
      BY <1>0, <1>3, <1>8, <2>1 DEF RefInv
  <1>10. (job[r] # "failed" => attempts[r] < MaxAttempts /\ stalls[r] <= MaxStalls)'
    BY <1>0, <1>2, <1>3, <1>5, OrderAssumption
  <1>11. (Spent(r) <= MaxAttempts + MaxStalls)'
    BY <1>8
  <1>12. JobInv(r)'
    BY <1>0, <1>1, <1>2, <1>8, <1>10, <1>11 DEF RefInv, JobInv
  <1>13. SmoothRun(r)'
    BY <1>0 DEF SmoothRun
  <1>14. RefInv(r)'
    <2>1. Spent(r)' + 0 = Spent(r)' /\ job'[r] # "completed"
      BY <1>2, <1>3, <1>8
    <2> QED
      BY <1>2, <1>3, <1>9, <1>12, <1>13, <2>1 DEF RefInv
  <1> QED
    BY <1>6, <1>7, <1>14, WorkerStepKeeps

-----------------------------------------------------------------------------
(* The status-check worker.                                                *)

\* A check that ran stays within the limits of its queue.
LEMMA PollActive ==
  ASSUME PipelineInv, NEW r \in References, NEW i \in DOMAIN polls[r],
         polls[r][i].state \in {"delayed", "active"}
  PROVE  /\ polls[r][i] \in PollType
         /\ PollInv(polls[r][i])
         /\ polls[r][i].made < MaxPollAttempts
         /\ polls[r][i].stalls <= MaxStalls
  <1>1. polls[r] \in Seq(PollType)
    BY DEF PipelineInv, PipelineTypeOK, WorkerTypeOK
  <1>2. polls[r][i] \in PollType
    BY <1>1, ElementOfSeq, LenProperties
  <1>3. PollInv(polls[r][i])
    BY DEF PipelineInv, JobInv
  <1> QED
    BY <1>2, <1>3 DEF PollInv

LEMMA TakePollKeeps ==
  ASSUME PipelineInv, NEW r \in References, NEW i \in DOMAIN polls[r],
         TakePoll(r, i), UNCHANGED requestVars
  PROVE  PipelineInv'
  <1> DEFINE old == polls[r][i]
             new == [old EXCEPT !.state = "active", !.asked = @ + 1]
  <1>1. /\ old.state = "delayed"
        /\ SetPoll(r, i, new)
        /\ UNCHANGED <<orderVars, phase, paymentOrder, charges>>
    BY DEF TakePoll
  <1>2. old \in PollType /\ PollInv(old)
    BY <1>1, PollActive
  <1>3. new \in PollType /\ new.state = "active"
    <2>1. old.asked + 1 \in Nat /\ "active" \in PollStates
      BY <1>2 DEF PollType, PollStates
    <2> QED
      BY <1>2, <2>1 DEF PollType
  <1>4. PollInv(new)
    BY <1>1, <1>2, OrderAssumption, QueueAssumption DEF PollInv, PollType
  <1> QED
    BY <1>1, <1>3, <1>4, PollStepKeeps

LEMMA EndPollKeeps ==
  ASSUME PipelineInv, NEW r \in References, NEW i \in DOMAIN polls[r],
         EndPoll(r, i), UNCHANGED requestVars
  PROVE  PipelineInv'
  <1> DEFINE old     == polls[r][i]
             pending == [old EXCEPT !.state = "pending"]
             decided == [old EXCEPT !.state = "decided"]
  <1>1. /\ old.state = "active"
        /\ UNCHANGED <<orderVars, phase, paymentOrder, charges>>
        /\ \/ SetPoll(r, i, decided)
           \/ SetPoll(r, i, IF pending.made < RequeueLimit THEN AddPoll(pending) ELSE pending)
    BY DEF EndPoll
  <1>2. old \in PollType /\ PollInv(old)
    BY <1>1, PollActive
  <1>3. /\ pending \in PollType /\ pending.state = "pending"
        /\ decided \in PollType /\ decided.state = "decided"
    BY <1>2 DEF PollType, PollStates
  <1>4. PollInv(pending) /\ PollInv(decided)
    BY <1>1, <1>2 DEF PollInv, PollType
  <1>5. AddPoll(pending) = pending
    BY <1>3 DEF AddPoll
  <1>6. SetPoll(r, i, decided) \/ SetPoll(r, i, pending)
    BY <1>1, <1>5
  <1> HIDE DEF pending, decided
  <1> QED
    BY <1>1, <1>3, <1>4, <1>6, PollStepKeeps

LEMMA FailPollKeeps ==
  ASSUME PipelineInv, NEW r \in References, NEW i \in DOMAIN polls[r],
         FailPoll(r, i), UNCHANGED requestVars
  PROVE  PipelineInv'
  <1> DEFINE old   == polls[r][i]
             made  == old.made + 1
             state == IF made < MaxPollAttempts THEN "delayed" ELSE "failed"
             new   == [old EXCEPT !.state = state, !.made = made]
  <1>1. /\ old.state = "active"
        /\ SetPoll(r, i, new)
        /\ UNCHANGED <<orderVars, phase, paymentOrder, charges>>
    BY DEF FailPoll
  <1>2. /\ old \in PollType /\ PollInv(old)
        /\ old.made < MaxPollAttempts /\ old.stalls <= MaxStalls
    BY <1>1, PollActive
  <1>3. new \in PollType /\ new.state = state /\ new.made = made
        /\ new.stalls = old.stalls /\ new.asked = old.asked
    <2>1. made \in 0..MaxPollAttempts /\ state \in PollStates
      BY <1>2, QueueAssumption DEF PollType, PollStates
    <2> HIDE DEF made, state
    <2> QED
      BY <1>2, <2>1 DEF PollType
  <1>4. PollInv(new)
    BY <1>1, <1>2, <1>3, OrderAssumption, QueueAssumption DEF PollInv, PollType
  <1>5. new.state # "absent"
    BY <1>3
  <1> HIDE DEF new
  <1> QED
    BY <1>1, <1>3, <1>4, <1>5, PollStepKeeps

LEMMA PollerDiesKeeps ==
  ASSUME PipelineInv, NEW r \in References, NEW i \in DOMAIN polls[r],
         PollerDies(r, i), UNCHANGED requestVars
  PROVE  PipelineInv'
  <1> DEFINE old   == polls[r][i]
             state == IF old.stalls < MaxStalls THEN "delayed" ELSE "failed"
             new   == [old EXCEPT !.state = state, !.stalls = @ + 1]
  <1>1. /\ old.state = "active"
        /\ SetPoll(r, i, new)
        /\ UNCHANGED <<orderVars, phase, paymentOrder, charges>>
    BY DEF PollerDies
  <1>2. /\ old \in PollType /\ PollInv(old)
        /\ old.made < MaxPollAttempts /\ old.stalls <= MaxStalls
    BY <1>1, PollActive
  <1>3. new \in PollType /\ new.state = state /\ new.made = old.made
        /\ new.stalls = old.stalls + 1 /\ new.asked = old.asked
    <2>1. old.stalls + 1 \in 0..(MaxStalls + 1) /\ state \in PollStates
      BY <1>2, OrderAssumption DEF PollType, PollStates
    <2> HIDE DEF state
    <2> QED
      BY <1>2, <2>1 DEF PollType
  <1>4. PollInv(new)
    BY <1>1, <1>2, <1>3, OrderAssumption, QueueAssumption DEF PollInv, PollType
  <1>5. new.state # "absent"
    BY <1>3
  <1> HIDE DEF new
  <1> QED
    BY <1>1, <1>3, <1>4, <1>5, PollStepKeeps

\* Every step of a worker.
LEMMA WorkerNextKeeps ==
  ASSUME PipelineInv, WorkerNext, UNCHANGED requestVars
  PROVE  PipelineInv'
  <1>1. PICK r \in References :
          \/ JobStep(r) \/ WorkerDies(r)
          \/ \E i \in DOMAIN polls[r] : PollStep(r, i) \/ PollerDies(r, i)
    BY DEF WorkerNext
  <1>2. CASE JobStep(r)
    BY <1>2, TakeJobKeeps, FindJobOrderKeeps, ChargeKeeps, SchedulePollKeeps
       DEF JobStep, StkPush, DirectDebit
  <1>3. CASE WorkerDies(r)
    BY <1>3, WorkerDiesKeeps
  <1>4. CASE \E i \in DOMAIN polls[r] : PollStep(r, i) \/ PollerDies(r, i)
    BY <1>4, TakePollKeeps, EndPollKeeps, FailPollKeeps, PollerDiesKeeps DEF PollStep
  <1> QED
    BY <1>1, <1>2, <1>3, <1>4

-----------------------------------------------------------------------------
(* The requests.                                                           *)

\* What a step of a request may change: its own place, its reference's row,
\* and its reference's job if there was none.
RequestMoves(q) ==
    /\ UNCHANGED <<workerVars, attempts, stalls>>
    /\ \A p \in Requests \ {q} :
          reqPc'[p] = reqPc[p] /\ reference'[p] = reference[p] /\ reply'[p] = reply[p]
    /\ \A r \in References :
          /\ orders'[r] = orders[r] \/ orders'[r] = q
          /\ \/ job'[r] = job[r] /\ jobOf'[r] = jobOf[r]
             \/ /\ job[r] = "absent" /\ job'[r] = "waiting"
                /\ jobOf'[r] = q /\ orders'[r] # NoOrder

\* A reference stays as it is, or gets a row, or a job for the row it has.
LEMMA RequestSparesReferences ==
  ASSUME PipelineTypeOK, NEW q \in Requests, RequestMoves(q),
         NEW r \in References, RefInv(r)
  PROVE  RefInv(r)'
  <1>1. /\ phase'[r] = phase[r] /\ paymentOrder'[r] = paymentOrder[r]
        /\ charges'[r] = charges[r] /\ polls'[r] = polls[r]
        /\ attempts'[r] = attempts[r] /\ stalls'[r] = stalls[r]
        /\ Unpolled(r)' = Unpolled(r) /\ Spent(r)' = Spent(r)
    BY DEF RequestMoves, workerVars, Unpolled, Spent
  <1>2. orders[r] # NoOrder => orders'[r] # NoOrder
    BY OrderAssumption DEF RequestMoves
  <1>3. CASE job'[r] = job[r] /\ jobOf'[r] = jobOf[r]
    <2>1. JobChannel(r)' = JobChannel(r)
      BY <1>3 DEF JobChannel
    <2>2. JobInv(r)' /\ SmoothRun(r)'
      BY <1>1, <1>3, <2>1 DEF RefInv, JobInv, SmoothRun, PollInv
    <2> QED
      BY <1>1, <1>2, <1>3, <2>2 DEF RefInv
  <1>4. CASE job[r] = "absent" /\ job'[r] = "waiting" /\ orders'[r] # NoOrder
    <2>1. charges[r] = <<>> /\ phase[r] = "idle" /\ charges'[r] = <<>>
      BY <1>1, <1>4 DEF RefInv, JobInv, PipelineTypeOK, WorkerTypeOK
    <2>2. DOMAIN charges'[r] = {}
      BY <2>1
    <2>3. JobInv(r)' /\ SmoothRun(r)'
      BY <1>1, <1>4, <2>1, <2>2 DEF RefInv, JobInv, SmoothRun, PollInv
    <2> QED
      BY <1>1, <1>4, <2>1, <2>3 DEF RefInv
  <1> QED
    BY <1>3, <1>4 DEF RequestMoves

\* Another request keeps what was true of it: only this one's fields appear.
LEMMA RequestSparesRequests ==
  ASSUME NEW q \in Requests, RequestMoves(q),
         NEW p \in Requests \ {q}, RequestInv(p)
  PROVE  RequestInv(p)'
  <1>1. /\ reqPc'[p] = reqPc[p] /\ reference'[p] = reference[p] /\ reply'[p] = reply[p]
        /\ charges' = charges /\ paymentOrder' = paymentOrder
        /\ Unsaved(p)' <=> Unsaved(p)
    BY DEF RequestMoves, workerVars, Unsaved
  <1>2. (reqPc[p] = "enqueue" => Row(p) # NoOrder)'
    <2>1. SUFFICES ASSUME reqPc[p] = "enqueue"
                   PROVE  orders'[reference[p]] # NoOrder
      BY <1>1 DEF Row
    <2>2. reference[p] \in References /\ orders[reference[p]] # NoOrder
      BY <2>1 DEF RequestInv, RequestRunning, Row
    <2> QED
      BY <2>2, OrderAssumption DEF RequestMoves
  <1>3. Unsaved(p) => \A r \in References : orders'[r] # p /\ jobOf'[r] # p
    BY DEF RequestMoves, RequestInv
  <1> QED
    BY <1>1, <1>2, <1>3 DEF RequestInv

\* So what is left to show of a request's step is the request itself.
LEMMA RequestStepKeeps ==
  ASSUME PipelineInv, NEW q \in Requests, RequestMoves(q),
         OrderTypeOK', RequestTypeOK', RequestInv(q)'
  PROVE  PipelineInv'
  <1>1. PipelineTypeOK'
    BY DEF PipelineInv, PipelineTypeOK, WorkerTypeOK, RequestMoves, workerVars
  <1>2. ASSUME NEW p \in Requests
        PROVE  RequestInv(p)'
    BY RequestSparesRequests, PipelineInvParts
  <1>3. ASSUME NEW r \in References
        PROVE  RefInv(r)'
    BY RequestSparesReferences, PipelineInvParts
  <1> QED
    BY <1>1, <1>2, <1>3, PipelineInvPartsNext

\* Advance and Respond move the request only.
LEMMA AdvanceEffect ==
  ASSUME RequestTypeOK, NEW q \in Requests,
         NEW label \in RequestRunning \cup {"crashed"}, Advance(q, label)
  PROVE  /\ reqPc' \in [Requests -> RequestRunning \cup {"idle", "done", "crashed"}]
         /\ reply' \in [Requests -> Replies]
         /\ reqPc'[q] = label /\ reply' = reply
         /\ \A p \in Requests \ {q} : reqPc'[p] = reqPc[p] /\ reply'[p] = reply[p]
  BY DEF Advance, RequestTypeOK

LEMMA RespondEffect ==
  ASSUME RequestTypeOK, NEW q \in Requests, NEW answer \in Replies, Respond(q, answer)
  PROVE  /\ reqPc' \in [Requests -> RequestRunning \cup {"idle", "done", "crashed"}]
         /\ reply' \in [Requests -> Replies]
         /\ reqPc'[q] = "done" /\ reply'[q] = answer
         /\ \A p \in Requests \ {q} : reqPc'[p] = reqPc[p] /\ reply'[p] = reply[p]
  BY DEF Respond, RequestTypeOK

\* A request that only moves on, having saved nothing.
LEMMA RequestAdvances ==
  ASSUME PipelineInv, NEW q \in Requests, reqPc[q] \in {"find", "select"},
         NEW label \in {"select", "insert", "update"}, Advance(q, label),
         UNCHANGED <<orderVars, reference, workerVars>>
  PROVE  PipelineInv'
  <1>0. PipelineTypeOK /\ RequestInv(q)
    BY DEF PipelineInv
  <1>1. /\ reqPc' \in [Requests -> RequestRunning \cup {"idle", "done", "crashed"}]
        /\ reply' \in [Requests -> Replies]
        /\ reqPc'[q] = label /\ reply' = reply
        /\ \A p \in Requests \ {q} : reqPc'[p] = reqPc[p] /\ reply'[p] = reply[p]
    BY <1>0, AdvanceEffect DEF PipelineTypeOK, RequestRunning
  <1>2. RequestMoves(q) /\ OrderTypeOK' /\ RequestTypeOK'
    BY <1>0, <1>1 DEF RequestMoves, orderVars, PipelineTypeOK, OrderTypeOK, RequestTypeOK
  <1>3. RequestInv(q)'
    BY <1>0, <1>1 DEF RequestInv, RequestRunning, Unsaved, Row, orderVars, workerVars
  <1> QED
    BY <1>2, <1>3, RequestStepKeeps

\* A request that ends, its order in the table or not.
LEMMA RequestEnds ==
  ASSUME PipelineInv, NEW q \in Requests, reqPc[q] \in RequestRunning,
         \/ Respond(q, "error")
         \/ Respond(q, "duplicate") /\ reqPc[q] = "find"
         \/ Advance(q, "crashed"),
         WriteOrder(q) \/ orders' = orders,
         orders' # orders => reqPc'[q] = "done" /\ reply'[q] = "error",
         UNCHANGED <<job, jobOf, attempts, stalls, reference, workerVars>>
  PROVE  PipelineInv'
  <1>0. PipelineTypeOK /\ RequestInv(q) /\ reference[q] \in References
    BY DEF PipelineInv, RequestInv
  <1>1. /\ reqPc' \in [Requests -> RequestRunning \cup {"idle", "done", "crashed"}]
        /\ reply' \in [Requests -> Replies]
        /\ \A p \in Requests \ {q} : reqPc'[p] = reqPc[p] /\ reply'[p] = reply[p]
        /\ \/ reqPc'[q] = "done" /\ reply'[q] = "error"
           \/ reqPc'[q] = "done" /\ reply'[q] = "duplicate" /\ reqPc[q] = "find"
           \/ reqPc'[q] = "crashed" /\ reply'[q] = reply[q]
    <2>1. CASE Respond(q, "error")
      BY <1>0, <2>1, RespondEffect DEF PipelineTypeOK, Replies
    <2>2. CASE Respond(q, "duplicate") /\ reqPc[q] = "find"
      BY <1>0, <2>2, RespondEffect DEF PipelineTypeOK, Replies
    <2>3. CASE Advance(q, "crashed")
      BY <1>0, <2>3, AdvanceEffect DEF PipelineTypeOK
    <2> QED
      BY <2>1, <2>2, <2>3
  <1>2. /\ orders' \in [References -> Requests \cup {NoOrder}]
        /\ \A r \in References : orders'[r] = orders[r] \/ orders'[r] = q
    BY <1>0 DEF WriteOrder, PipelineTypeOK, OrderTypeOK
  <1>3. RequestMoves(q) /\ OrderTypeOK' /\ RequestTypeOK'
    BY <1>0, <1>1, <1>2 DEF RequestMoves, PipelineTypeOK, OrderTypeOK, RequestTypeOK
  <1>4. Unsaved(q)' => reply'[q] = "duplicate" /\ reqPc[q] = "find" /\ orders' = orders
    BY <1>0, <1>1 DEF Unsaved, RequestInv
  <1>5. RequestInv(q)'
    BY <1>0, <1>1, <1>4 DEF RequestInv, RequestRunning, Unsaved, workerVars
  <1> QED
    BY <1>3, <1>5, RequestStepKeeps

\* A request's order is in the table.
LEMMA RequestSaves ==
  ASSUME PipelineInv, NEW q \in Requests, reqPc[q] \in RequestRunning,
         Advance(q, "enqueue"), WriteOrder(q),
         UNCHANGED <<job, jobOf, attempts, stalls, reference, workerVars>>
  PROVE  PipelineInv'
  <1>0. PipelineTypeOK /\ RequestInv(q) /\ reference[q] \in References
    BY DEF PipelineInv, RequestInv
  <1>1. /\ reqPc' \in [Requests -> RequestRunning \cup {"idle", "done", "crashed"}]
        /\ reply' \in [Requests -> Replies]
        /\ reqPc'[q] = "enqueue" /\ reply' = reply
        /\ \A p \in Requests \ {q} : reqPc'[p] = reqPc[p] /\ reply'[p] = reply[p]
    BY <1>0, AdvanceEffect DEF PipelineTypeOK, RequestRunning
  <1>2. /\ orders' \in [References -> Requests \cup {NoOrder}]
        /\ \A r \in References : orders'[r] = orders[r] \/ orders'[r] = q
        /\ orders'[reference[q]] = q
    BY <1>0 DEF WriteOrder, PipelineTypeOK, OrderTypeOK
  <1>3. RequestMoves(q) /\ OrderTypeOK' /\ RequestTypeOK'
    BY <1>0, <1>1, <1>2 DEF RequestMoves, PipelineTypeOK, OrderTypeOK, RequestTypeOK
  <1>4. RequestInv(q)'
    BY <1>0, <1>1, <1>2, OrderAssumption DEF RequestInv, RequestRunning, Unsaved, Row
  <1> QED
    BY <1>3, <1>4, RequestStepKeeps

LEMMA RequestKeeps ==
  ASSUME PipelineInv, NEW q \in Requests, Request(q), UNCHANGED workerVars
  PROVE  PipelineInv'
  <1>0. PipelineTypeOK /\ RequestInv(q) /\ reqPc[q] = "idle"
    BY DEF PipelineInv, Request
  <1>1. PICK r \in References : reference' = [reference EXCEPT ![q] = r]
    BY DEF Request
  <1>2. Advance(q, "find") \/ Respond(q, "unrouted")
    BY DEF Request
  <1>3. /\ reqPc' \in [Requests -> RequestRunning \cup {"idle", "done", "crashed"}]
        /\ reply' \in [Requests -> Replies]
        /\ \A p \in Requests \ {q} : reqPc'[p] = reqPc[p] /\ reply'[p] = reply[p]
        /\ \/ reqPc'[q] = "find" /\ reply'[q] = reply[q]
           \/ reqPc'[q] = "done" /\ reply'[q] = "unrouted"
    <2>1. CASE Advance(q, "find")
      BY <1>0, <2>1, AdvanceEffect DEF PipelineTypeOK, RequestRunning
    <2>2. CASE Respond(q, "unrouted")
      BY <1>0, <2>2, RespondEffect DEF PipelineTypeOK, Replies
    <2> QED
      BY <1>2, <2>1, <2>2
  <1>4. /\ reference' \in [Requests -> References \cup {NoReference}]
        /\ reference'[q] = r
        /\ \A p \in Requests \ {q} : reference'[p] = reference[p]
    BY <1>0, <1>1 DEF PipelineTypeOK, RequestTypeOK
  <1>5. UNCHANGED <<orders, job, jobOf, attempts, stalls>>
    BY DEF Request, orderVars
  <1>6. RequestMoves(q) /\ OrderTypeOK' /\ RequestTypeOK'
    BY <1>0, <1>3, <1>4, <1>5 DEF RequestMoves, PipelineTypeOK, OrderTypeOK, RequestTypeOK
  <1>7. RequestInv(q)'
    BY <1>0, <1>3, <1>4, <1>5 DEF RequestInv, RequestRunning, Unsaved, workerVars
  <1> QED
    BY <1>6, <1>7, RequestStepKeeps

LEMMA FindOrderKeeps ==
  ASSUME PipelineInv, NEW q \in Requests, FindOrder(q), UNCHANGED workerVars
  PROVE  PipelineInv'
  <1>1. /\ reqPc[q] = "find" /\ reqPc[q] \in RequestRunning
        /\ UNCHANGED <<orderVars, reference>>
        /\ UNCHANGED <<orders, job, jobOf, attempts, stalls>>
    BY DEF FindOrder, orderVars, RequestRunning
  <1>2. CASE Respond(q, "error") \/ Respond(q, "duplicate")
    BY <1>1, <1>2, RequestEnds
  <1>3. CASE Advance(q, "select")
    BY <1>1, <1>3, RequestAdvances
  <1> QED
    BY <1>2, <1>3 DEF FindOrder, RefuseDuplicate

LEMMA SelectOrderKeeps ==
  ASSUME PipelineInv, NEW q \in Requests, SelectOrder(q), UNCHANGED workerVars
  PROVE  PipelineInv'
  <1>1. /\ reqPc[q] = "select" /\ reqPc[q] \in RequestRunning
        /\ UNCHANGED <<orderVars, reference>>
        /\ UNCHANGED <<orders, job, jobOf, attempts, stalls>>
    BY DEF SelectOrder, orderVars, RequestRunning
  <1>2. CASE Respond(q, "error")
    BY <1>1, <1>2, RequestEnds
  <1>3. CASE Advance(q, "insert") \/ Advance(q, "update")
    BY <1>1, <1>3, RequestAdvances
  <1> QED
    BY <1>2, <1>3 DEF SelectOrder

\* INSERT and UPDATE alike: saved, or an error with or without the row.
LEMMA WriteKeeps ==
  ASSUME PipelineInv, NEW q \in Requests, InsertOrder(q) \/ UpdateOrder(q),
         UNCHANGED workerVars
  PROVE  PipelineInv'
  <1>1. /\ reqPc[q] \in RequestRunning
        /\ UNCHANGED <<job, jobOf, attempts, stalls, reference>>
    BY DEF InsertOrder, UpdateOrder, RequestRunning
  <1>2. CASE WriteOrder(q) /\ Advance(q, "enqueue")
    BY <1>1, <1>2, RequestSaves
  <1>3. CASE Respond(q, "error") /\ (WriteOrder(q) \/ UNCHANGED orders)
    <2>1. reqPc'[q] = "done" /\ reply'[q] = "error"
      BY <1>3 DEF Respond, PipelineInv, PipelineTypeOK, RequestTypeOK
    <2> QED
      BY <1>1, <1>3, <2>1, RequestEnds
  <1> QED
    BY <1>2, <1>3 DEF InsertOrder, UpdateOrder

\* A job is added at most once for a reference, and after its row.
LEMMA EnqueueKeeps ==
  ASSUME PipelineInv, NEW q \in Requests, Enqueue(q), UNCHANGED workerVars
  PROVE  PipelineInv'
  <1> DEFINE r == reference[q]
  <1>0. /\ PipelineTypeOK /\ RequestInv(q)
        /\ reqPc[q] = "enqueue" /\ r \in References /\ orders[r] # NoOrder
        /\ reqPc[q] \in RequestRunning
    BY DEF PipelineInv, Enqueue, RequestInv, RequestRunning, Row
  <1>1. \/ Respond(q, "accepted")
        \/ Respond(q, "error")
    BY DEF Enqueue
  <1>2. /\ reqPc' \in [Requests -> RequestRunning \cup {"idle", "done", "crashed"}]
        /\ reply' \in [Requests -> Replies]
        /\ \A p \in Requests \ {q} : reqPc'[p] = reqPc[p] /\ reply'[p] = reply[p]
        /\ reqPc'[q] = "done" /\ reply'[q] \in {"accepted", "error"}
    BY <1>0, <1>1, RespondEffect DEF PipelineTypeOK, Replies
  <1>3. AddJob(r, q) \/ UNCHANGED <<job, jobOf, attempts, stalls>>
    BY DEF Enqueue
  <1>4. UNCHANGED <<orders, attempts, stalls, reference, workerVars>>
    BY DEF Enqueue, AddJob
  <1>5. /\ job' \in [References -> JobStates]
        /\ jobOf' \in [References -> Requests \cup {NoOrder}]
        /\ \A s \in References :
              \/ job'[s] = job[s] /\ jobOf'[s] = jobOf[s]
              \/ s = r /\ job[s] = "absent" /\ job'[s] = "waiting" /\ jobOf'[s] = q
    BY <1>0, <1>3 DEF AddJob, PipelineTypeOK, OrderTypeOK, JobStates
  <1>6. RequestMoves(q)
    BY <1>0, <1>2, <1>4, <1>5 DEF RequestMoves
  <1>7. \A s \in References : job'[s] = "absent" <=> jobOf'[s] = NoOrder
    BY <1>0, <1>5, OrderAssumption DEF PipelineTypeOK, OrderTypeOK
  <1>8. OrderTypeOK' /\ RequestTypeOK'
    BY <1>0, <1>2, <1>4, <1>5, <1>7 DEF PipelineTypeOK, OrderTypeOK, RequestTypeOK
  <1>9. RequestInv(q)'
    BY <1>2 DEF RequestInv, RequestRunning, Unsaved
  <1> QED
    BY <1>6, <1>8, <1>9, RequestStepKeeps

\* Every step of a request.
LEMMA RequestNextKeeps ==
  ASSUME PipelineInv, RequestNext, UNCHANGED workerVars
  PROVE  PipelineInv'
  <1>1. PICK q \in Requests : Request(q) \/ RequestStep(q) \/ RequestCrash(q)
    BY DEF RequestNext
  <1>2. CASE RequestCrash(q)
    <2>1. /\ reqPc[q] \in RequestRunning /\ Advance(q, "crashed")
          /\ UNCHANGED <<orders, job, jobOf, attempts, stalls, reference>>
      BY <1>2 DEF RequestCrash, orderVars
    <2> QED
      BY <2>1, RequestEnds
  <1> QED
    BY <1>1, <1>2, RequestKeeps, FindOrderKeeps, SelectOrderKeeps, WriteKeeps,
       EnqueueKeeps DEF RequestStep

-----------------------------------------------------------------------------
(* The invariant, and what follows from it.                                *)

LEMMA PipelineInitInv == PipelineInit => PipelineInv
  <1> SUFFICES ASSUME PipelineInit
               PROVE  PipelineInv
    OBVIOUS
  <1> USE DEF PipelineInit, OrderInit, RequestInit, WorkerInit
  <1>1. PipelineTypeOK
    BY OrderAssumption, EmptySeq
       DEF PipelineTypeOK, OrderTypeOK, RequestTypeOK, WorkerTypeOK, JobStates,
           RequestRunning, Replies, Phases
  <1>2. ASSUME NEW q \in Requests
        PROVE  RequestInv(q)
    BY OrderAssumption DEF RequestInv, RequestRunning, Unsaved
  <1>3. ASSUME NEW r \in References
        PROVE  RefInv(r)
    <2>1. /\ DOMAIN charges[r] = {} /\ DOMAIN polls[r] = {}
          /\ charges[r] = <<>> /\ Len(charges[r]) = 0
          /\ Spent(r) = 0
      BY DEF Spent
    <2>2. Unpolled(r) = {}
      BY <2>1 DEF Unpolled
    <2>3. Cardinality(Unpolled(r)) = 0
      BY <2>2, FS_EmptySet
    <2>4. JobInv(r) /\ SmoothRun(r)
      BY <2>1, OrderAssumption DEF JobInv, SmoothRun
    <2> QED
      BY <2>1, <2>3, <2>4 DEF RefInv
  <1> QED
    BY <1>1, <1>2, <1>3, PipelineInvParts

LEMMA PipelineNextInv == PipelineInv /\ [PipelineNext]_pipelineVars => PipelineInv'
  <1> SUFFICES ASSUME PipelineInv, [PipelineNext]_pipelineVars
               PROVE  PipelineInv'
    OBVIOUS
  <1>1. CASE UNCHANGED pipelineVars
    BY <1>1 DEF pipelineVars, orderVars, requestVars, workerVars, PipelineInv,
       PipelineTypeOK, OrderTypeOK, RequestTypeOK, WorkerTypeOK, JobHasOrder,
       ChargesPaidFor, UnpolledPaidFor, RequestInv, Row, Unsaved, JobInv, JobChannel,
       PollInv, SmoothRun, Spent, Unpolled
  <1> QED
    BY <1>1, RequestNextKeeps, WorkerNextKeeps DEF PipelineNext

\* The invariant holds in every state: whatever requests race, calls fail and
\* processes die, orders, jobs, charges and status checks fit together.
THEOREM PipelineInvariance == PipelineSpec => []PipelineInv
  BY PipelineInitInv, PipelineNextInv, PTL DEF PipelineSpec

\* Every variable stays in its type.
THEOREM PipelineTypeCorrect == PipelineSpec => []PipelineTypeOK
  <1>1. PipelineInv => PipelineTypeOK
    BY DEF PipelineInv
  <1> QED
    BY <1>1, PipelineInvariance, PTL

\* A worker never finds a job whose order is missing: addPaymentInitiationJob
\* runs after create() on every path, and AddJob is ignored afterwards.
THEOREM JobsHaveOrders == PipelineSpec => []JobHasOrder
  <1>1. PipelineInv => JobHasOrder
    BY DEF PipelineInv
  <1> QED
    BY <1>1, PipelineInvariance, PTL

\* A request refused as a duplicate attempt leaves nothing behind.
THEOREM RefusalsLeaveNoTrace == PipelineSpec => []RefusedLeavesNoTrace
  <1>1. PipelineInv => RefusedLeavesNoTrace
    BY DEF PipelineInv, RefusedLeavesNoTrace, RequestInv, Unsaved
  <1> QED
    BY <1>1, PipelineInvariance, PTL

\* Every charge but the last is owed to a run that threw or died.
THEOREM ChargesArePaidFor == PipelineSpec => []ChargesPaidFor
  <1>1. PipelineInv => ChargesPaidFor
    BY DEF PipelineInv
  <1> QED
    BY <1>1, PipelineInvariance, PTL

\* Every charge without a status check is owed to a run that threw or died.
THEOREM UnpolledArePaidFor == PipelineSpec => []UnpolledPaidFor
  <1>1. PipelineInv => UnpolledPaidFor
    BY DEF PipelineInv
  <1> QED
    BY <1>1, PipelineInvariance, PTL

\* A reference is charged at most once for each run that its queue allows.
THEOREM ChargesAreBounded == PipelineSpec => []ChargesBounded
  <1>1. ASSUME PipelineInv, NEW r \in References
        PROVE  Len(charges[r]) <= MaxAttempts + MaxStalls
    <2>0. PipelineTypeOK /\ RefInv(r)
      BY <1>1, PipelineInvParts
    <2>1. /\ attempts[r] \in Nat /\ stalls[r] \in Nat
          /\ charges[r] \in Seq(ChargeType)
      BY <2>0, OrderAssumption DEF PipelineTypeOK, OrderTypeOK, WorkerTypeOK
    <2>2. Len(charges[r]) \in Nat /\ Spent(r) \in Nat
      BY <2>1, LenProperties DEF Spent
    <2>3. /\ Spent(r) <= MaxAttempts + MaxStalls
          /\ job[r] # "failed" => attempts[r] < MaxAttempts /\ stalls[r] <= MaxStalls
          /\ phase[r] = "schedule" => job[r] = "active"
      BY <2>0 DEF RefInv, JobInv
    <2>4. CASE job[r] = "failed"
      <3>1. Len(charges[r]) <= Spent(r) + 0
        BY <2>0, <2>3, <2>4 DEF RefInv
      <3> QED
        BY <2>2, <2>3, <3>1, OrderAssumption
    <2>5. CASE job[r] # "failed"
      <3>1. Spent(r) + 1 <= MaxAttempts + MaxStalls
        BY <2>1, <2>3, <2>5, OrderAssumption DEF Spent
      <3>2. Len(charges[r]) <= Spent(r) + 1
        BY <2>0, <2>2 DEF RefInv
      <3> QED
        BY <2>2, <3>1, <3>2, OrderAssumption
    <2> QED
      BY <2>4, <2>5
  <1>2. PipelineInv => ChargesBounded
    BY <1>1 DEF ChargesBounded
  <1> QED
    BY <1>2, PipelineInvariance, PTL

\* The hub is asked for a transaction at most once for each run of its check.
THEOREM AskingIsBounded == PipelineSpec => []AskedBounded
  <1>1. ASSUME PipelineInv, NEW r \in References, NEW i \in DOMAIN polls[r]
        PROVE  polls[r][i].asked <= MaxPollAttempts + MaxStalls
    <2>1. polls[r][i] \in PollType /\ PollInv(polls[r][i])
      BY <1>1, ElementOfSeq, LenProperties
         DEF PipelineInv, PipelineTypeOK, WorkerTypeOK, JobInv
    <2> QED
      BY <2>1, OrderAssumption, QueueAssumption DEF PollInv, PollType, PollStates
  <1>2. PipelineInv => AskedBounded
    BY <1>1 DEF AskedBounded
  <1> QED
    BY <1>2, PipelineInvariance, PTL

\* All charges of a reference go through its job's channel.
THEOREM ChargesByOneChannel == PipelineSpec => []OneChannel
  <1>1. PipelineInv => OneChannel
    BY DEF PipelineInv, JobInv, OneChannel
  <1> QED
    BY <1>1, PipelineInvariance, PTL

\* When no call fails and no process dies, a reference is charged at most once,
\* however its requests race.
THEOREM ChargesOnce ==
  ASSUME ~Unreliable
  PROVE  PipelineSpec => []ChargedOnce
  <1>1. ASSUME PipelineInv, NEW r \in References
        PROVE  Len(charges[r]) <= 1
    <2>0. PipelineTypeOK /\ RefInv(r)
      BY <1>1, PipelineInvParts
    <2>1. CASE Wired
      <3>1. Spent(r) = 0
        BY <2>0, <2>1 DEF RefInv, SmoothRun, Spent
      <3>2. Len(charges[r]) \in Nat
        BY <2>0, LenProperties DEF PipelineTypeOK, WorkerTypeOK
      <3> QED
        BY <2>0, <3>1, <3>2 DEF RefInv
    <2>2. CASE ~Wired
      <3>1. charges[r] = <<>>
        BY <2>0, <2>2 DEF RefInv, SmoothRun
      <3> QED
        BY <3>1
    <2> QED
      BY <2>1, <2>2
  <1>2. PipelineInv => ChargedOnce
    BY <1>1 DEF ChargedOnce
  <1> QED
    BY <1>2, PipelineInvariance, PTL

-----------------------------------------------------------------------------
(* PaymentPipeline implements ChargePromise.                               *)

\* The refinement mapping.
orderedBar   == {r \in References : orders[r] # NoOrder}
committedBar == [r \in References |-> IF job[r] = "absent" THEN "none" ELSE JobChannel(r)]
chargedBar   == [r \in References |-> ChannelsOf(charges[r])]
budgetBar    == IF Unreliable THEN MaxAttempts + MaxStalls ELSE 1

\* The channels of a reference's charges are as many as the charges ...
LEMMA ChannelsOfLen ==
  ASSUME NEW s \in Seq(ChargeType)
  PROVE  ChannelsOf(s) \in Seq(Channels) /\ Len(ChannelsOf(s)) = Len(s)
  <1>1. Len(s) \in Nat /\ DOMAIN s = 1..Len(s) /\ s \in [1..Len(s) -> ChargeType]
    BY LenProperties
  <1>2. ChannelsOf(s) \in [1..Len(s) -> Channels]
    BY <1>1 DEF ChannelsOf, ChargeType
  <1>3. ChannelsOf(s) \in Seq(Channels)
    BY <1>1, <1>2, SeqDef
  <1>4. Len(ChannelsOf(s)) = Len(s)
    BY <1>1, <1>2, <1>3, LenProperties
  <1> QED
    BY <1>3, <1>4

\* ... and one more charge is one more channel.
LEMMA ChannelsOfMore ==
  ASSUME NEW s \in Seq(ChargeType), NEW t \in Seq(ChargeType), NEW channel \in Channels,
         Len(t) = Len(s) + 1, t[Len(t)].channel = channel,
         \A i \in DOMAIN s : t[i] = s[i]
  PROVE  ChannelsOf(t) = Append(ChannelsOf(s), channel)
  <1> DEFINE n == Len(s)
             a == ChannelsOf(t)
             b == Append(ChannelsOf(s), channel)
  <1>1. n \in Nat /\ DOMAIN s = 1..n /\ DOMAIN t = 1..(n + 1)
    BY LenProperties
  <1>2. /\ a \in Seq(Channels) /\ Len(a) = n + 1
        /\ ChannelsOf(s) \in Seq(Channels) /\ Len(ChannelsOf(s)) = n
    BY <1>1, ChannelsOfLen
  <1>3. /\ b \in Seq(Channels) /\ Len(b) = n + 1 /\ b[n + 1] = channel
        /\ \A i \in 1..n : b[i] = ChannelsOf(s)[i]
    BY <1>1, <1>2
  <1>4. a[n + 1] = channel /\ \A i \in 1..n : a[i] = ChannelsOf(s)[i]
    BY <1>1 DEF ChannelsOf
  <1>5. \A i \in 1..(n + 1) : a[i] = b[i]
    BY <1>1, <1>3, <1>4
  <1> HIDE DEF a, b
  <1>6. a = b
    BY <1>1, <1>2, <1>3, <1>5, SeqEqual
  <1> QED
    BY <1>6 DEF a, b

\* Nothing is ordered, committed or charged at the start.
LEMMA PromiseInit == PipelineInit => Promise!Init
  <1> SUFFICES ASSUME PipelineInit
               PROVE  Promise!Init
    OBVIOUS
  <1>1. orderedBar = {}
    BY DEF PipelineInit, OrderInit, orderedBar
  <1>2. committedBar = [r \in References |-> "none"]
    BY DEF PipelineInit, OrderInit, committedBar
  <1>3. chargedBar = [r \in References |-> <<>>]
    <2>1. ASSUME NEW r \in References
          PROVE  ChannelsOf(charges[r]) = <<>>
      BY DEF PipelineInit, WorkerInit, ChannelsOf
    <2> QED
      BY <2>1 DEF chargedBar
  <1> QED
    BY <1>1, <1>2, <1>3 DEF Promise!Init, orderedBar, committedBar, chargedBar

\* A worker commits no reference and takes no order back.
LEMMA WorkerNeverCommits ==
  ASSUME PipelineInv, PipelineInv', WorkerNext
  PROVE  orderedBar' = orderedBar /\ committedBar' = committedBar
  <1>1. orders' = orders /\ jobOf' = jobOf
    BY DEF WorkerNext, JobStep, TakeJob, FindJobOrder, StkPush, DirectDebit, Charge,
       SchedulePoll, CompleteJob, FailJob, SetJob, WorkerDies, PollStep, TakePoll,
       EndPoll, FailPoll, PollerDies, orderVars
  <1>2. \A r \in References : job'[r] = "absent" <=> job[r] = "absent"
    BY <1>1 DEF PipelineInv, PipelineTypeOK, OrderTypeOK
  <1>3. orderedBar' = orderedBar
    BY <1>1 DEF orderedBar
  <1>4. committedBar' = committedBar
    BY <1>1, <1>2 DEF committedBar, JobChannel
  <1> QED
    BY <1>3, <1>4

LEMMA PromiseStep ==
  ASSUME NEW r \in References,
         Promise!Place(r) \/ Promise!Commit(r) \/ Promise!Charge(r)
  PROVE  [Promise!Next]_(Promise!vars)
  BY DEF Promise!Next

\* A charge that reaches the hub is one the budget allows.
LEMMA ReachHubPromised ==
  ASSUME PipelineInv, NEW r \in References, phase[r] = "charge", ReachHub(r),
         orderedBar' = orderedBar, committedBar' = committedBar
  PROVE  Promise!Charge(r)
  <1>0. /\ PipelineTypeOK /\ RefInv(r)
        /\ job[r] = "active" /\ Wired /\ paymentOrder[r] # NoOrder
    BY PipelineInvParts DEF RefInv, JobInv
  <1>1. /\ attempts[r] \in Nat /\ stalls[r] \in Nat
        /\ attempts[r] < MaxAttempts /\ stalls[r] <= MaxStalls
        /\ jobOf[r] # NoOrder
    BY <1>0, ActiveJob
  <1>2. Reached(r)
    BY <1>0, ActiveJob, ReachHubEffect
  <1>3. JobChannel(r) \in Channels
    BY <1>0, <1>1, OrderAssumption DEF PipelineTypeOK, OrderTypeOK, JobChannel
  <1>4. charges[r] \in Seq(ChargeType) /\ charges'[r] \in Seq(ChargeType)
    BY <1>0, <1>2 DEF Reached, PipelineTypeOK, WorkerTypeOK
  <1>5. Len(charges[r]) \in Nat /\ Len(charges[r]) < budgetBar
    <2>1. Len(charges[r]) \in Nat
      BY <1>4, LenProperties
    <2>2. Len(charges[r]) <= Spent(r) + 0
      BY <1>0 DEF RefInv
    <2>3. CASE Unreliable
      BY <1>1, <2>1, <2>2, <2>3, OrderAssumption DEF Spent, budgetBar
    <2>4. CASE ~Unreliable
      <3>1. Spent(r) = 0
        BY <1>0, <2>4 DEF RefInv, SmoothRun, Spent
      <3> QED
        BY <2>1, <2>2, <2>4, <3>1 DEF budgetBar
    <2> QED
      BY <2>1, <2>3, <2>4
  <1>6. ChannelsOf(charges'[r]) = Append(ChannelsOf(charges[r]), JobChannel(r))
    <2>1. /\ Len(charges'[r]) = Len(charges[r]) + 1
          /\ \A i \in DOMAIN charges[r] : charges'[r][i] = charges[r][i]
          /\ charges'[r][Len(charges'[r])].channel = JobChannel(r)
      BY <1>2 DEF Reached
    <2> QED
      BY <1>3, <1>4, <2>1, ChannelsOfMore
  <1>7. \A s \in References \ {r} : chargedBar'[s] = chargedBar[s]
    BY <1>2 DEF Reached, chargedBar
  <1>8. committedBar[r] = JobChannel(r) /\ committedBar[r] # "none"
    BY <1>0, <1>3 DEF committedBar, Channels
  <1>9. chargedBar' = [chargedBar EXCEPT ![r] = Append(chargedBar[r], committedBar[r])]
    BY <1>6, <1>7, <1>8 DEF chargedBar
  <1>10. Len(chargedBar[r]) < budgetBar
    BY <1>4, <1>5, ChannelsOfLen DEF chargedBar
  <1> QED
    BY <1>8, <1>9, <1>10
    DEF Promise!Charge, orderedBar, committedBar, chargedBar, budgetBar

\* A step of a worker is the abstract Charge or a stutter.
LEMMA WorkerPromised ==
  ASSUME PipelineInv, PipelineInv', WorkerNext
  PROVE  [Promise!Next]_(Promise!vars)
  <1>1. orderedBar' = orderedBar /\ committedBar' = committedBar
    BY WorkerNeverCommits
  <1>2. CASE UNCHANGED charges
    <2>1. chargedBar' = chargedBar
      BY <1>2 DEF chargedBar
    <2> QED
      BY <1>1, <2>1 DEF Promise!vars, orderedBar, committedBar, chargedBar
  <1>3. CASE \E r \in References : phase[r] = "charge" /\ ReachHub(r)
    BY <1>1, <1>3, ReachHubPromised, PromiseStep
  <1> QED
    BY <1>2, <1>3 DEF WorkerNext, JobStep, TakeJob, FindJobOrder, StkPush, DirectDebit,
       Charge, SchedulePoll, WorkerDies, PollStep, TakePoll, EndPoll, FailPoll, PollerDies

\* A saved row is the abstract Place, a job the abstract Commit; a request that
\* finds either there already, or ends without, is a stutter.
LEMMA RequestPromised ==
  ASSUME PipelineInv, RequestNext, UNCHANGED workerVars
  PROVE  [Promise!Next]_(Promise!vars)
  <1>0. chargedBar' = chargedBar
    BY DEF workerVars, chargedBar
  <1>1. PICK q \in Requests : Request(q) \/ RequestStep(q) \/ RequestCrash(q)
    BY DEF RequestNext
  <1>2. PipelineTypeOK /\ RequestInv(q)
    BY DEF PipelineInv
  <1>r. PICK r : r = reference[q]
    OBVIOUS
  <1>3. CASE UNCHANGED <<orders, job, jobOf>>
    <2>1. orderedBar' = orderedBar /\ committedBar' = committedBar
      BY <1>3 DEF orderedBar, committedBar, JobChannel
    <2> QED
      BY <1>0, <2>1 DEF Promise!vars, orderedBar, committedBar, chargedBar
  <1>4. CASE reqPc[q] \in RequestRunning /\ WriteOrder(q) /\ UNCHANGED <<job, jobOf>>
    <2>1. r \in References /\ orders' = [orders EXCEPT ![r] = q]
      BY <1>2, <1>4, <1>r DEF RequestInv, WriteOrder
    <2>2. orderedBar' = orderedBar \cup {r}
      BY <1>2, <2>1, OrderAssumption DEF orderedBar, PipelineTypeOK, OrderTypeOK
    <2>3. committedBar' = committedBar
      BY <1>4 DEF committedBar, JobChannel
    <2>4. Promise!Place(r)
      BY <1>0, <2>2, <2>3 DEF Promise!Place, orderedBar, committedBar, chargedBar
    <2> QED
      BY <2>1, <2>4, PromiseStep
  <1>5. CASE reqPc[q] = "enqueue" /\ AddJob(r, q) /\ UNCHANGED orders
    <2>1. r \in References /\ orders[r] # NoOrder
      BY <1>2, <1>5, <1>r DEF RequestInv, RequestRunning, Row
    <2>2. CASE job[r] # "absent"
      BY <1>3, <1>5, <2>2 DEF AddJob
    <2>3. CASE job[r] = "absent"
      <3>1. /\ job' = [job EXCEPT ![r] = "waiting"]
            /\ jobOf' = [jobOf EXCEPT ![r] = q]
        BY <1>5, <2>3 DEF AddJob
      <3>2. /\ job'[r] = "waiting" /\ jobOf'[r] = q
            /\ \A s \in References \ {r} : job'[s] = job[s] /\ jobOf'[s] = jobOf[s]
        BY <1>2, <2>1, <3>1 DEF PipelineTypeOK, OrderTypeOK
      <3>3. orderedBar' = orderedBar /\ r \in orderedBar
        BY <1>5, <2>1 DEF orderedBar
      <3>4. /\ committedBar[r] = "none"
            /\ committedBar' = [committedBar EXCEPT ![r] = ChannelOf[q]]
        BY <2>1, <2>3, <3>2 DEF committedBar, JobChannel
      <3>5. ChannelOf[q] \in Channels
        BY OrderAssumption
      <3>6. Promise!Commit(r)
        BY <1>0, <3>3, <3>4, <3>5
        DEF Promise!Commit, orderedBar, committedBar, chargedBar
      <3> QED
        BY <2>1, <3>6, PromiseStep
    <2> QED
      BY <2>2, <2>3
  <1>6. \/ UNCHANGED <<orders, job, jobOf>>
        \/ reqPc[q] \in RequestRunning /\ WriteOrder(q) /\ UNCHANGED <<job, jobOf>>
        \/ reqPc[q] = "enqueue" /\ AddJob(r, q) /\ UNCHANGED orders
    BY <1>1, <1>r DEF Request, RequestStep, FindOrder, SelectOrder, InsertOrder, UpdateOrder,
       Enqueue, RequestCrash, RequestRunning, orderVars
  <1> QED
    BY <1>3, <1>4, <1>5, <1>6

LEMMA PromiseNext ==
  ASSUME PipelineInv, PipelineInv', [PipelineNext]_pipelineVars
  PROVE  [Promise!Next]_(Promise!vars)
  <1>1. CASE UNCHANGED pipelineVars
    <2>1. orderedBar' = orderedBar /\ committedBar' = committedBar /\ chargedBar' = chargedBar
      BY <1>1 DEF pipelineVars, orderVars, workerVars, orderedBar, committedBar,
         chargedBar, JobChannel
    <2> QED
      BY <2>1 DEF Promise!vars, orderedBar, committedBar, chargedBar
  <1> QED
    BY <1>1, RequestPromised, WorkerPromised DEF PipelineNext

\* Payment initiation keeps the promise of ChargePromise: each reference is
\* committed to one channel for good once its row is there, and charged through
\* it within the budget of its job's runs, once when nothing fails.
THEOREM ChargesArePromised == PipelineSpec => ChargesAsPromised
  <1>1. PipelineInv /\ PipelineInv' /\ [PipelineNext]_pipelineVars
        => [Promise!Next]_(Promise!vars)
    BY PromiseNext
  <1> QED
    BY <1>1, PromiseInit, PipelineInvariance, PTL
    DEF PipelineSpec, ChargesAsPromised, Promise!Spec

=============================================================================
