------------------------ MODULE CommitmentDeadline ------------------------
(***************************************************************************)
(* From a reply to a verified promise: the extraction operations that may  *)
(* find a commitment in replies to one message, the one-time schedule of   *)
(* its deadline, the due events that schedule and the demo clock deliver,  *)
(* and the watcher that marks the commitment due.                          *)
(*                                                                         *)
(* A command that reads and commits under conditions on what it read is    *)
(* one action.  The worker is split where it calls out -- the model, the   *)
(* scheduler -- and at its conditional writes; the watcher between its     *)
(* load and its commit.                                                    *)
(*                                                                         *)
(* Each status of the commitment is entered once, so its version is its    *)
(* status, and the case follows it in the same transactions: ACTIONED      *)
(* before the promise, VERIFYING while it is open, RESOLVED or             *)
(* READY_FOR_ACTION after.  Neither is a variable of its own.  No command  *)
(* reschedules: the generation is 1 throughout.                            *)
(***************************************************************************)
EXTENDS Naturals, FiniteSets

CONSTANTS
    Ops,           \* EXTRACT_COMMITMENT operations, one per reply
    Inputs,        \* what deployments ask with (destination label, prompt version), numbered in
                   \* the order an operation is asked with them
    Workers,       \* worker invocations that may run at once
    Watchers,      \* watcher invocations that may run at once
    None,          \* the absent value
    Due,           \* due_at of the commitment, on the logical clock
    Window,        \* MAX_WORKER_EXECUTION_WINDOW
    Retries,       \* MAXIMUM_RETRY_ATTEMPTS of the schedule's target
    Horizon,       \* bound: the clock stops here
    Spare,         \* bound: redeliveries and repeated requests
    Faults         \* bound: errors, lost workers, failed and duplicated invocations

ASSUME NumberAssumption ==
    /\ Inputs \subseteq Nat
    /\ Due \in Nat /\ Window \in Nat /\ Retries \in Nat
    /\ Horizon \in Nat /\ Spare \in Nat /\ Faults \in Nat

VARIABLES
    op,            \* per operation: the ApplicationOperation row
    jobs,          \* per operation: handed-over jobs not yet delivered
    spare,         \* how many redeliveries and repeated requests are left
    record,        \* per operation: what its invocation record names
    basis,         \* per operation: the input that record is bound to
    calls,         \* per operation and input: how often the model was asked
    commitment,    \* status of the commitment, "NONE" before it is applied
    projection,    \* the schedule projection: status and version
    schedule,      \* the one-time schedule of the derived name, and how it fired
    inflight,      \* create requests whose answer was lost and that may still land
    retained,      \* some side-effect intent stays in progress without its worker
    pc,            \* per worker: its next step
    mem,           \* per worker: operation, version held, projection seen, clock bound, input
    clock,         \* the demo clock row
    deliveries,    \* per trigger: watcher invocations owed
    retries,       \* attempts the schedule's target has left
    faults,        \* how much may still fail
    watch,         \* per watcher: the trigger of the event it is about to commit
    asked          \* the verification request exists

working == <<op, jobs, spare, record, basis, calls, pc, mem, retained>>
watching == <<deliveries, retries, faults, watch, asked>>
vars == <<working, commitment, projection, schedule, inflight, clock, watching>>

Statuses == {"NONE", "PENDING", "DUE", "VERIFIED"}
Triggers == {"SCHEDULE", "DEMO_CLOCK"}

ASSUME NoneAssumption == None \notin Inputs /\ None \notin Ops \union Triggers

OpStates == {"ABSENT", "PENDING", "RUNNING", "SUCCEEDED", "FAILED"}
Steps == {"idle", "claim", "extract", "apply", "schedule", "create", "complete", "describe",
          "created", "failed", "succeed", "fail", "release"}
Idle == [job |-> None, held |-> 0, seen |-> 0, at |-> 0, input |-> None]

(* What an invocation record may say: a commitment it created, one that was *)
(* live already and is handed back, or none.                                *)
Records == {"NONE", "COMMITMENT", "EXISTING", "REJECTED"}

TypeOK ==
    /\ op \in [Ops -> [status : OpStates, version : Nat, since : Nat]]
    /\ jobs \in [Ops -> Nat] /\ spare \in Nat
    /\ record \in [Ops -> Records] /\ basis \in [Ops -> Inputs \union {None}]
    /\ calls \in [Ops -> [Inputs -> Nat]]
    /\ commitment \in Statuses
    /\ projection \in [status : {"NONE", "PENDING_SCHEDULE", "CREATED"}, version : Nat]
    /\ schedule \in {"NONE", "STANDING", "EARLY", "FIRED"}
    /\ inflight \in Nat /\ retained \in BOOLEAN
    /\ pc \in [Workers -> Steps]
    /\ mem \in [Workers -> [job : Ops \union {None}, held : Nat, seen : Nat, at : Nat,
                            input : Inputs \union {None}]]
    /\ clock \in Nat /\ retries \in Nat /\ faults \in Nat
    /\ deliveries \in [Triggers -> Nat]
    /\ watch \in [Watchers -> Triggers \union {None}]
    /\ asked \in BOOLEAN
    /\ \A w \in Workers : pc[w] = "idle" <=> mem[w].job = None

Init ==
    /\ op = [o \in Ops |-> [status |-> "ABSENT", version |-> 0, since |-> 0]]
    /\ jobs = [o \in Ops |-> 0] /\ spare = Spare
    /\ record = [o \in Ops |-> "NONE"] /\ basis = [o \in Ops |-> None]
    /\ calls = [o \in Ops |-> [i \in Inputs |-> 0]]
    /\ commitment = "NONE" /\ projection = [status |-> "NONE", version |-> 0]
    /\ schedule = "NONE" /\ inflight = 0 /\ retained = FALSE
    /\ pc = [w \in Workers |-> "idle"] /\ mem = [w \in Workers |-> Idle]
    /\ clock = 0 /\ deliveries = [t \in Triggers |-> 0] /\ retries = 0 /\ faults = Faults
    /\ watch = [d \in Watchers |-> None] /\ asked = FALSE

-----------------------------------------------------------------------------
(* The operation row, and a worker's place in it.                           *)

(* The start of a run counts while it runs only.                            *)
SetStatus(o, s) ==
    op' = [op EXCEPT ![o] = [status |-> s, version |-> @.version + 1, since |-> 0]]

GoTo(w, step) == pc' = [pc EXCEPT ![w] = step]

(* The projection and the input are done with.                              *)
End(w, step) == GoTo(w, step) /\ mem' = [mem EXCEPT ![w].seen = 0, ![w].input = None]

(* The worker's side-effect intent is written and not completed.            *)
InProgress(w) == pc[w] \in {"create", "complete", "describe"}

(* Broken variant: what the worker held outlives it.                        *)
Leave_KeepsMemory(w) ==
    /\ GoTo(w, "idle") /\ UNCHANGED mem
    /\ retained' = (retained \/ InProgress(w))

(* The worker is gone, or its process is; an intent it has in progress is   *)
(* never completed.                                                         *)
Leave(w) ==
    /\ GoTo(w, "idle") /\ mem' = [mem EXCEPT ![w] = Idle]
    /\ retained' = (retained \/ InProgress(w))

Stale(o) == op[o].status = "RUNNING" /\ clock > op[o].since + Window

(* The route that delivers a reply: the durable operation, then a handover  *)
(* that may fail on its own.                                                *)
Start(o) ==
    /\ op[o].status = "ABSENT"
    /\ SetStatus(o, "PENDING")
    /\ jobs' \in {jobs, [jobs EXCEPT ![o] = 1]}
    /\ UNCHANGED <<spare, record, basis, calls, pc, mem, retained, commitment, projection,
                   schedule, inflight, clock, watching>>

(* The transport delivers a job again, or the request is repeated while the *)
(* operation is PENDING and hands it over again.                            *)
Redeliver(o) ==
    /\ spare > 0 /\ spare' = spare - 1
    /\ (jobs[o] > 0 \/ op[o].status = "PENDING")
    /\ jobs' = [jobs EXCEPT ![o] = @ + 1]
    /\ UNCHANGED <<op, record, basis, calls, pc, mem, retained, commitment, projection,
                   schedule, inflight, clock, watching>>

(* A delivery binds the clock and loads the operation: a pending one is to  *)
(* be claimed, a stale one is declared over, any other is left alone.       *)
Deliver(w, o) ==
    /\ pc[w] = "idle" /\ jobs[o] > 0
    /\ jobs' = [jobs EXCEPT ![o] = @ - 1]
    /\ \/ /\ op[o].status = "PENDING"
          /\ GoTo(w, "claim")
          /\ mem' = [mem EXCEPT ![w] = [job |-> o, held |-> op[o].version, seen |-> 0,
                                       at |-> clock, input |-> None]]
          /\ UNCHANGED op
       \/ Stale(o) /\ SetStatus(o, "FAILED") /\ UNCHANGED <<pc, mem>>
       \/ op[o].status # "PENDING" /\ ~Stale(o) /\ UNCHANGED <<op, pc, mem>>
    /\ UNCHANGED <<spare, record, basis, calls, retained, commitment, projection, schedule,
                   inflight, clock, watching>>

Holds(w) == op[mem[w].job].version = mem[w].held

Claimable(w) == Holds(w) /\ op[mem[w].job].status = "PENDING"

(* One conditional write decides which delivery runs.                       *)
ClaimOperation(w) ==
    /\ pc[w] = "claim"
    /\ LET o == mem[w].job IN
       \/ /\ Claimable(w)
          /\ op' = [op EXCEPT ![o] = [status |-> "RUNNING", version |-> @.version + 1,
                                     since |-> mem[w].at]]
          /\ mem' = [mem EXCEPT ![w] = [job |-> o, held |-> @.held + 1, seen |-> 0,
                                       at |-> 0, input |-> None]]
          /\ GoTo(w, "extract")
          /\ UNCHANGED retained
       \/ ~Claimable(w) /\ Leave(w) /\ UNCHANGED op
    /\ UNCHANGED <<jobs, spare, record, basis, calls, commitment, projection, schedule, inflight,
                   clock, watching>>

(* Broken variant: a redelivered operation asks again.                      *)
Recovered_Never(o, i) == FALSE

(* The invocation record answers for a run that is durable and asked the    *)
(* same: same prompt version, same input hash.                              *)
Recovered(o, i) == record[o] # "NONE" /\ basis[o] = i

(* What a recovered run goes on with.  The record of a run that was handed  *)
(* back an existing commitment names none, and the apply command, which     *)
(* compares it with its own completed record, refuses it.                   *)
FromRecord(o) ==
    CASE record[o] = "COMMITMENT" -> "schedule" [] record[o] = "REJECTED" -> "succeed"
      [] OTHER -> "fail"

(* The inputs an operation was asked with come before any other.            *)
NumberedInOrder(o, i) == \A j \in Inputs : j < i => calls[o][j] > 0

(* From the record to what it says, or to the model.  The input is the one  *)
(* of the deployment the worker's process is of, which is any.              *)
Extract(w) ==
    /\ pc[w] = "extract"
    /\ \E i \in Inputs :
       LET o == mem[w].job IN
       /\ NumberedInOrder(o, i)
       /\ \/ /\ Recovered(o, i)
             /\ GoTo(w, FromRecord(o))
             /\ UNCHANGED <<calls, mem>>
          \/ /\ ~Recovered(o, i)
             /\ calls' = [calls EXCEPT ![o][i] = @ + 1]
             /\ mem' = [mem EXCEPT ![w].input = i]
             /\ GoTo(w, "apply")
    /\ UNCHANGED <<op, jobs, spare, record, basis, retained, commitment, projection,
                   schedule, inflight, clock, watching>>

Live == commitment \in {"PENDING", "DUE"}

(* What the deterministic checks make of the answer.  An accepted proposal  *)
(* becomes the commitment of an ACTIONED case; a live one is handed back    *)
(* instead of a second; anything else is refused.  Each leaves the          *)
(* invocation record, which is create-only.  Where one is already, it is of *)
(* another input: the completed command is no answer to this one, and the   *)
(* attempt fails.                                                           *)
ApplyCommitment(w) ==
    /\ pc[w] = "apply"
    /\ mem' = [mem EXCEPT ![w].input = None]
    /\ LET o == mem[w].job IN
       \/ /\ record[o] = "NONE"
          /\ basis' = [basis EXCEPT ![o] = mem[w].input]
          /\ \/ /\ commitment = "NONE"
                /\ commitment' = "PENDING"
                /\ projection' = [status |-> "PENDING_SCHEDULE", version |-> 1]
                /\ record' = [record EXCEPT ![o] = "COMMITMENT"]
                /\ GoTo(w, "schedule")
             \/ /\ Live
                /\ record' = [record EXCEPT ![o] = "EXISTING"]
                /\ GoTo(w, "schedule")
                /\ UNCHANGED <<commitment, projection>>
             \/ /\ ~Live
                /\ record' = [record EXCEPT ![o] = "REJECTED"]
                /\ GoTo(w, "succeed")
                /\ UNCHANGED <<commitment, projection>>
       \/ /\ record[o] # "NONE"
          /\ GoTo(w, "fail")
          /\ UNCHANGED <<record, basis, commitment, projection>>
    /\ UNCHANGED <<op, jobs, spare, calls, retained, schedule, inflight, clock,
                   watching>>

(* The projection is read, and unless it says CREATED an intent is written  *)
(* that keeps a reset out until this attempt is known to be over.           *)
LoadProjection(w) ==
    /\ pc[w] = "schedule"
    /\ \/ /\ projection.status = "CREATED"
          /\ GoTo(w, "succeed")
          /\ UNCHANGED mem
       \/ /\ projection.status # "CREATED"
          /\ mem' = [mem EXCEPT ![w].seen = projection.version]
          /\ GoTo(w, "create")
    /\ UNCHANGED <<op, jobs, spare, record, basis, calls, retained, commitment, projection, schedule,
                   inflight, clock, watching>>

(* CreateSchedule under the derived name: it is created or was there        *)
(* (ConflictException); it is rejected; or its answer is lost, and it may   *)
(* still land.                                                              *)
CreateDueSchedule(w) ==
    /\ pc[w] = "create"
    /\ \/ schedule' = "STANDING" /\ GoTo(w, "complete") /\ UNCHANGED inflight
       \/ GoTo(w, "describe") /\ inflight' \in {inflight, inflight + 1} /\ UNCHANGED schedule
    /\ UNCHANGED <<op, jobs, spare, record, basis, calls, mem, retained, commitment,
                   projection, clock, watching>>

(* A request whose answer was lost reaches the service after all.           *)
LandRequest ==
    /\ inflight > 0 /\ inflight' = inflight - 1
    /\ schedule' = "STANDING"
    /\ UNCHANGED <<working, commitment, projection, clock, watching>>

(* A definite answer completes the intent.                                  *)
CompleteIntent(w) ==
    /\ pc[w] = "complete"
    /\ GoTo(w, "created")
    /\ UNCHANGED <<op, jobs, spare, record, basis, calls, mem, retained, commitment, projection,
                   schedule, inflight, clock, watching>>

(* Broken variant: a schedule that is found completes the intent.           *)
DescribeSchedule_Quiescent(w) ==
    /\ pc[w] = "describe"
    /\ \/ schedule = "STANDING" /\ GoTo(w, "created") /\ UNCHANGED retained
       \/ GoTo(w, "failed") /\ retained' = TRUE
    /\ UNCHANGED <<op, jobs, spare, record, basis, calls, mem, commitment, projection, schedule,
                   inflight, clock, watching>>

(* An attempt without a definite answer is looked up by name and keeps its  *)
(* intent whatever the look-up says.  It says None also when it is refused, *)
(* and may raise.                                                           *)
DescribeSchedule(w) ==
    /\ pc[w] = "describe"
    /\ retained' = TRUE
    /\ \/ schedule = "STANDING" /\ GoTo(w, "created") /\ UNCHANGED mem
       \/ GoTo(w, "failed") /\ UNCHANGED mem
       \/ End(w, "fail")
    /\ UNCHANGED <<op, jobs, spare, record, basis, calls, commitment, projection, schedule,
                   inflight, clock, watching>>

(* Broken variant: the update carries no expected version.                  *)
Unmoved_Any(w) == TRUE

(* The projection's row still is the one that was read.                     *)
Unmoved(w) == projection.version = mem[w].seen

Record(status) == projection' = [status |-> status, version |-> projection.version + 1]

RecordCreated(w) ==
    /\ pc[w] = "created"
    /\ \/ Unmoved(w) /\ Record("CREATED") /\ End(w, "succeed")
       \/ ~Unmoved(w) /\ End(w, "fail") /\ UNCHANGED projection
    /\ UNCHANGED <<op, jobs, spare, record, basis, calls, retained, commitment, schedule,
                   inflight, clock, watching>>

(* One more attempt on the row; the operation is to go back to PENDING.     *)
RecordFailure(w) ==
    /\ pc[w] = "failed"
    /\ \/ Unmoved(w) /\ Record("PENDING_SCHEDULE") /\ End(w, "release")
       \/ ~Unmoved(w) /\ End(w, "fail") /\ UNCHANGED projection
    /\ UNCHANGED <<op, jobs, spare, record, basis, calls, retained, commitment, schedule,
                   inflight, clock, watching>>

(* Succeed, fail or release the operation, if it is still this attempt's.   *)
Settle(w) ==
    /\ pc[w] \in {"succeed", "fail", "release"}
    /\ LET o == mem[w].job
           target == CASE pc[w] = "succeed" -> "SUCCEEDED" [] pc[w] = "fail" -> "FAILED"
                       [] OTHER -> "PENDING"
       IN \/ Holds(w) /\ SetStatus(o, target)
          \/ ~Holds(w) /\ UNCHANGED op
    /\ Leave(w)
    /\ UNCHANGED <<jobs, spare, record, basis, calls, commitment, projection, schedule, inflight,
                   clock, watching>>

(* An agent's, the store's or any other error while the use case runs; a    *)
(* write it ended may have committed.                                       *)
ExtractFails(w) ==
    /\ faults > 0 /\ faults' = faults - 1
    /\ pc[w] \in {"extract", "apply", "schedule", "create", "complete", "created", "failed",
                 "succeed", "release"}
    /\ End(w, "fail")
    /\ retained' = (retained \/ InProgress(w))
    /\ UNCHANGED <<op, jobs, spare, record, basis, calls, commitment, projection, schedule,
                   inflight, clock, deliveries, retries, watch, asked>>

LoseWorker(w) ==
    /\ faults > 0 /\ faults' = faults - 1
    /\ pc[w] # "idle"
    /\ Leave(w)
    /\ UNCHANGED <<op, jobs, spare, record, basis, calls, commitment, projection, schedule, inflight,
                   clock, deliveries, retries, watch, asked>>

-----------------------------------------------------------------------------
(* The schedule, the demo clock and the watcher.                            *)

(* The presenter moves the logical clock and then wakes the watcher for a   *)
(* commitment that exists; the request may end in between.                  *)
AdvanceDemoClock ==
    /\ clock < Horizon /\ clock' = clock + 1
    /\ \/ UNCHANGED deliveries
       \/ commitment # "NONE" /\ deliveries' = [deliveries EXCEPT !["DEMO_CLOCK"] = @ + 1]
    /\ UNCHANGED <<working, commitment, projection, schedule, inflight, retries, faults,
                   watch, asked>>

(* Broken variant: the delivered event is believed.                         *)
Early_Never == FALSE

Early == clock < Due

(* The schedule fires at an instant of the wall clock, which says nothing   *)
(* about the logical one, and is deleted.                                   *)
FireSchedule ==
    /\ schedule = "STANDING"
    /\ schedule' = IF Early THEN "EARLY" ELSE "FIRED"
    /\ deliveries' = [deliveries EXCEPT !["SCHEDULE"] = @ + 1]
    /\ retries' = Retries
    /\ UNCHANGED <<working, commitment, projection, inflight, clock, faults, watch, asked>>

(* The transport is at least once.                                          *)
Duplicate ==
    /\ faults > 0 /\ faults' = faults - 1
    /\ deliveries["SCHEDULE"] > 0
    /\ deliveries' = [deliveries EXCEPT !["SCHEDULE"] = @ + 1]
    /\ UNCHANGED <<working, commitment, projection, schedule, inflight, clock, retries, watch,
                   asked>>

(* An invocation binds the clock row and loads the commitment.  It returns  *)
(* normally, which acknowledges the event, for WATCHER_REPLAY and           *)
(* WATCHER_EARLY, or goes on to commit.  The clock only moves forward, so   *)
(* the two reads are one step: a reading that lags behind is one made       *)
(* earlier.                                                                 *)
LoadCommitment(d, t) ==
    /\ watch[d] = None /\ deliveries[t] > 0
    /\ deliveries' = [deliveries EXCEPT ![t] = @ - 1]
    /\ \/ (commitment # "PENDING" \/ Early) /\ UNCHANGED watch
       \/ commitment = "PENDING" /\ ~Early /\ watch' = [watch EXCEPT ![d] = t]
    /\ UNCHANGED <<working, commitment, projection, schedule, inflight, clock, retries, faults,
                   asked>>

(* The row is PENDING still, and the verification request does not exist.   *)
StillPending == commitment = "PENDING" /\ ~asked

Return(d) == watch' = [watch EXCEPT ![d] = None]

MarkDue(d) ==
    /\ watch[d] # None /\ StillPending
    /\ commitment' = "DUE" /\ asked' = TRUE
    /\ Return(d)
    /\ UNCHANGED <<working, projection, schedule, inflight, clock, deliveries, retries, faults>>

(* Broken variant: a failure is answered as a result, which acknowledges the event. *)
Fail_Acknowledged(t, owed) == UNCHANGED retries /\ deliveries' = owed

(* A failed invocation is tried again while the schedule's target has       *)
(* attempts left; the demo route's caller gets the error instead.           *)
Fail(t, owed) ==
    IF t = "SCHEDULE" /\ retries > 0
      THEN retries' = retries - 1 /\ deliveries' = [owed EXCEPT ![t] = @ + 1]
      ELSE UNCHANGED retries /\ deliveries' = owed

(* The commit's condition does not hold: the conflict is raised.            *)
LoseRace(d) ==
    /\ watch[d] # None /\ ~StillPending
    /\ Fail(watch[d], deliveries) /\ Return(d)
    /\ UNCHANGED <<working, commitment, projection, schedule, inflight, clock, faults, asked>>

(* The clock cannot be read, the store fails, or the process is lost.       *)
InvocationFails(d) ==
    /\ faults > 0 /\ faults' = faults - 1
    /\ \/ watch[d] # None /\ Fail(watch[d], deliveries) /\ Return(d)
       \/ \E t \in Triggers :
             /\ watch[d] = None /\ deliveries[t] > 0
             /\ Fail(t, [deliveries EXCEPT ![t] = @ - 1]) /\ UNCHANGED watch
    /\ UNCHANGED <<working, commitment, projection, schedule, inflight, clock, asked>>

(* An affected contributor says whether the promise was kept; FULFILLED and *)
(* MISSED are told apart by CaseLifecycle.                                  *)
VerifyCommitment ==
    /\ commitment = "DUE"
    /\ commitment' = "VERIFIED"
    /\ UNCHANGED <<working, projection, schedule, inflight, clock, watching>>

-----------------------------------------------------------------------------
Work(w) ==
    \/ \E o \in Ops : Deliver(w, o)
    \/ ClaimOperation(w) \/ Extract(w) \/ ApplyCommitment(w) \/ LoadProjection(w)
    \/ CreateDueSchedule(w) \/ CompleteIntent(w) \/ DescribeSchedule(w)
    \/ RecordCreated(w) \/ RecordFailure(w) \/ Settle(w)

Watch(d) ==
    \/ \E t \in Triggers : LoadCommitment(d, t)
    \/ MarkDue(d) \/ LoseRace(d)

Next ==
    \/ \E o \in Ops : Start(o) \/ Redeliver(o)
    \/ \E w \in Workers : Work(w) \/ ExtractFails(w) \/ LoseWorker(w)
    \/ LandRequest \/ AdvanceDemoClock \/ FireSchedule \/ Duplicate
    \/ \E d \in Watchers : Watch(d) \/ InvocationFails(d)
    \/ VerifyCommitment

Spec == Init /\ [][Next]_vars

-----------------------------------------------------------------------------
(* Records of runs that end with a commitment in hand.                      *)
Found == {"COMMITMENT", "EXISTING"}

(* An extraction that found a commitment succeeds only once the projection  *)
(* says its deadline is scheduled, whatever the other extraction's worker   *)
(* recorded in between (create_due_schedule.py, _with_schedule).            *)
SucceededMeansScheduled ==
    \A o \in Ops : op[o].status = "SUCCEEDED" /\ record[o] \in Found
                     => projection.status = "CREATED"

(* An operation asks the model at most once about one input, through        *)
(* releases, redelivered jobs, lost workers and redeployments.  One that    *)
(* asked about two, because it was deployed anew in between, does not       *)
(* succeed: what it recorded of the first is no proof of the second         *)
(* (_recovered, extraction_input_hash, _proven_invocation).                 *)
ModelCalledOnce ==
    \A o \in Ops : \A i \in Inputs :
        /\ calls[o][i] <= 1
        /\ \A j \in Inputs \ {i} :
              calls[o][i] > 0 /\ calls[o][j] > 0 => op[o].status \in {"RUNNING", "FAILED"}

(* An operation that ended stays as it ended: not even the worker of an     *)
(* attempt that was declared over writes it again (operations.py).          *)
OverMeansOver ==
    [][\A o \in Ops : op[o].status \in {"SUCCEEDED", "FAILED"} => op'[o] = op[o]]_vars

(* CREATED is not said of a schedule that never was (the banner over an     *)
(* unscheduled case, _record_created).                                      *)
ScheduledHonestly == projection.status = "CREATED" => schedule # "NONE"

(* While a create request may still land, an intent is in progress, so a    *)
(* reset that finds none purges nothing such a request would survive        *)
(* (demo_side_effect.py).                                                   *)
NoUnguardedRequest == inflight > 0 => retained \/ \E w \in Workers : InProgress(w)

(* The commitment is a promise with a deadline: due only after its time,    *)
(* asked about once, decided by people, whoever wakes the watcher.          *)
Promise == INSTANCE DeadlinePromise WITH status <- commitment, now <- clock
ImplementsPromise == Promise!Spec

(* A schedule that fires when its logical time has come is heard: while the *)
(* promise is open, its event is owed, in hand or out of attempts -- no      *)
(* failure, lost race or second invocation drops it (handler.py lets every   *)
(* error out).                                                               *)
FiringIsHeard ==
    schedule = "FIRED" /\ commitment = "PENDING" /\ retries > 0
        => \/ deliveries["SCHEDULE"] > 0
           \/ \E d \in Watchers : watch[d] = "SCHEDULE"

(* ADR-028 section 3: an early firing is not rescheduled, for "the real     *)
(* one-time schedule fires again at its own time".  While the promise is    *)
(* open and its schedule recorded, a firing is still to come.               *)
AlarmStillToCome ==
    commitment = "PENDING" /\ projection.status = "CREATED"
        => \/ schedule = "STANDING" \/ deliveries["SCHEDULE"] > 0
           \/ \E d \in Watchers : watch[d] = "SCHEDULE"

-----------------------------------------------------------------------------
(* The inductive invariant.                                                 *)

Working(w) == pc[w] \notin {"idle", "claim"}
Scheduling == {"schedule", "create", "complete", "describe", "created", "failed", "release"}

(* At most one worker is past the claim of an operation, and it either      *)
(* holds the running row or has been declared over.                         *)
OwnerInv ==
    /\ \A w \in Workers : Working(w) =>
          \/ op[mem[w].job].status = "RUNNING" /\ Holds(w)
          \/ op[mem[w].job].status = "FAILED" /\ mem[w].held < op[mem[w].job].version
    /\ \A v, w \in Workers : Working(v) /\ Working(w) /\ mem[v].job = mem[w].job => v = w

(* A model that was asked and left no record of that input is one no worker *)
(* will ask again.                                                          *)
CallInv == \A o \in Ops : \A i \in Inputs :
    /\ calls[o][i] <= 1
    /\ calls[o][i] = 1 /\ ~Recovered(o, i) =>
          /\ op[o].status \in {"RUNNING", "FAILED"}
          /\ \A w \in Workers : Working(w) /\ mem[w].job = o =>
                pc[w] = "fail" \/ (pc[w] = "apply" /\ mem[w].input = i)
    /\ op[o].status = "ABSENT" => calls[o][i] = 0

(* What a worker goes on with is durable, and what it read of the           *)
(* projection is older than a CREATED.                                      *)
ScheduleInv ==
    /\ commitment = "NONE" =>
          projection.status = "NONE" /\ schedule = "NONE" /\ inflight = 0
    /\ \A o \in Ops : record[o] \in Found => commitment # "NONE"
    /\ \A w \in Workers : pc[w] \in Scheduling => record[mem[w].job] \in Found
    /\ \A w \in Workers : pc[w] \in Scheduling \ {"schedule", "release"} =>
          /\ mem[w].seen <= projection.version
          /\ projection.status = "CREATED" => mem[w].seen < projection.version
    /\ \A w \in Workers : pc[w] \in {"complete", "created"} => schedule # "NONE"
    /\ \A w \in Workers : pc[w] = "succeed" =>
          \/ projection.status = "CREATED" \/ record[mem[w].job] = "REJECTED"

(* A request without an answer belongs to an attempt that keeps its intent. *)
IntentInv == inflight > 0 => retained \/ \E w \in Workers : pc[w] = "describe"

(* A watcher that is to mark the commitment was not early, and a firing on  *)
(* time stays on time.                                                      *)
DueInv ==
    /\ \A d \in Watchers : watch[d] # None => ~Early
    /\ asked <=> commitment \in {"DUE", "VERIFIED"}
    /\ schedule = "FIRED" => ~Early

IInv ==
    /\ TypeOK /\ OwnerInv /\ CallInv /\ ScheduleInv /\ IntentInv /\ DueInv
    /\ SucceededMeansScheduled /\ ScheduledHonestly /\ FiringIsHeard
=============================================================================
