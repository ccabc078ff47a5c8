--------------------- MODULE CommitmentDeadline_proofs ---------------------
(***************************************************************************)
(* Proofs about CommitmentDeadline, for any operations, workers, watchers  *)
(* and bounds.                                                             *)
(***************************************************************************)
EXTENDS CommitmentDeadline, TLAPS

Memory == [job : Ops \union {None}, held : Nat, seen : Nat, at : Nat,
           input : Inputs \union {None}]
Row == [status : OpStates, version : Nat, since : Nat]

(* What TypeOK says of the workers, by itself. *)
WorkersOK ==
    /\ pc \in [Workers -> Steps] /\ mem \in [Workers -> Memory]
    /\ \A w \in Workers : pc[w] = "idle" <=> mem[w].job = None

(* Everything but the workers. *)
RestOK ==
    /\ op \in [Ops -> Row]
    /\ jobs \in [Ops -> Nat] /\ spare \in Nat
    /\ record \in [Ops -> Records] /\ basis \in [Ops -> Inputs \union {None}]
    /\ calls \in [Ops -> [Inputs -> Nat]]
    /\ commitment \in Statuses
    /\ projection \in [status : {"NONE", "PENDING_SCHEDULE", "CREATED"}, version : Nat]
    /\ schedule \in {"NONE", "STANDING", "EARLY", "FIRED"}
    /\ inflight \in Nat /\ retained \in BOOLEAN
    /\ clock \in Nat /\ retries \in Nat /\ faults \in Nat
    /\ deliveries \in [Triggers -> Nat]
    /\ watch \in [Watchers -> Triggers \union {None}]
    /\ asked \in BOOLEAN

LEMMA TypeParts == TypeOK <=> WorkersOK /\ RestOK
BY DEF TypeOK, WorkersOK, RestOK, Row, Memory

-----------------------------------------------------------------------------
(* The helpers of the worker's actions.                                     *)

LEMMA JobFacts ==
    ASSUME WorkersOK, NEW w \in Workers, pc[w] # "idle"
    PROVE  mem[w].job \in Ops
BY NoneAssumption DEF WorkersOK, Memory

LEMMA GoToFacts ==
    ASSUME WorkersOK, NEW w \in Workers, NEW s \in Steps, GoTo(w, s)
    PROVE  /\ pc' \in [Workers -> Steps] /\ pc'[w] = s
           /\ \A v \in Workers \ {w} : pc'[v] = pc[v]
BY DEF GoTo, WorkersOK

LEMMA SeenFacts ==
    ASSUME WorkersOK, NEW w \in Workers, NEW n \in Nat,
           mem' = [mem EXCEPT ![w].seen = n]
    PROVE  /\ mem' \in [Workers -> Memory]
           /\ mem'[w].job = mem[w].job /\ mem'[w].held = mem[w].held /\ mem'[w].seen = n
           /\ \A v \in Workers \ {w} : mem'[v] = mem[v]
<1>1. mem[w] \in Memory BY DEF WorkersOK
<1>2. mem'[w] = [mem[w] EXCEPT !.seen = n] BY DEF WorkersOK
<1>3. /\ mem'[w] \in Memory
      /\ mem'[w].job = mem[w].job /\ mem'[w].held = mem[w].held /\ mem'[w].seen = n
  BY <1>1, <1>2 DEF Memory
<1> QED BY <1>3 DEF WorkersOK

LEMMA InputFacts ==
    ASSUME WorkersOK, NEW w \in Workers, NEW i \in Inputs \union {None},
           mem' = [mem EXCEPT ![w].input = i]
    PROVE  /\ mem' \in [Workers -> Memory]
           /\ mem'[w].job = mem[w].job /\ mem'[w].held = mem[w].held /\ mem'[w].input = i
           /\ \A v \in Workers \ {w} : mem'[v] = mem[v]
<1>1. mem[w] \in Memory BY DEF WorkersOK
<1>2. mem'[w] = [mem[w] EXCEPT !.input = i] BY DEF WorkersOK
<1>3. /\ mem'[w] \in Memory
      /\ mem'[w].job = mem[w].job /\ mem'[w].held = mem[w].held /\ mem'[w].input = i
  BY <1>1, <1>2 DEF Memory
<1> QED BY <1>3 DEF WorkersOK

LEMMA EndFacts ==
    ASSUME WorkersOK, NEW w \in Workers,
           mem' = [mem EXCEPT ![w].seen = 0, ![w].input = None]
    PROVE  /\ mem' \in [Workers -> Memory]
           /\ mem'[w].job = mem[w].job /\ mem'[w].held = mem[w].held
           /\ \A v \in Workers \ {w} : mem'[v] = mem[v]
<1>1. mem[w] \in Memory BY DEF WorkersOK
<1>2. mem'[w] = [job |-> mem[w].job, held |-> mem[w].held, seen |-> 0,
                 at |-> mem[w].at, input |-> None]
  BY <1>1 DEF WorkersOK, Memory
<1>3. /\ mem'[w] \in Memory
      /\ mem'[w].job = mem[w].job /\ mem'[w].held = mem[w].held
  BY <1>1, <1>2 DEF Memory
<1> QED BY <1>3 DEF WorkersOK

(* A worker notes something, or is done with what it noted. *)
Notes(w) ==
    \/ UNCHANGED mem
    \/ \E n \in Nat : mem' = [mem EXCEPT ![w].seen = n]
    \/ \E i \in Inputs \union {None} : mem' = [mem EXCEPT ![w].input = i]
    \/ mem' = [mem EXCEPT ![w].seen = 0, ![w].input = None]

LEMMA NotesFacts ==
    ASSUME WorkersOK, NEW w \in Workers, Notes(w)
    PROVE  /\ mem' \in [Workers -> Memory]
           /\ mem'[w].job = mem[w].job /\ mem'[w].held = mem[w].held
           /\ \A v \in Workers \ {w} : mem'[v] = mem[v]
<1>1. CASE UNCHANGED mem BY <1>1 DEF WorkersOK
<1>2. ASSUME NEW n \in Nat, mem' = [mem EXCEPT ![w].seen = n]
      PROVE  /\ mem' \in [Workers -> Memory]
             /\ mem'[w].job = mem[w].job /\ mem'[w].held = mem[w].held
             /\ \A v \in Workers \ {w} : mem'[v] = mem[v]
  BY <1>2, SeenFacts
<1>3. ASSUME NEW i \in Inputs \union {None}, mem' = [mem EXCEPT ![w].input = i]
      PROVE  /\ mem' \in [Workers -> Memory]
             /\ mem'[w].job = mem[w].job /\ mem'[w].held = mem[w].held
             /\ \A v \in Workers \ {w} : mem'[v] = mem[v]
  BY <1>3, InputFacts
<1>4. CASE mem' = [mem EXCEPT ![w].seen = 0, ![w].input = None] BY <1>4, EndFacts
<1> QED BY <1>1, <1>2, <1>3, <1>4 DEF Notes

(* A worker goes on with the job it has. *)
LEMMA GoOn ==
    ASSUME WorkersOK, NEW w \in Workers, pc[w] # "idle",
           NEW s \in Steps \ {"idle"}, GoTo(w, s), Notes(w)
    PROVE  /\ WorkersOK'
           /\ mem'[w].job = mem[w].job /\ mem'[w].held = mem[w].held
           /\ \A v \in Workers \ {w} : mem'[v] = mem[v] /\ pc'[v] = pc[v]
           /\ pc'[w] = s
<1>1. /\ pc' \in [Workers -> Steps] /\ pc'[w] = s
      /\ \A v \in Workers \ {w} : pc'[v] = pc[v]
  BY GoToFacts
<1>2. /\ mem' \in [Workers -> Memory]
      /\ mem'[w].job = mem[w].job /\ mem'[w].held = mem[w].held
      /\ \A v \in Workers \ {w} : mem'[v] = mem[v]
  BY NotesFacts
<1> QED BY <1>1, <1>2 DEF WorkersOK

LEMMA LeaveFacts ==
    ASSUME WorkersOK, NEW w \in Workers, Leave(w)
    PROVE  /\ WorkersOK' /\ pc'[w] = "idle"
           /\ \A v \in Workers \ {w} : mem'[v] = mem[v] /\ pc'[v] = pc[v]
           /\ retained \/ InProgress(w) => retained'
           /\ retained' \in BOOLEAN
<1>1. /\ pc' \in [Workers -> Steps] /\ pc'[w] = "idle"
      /\ \A v \in Workers \ {w} : pc'[v] = pc[v]
  BY GoToFacts DEF Leave, Steps
<1>2. /\ mem' \in [Workers -> Memory] /\ mem'[w].job = None
      /\ \A v \in Workers \ {w} : mem'[v] = mem[v]
  BY DEF Leave, WorkersOK, Idle, Memory
<1> QED BY <1>1, <1>2 DEF WorkersOK, Leave, InProgress

LEMMA StatusFacts ==
    ASSUME op \in [Ops -> Row], NEW o \in Ops, NEW s \in OpStates, SetStatus(o, s)
    PROVE  /\ op' \in [Ops -> Row]
           /\ op'[o].status = s /\ op'[o].version = op[o].version + 1
           /\ \A p \in Ops \ {o} : op'[p] = op[p]
BY DEF SetStatus, Row

-----------------------------------------------------------------------------
(* What a step leaves alone keeps its part of the invariant.                *)

(* Only w moves, and it goes on with its job or leaves it. *)
OnlyMoves(w) == \A v \in Workers \ {w} : mem'[v] = mem[v] /\ pc'[v] = pc[v]

KeepsJob(w) == mem'[w].job = mem[w].job /\ mem'[w].held = mem[w].held

LEMMA OwnerFrame ==
    ASSUME OwnerInv, NEW w \in Workers, UNCHANGED op, OnlyMoves(w),
           \/ pc'[w] \in {"idle", "claim"}
           \/ KeepsJob(w) /\ pc[w] \notin {"idle", "claim"}
    PROVE  OwnerInv'
BY DEF OwnerInv, OnlyMoves, KeepsJob, Working, Holds

LEMMA CallFrame ==
    ASSUME CallInv, NEW w \in Workers, UNCHANGED <<op, calls, record, basis>>, OnlyMoves(w),
           \/ pc'[w] \in {"idle", "claim", "fail"}
           \/ KeepsJob(w) /\ pc[w] \notin {"idle", "claim", "apply", "fail"}
    PROVE  CallInv'
BY DEF CallInv, OnlyMoves, KeepsJob, Working, Recovered

(* A worker that writes neither the projection nor the record. *)
LEMMA ScheduleFrame ==
    ASSUME ScheduleInv, NEW w \in Workers, UNCHANGED <<projection, record, commitment>>,
           OnlyMoves(w), pc'[w] \in {"idle", "claim", "fail"},
           UNCHANGED <<schedule, inflight>>
    PROVE  ScheduleInv'
BY DEF ScheduleInv, OnlyMoves, Scheduling, Found

(* The watcher's part, under the worker's steps: a promise is only made, a  *)
(* schedule only created.                                                   *)
LEMMA WatchFrame ==
    ASSUME DueInv, FiringIsHeard, ScheduleInv,
           UNCHANGED <<clock, deliveries, retries, watch, asked>>,
           schedule' \in {schedule, "STANDING"},
           \/ UNCHANGED commitment
           \/ commitment = "NONE" /\ commitment' = "PENDING" /\ UNCHANGED schedule
    PROVE  DueInv' /\ FiringIsHeard'
BY DEF DueInv, FiringIsHeard, ScheduleInv, Early, Found

(* The worker's part, under the watcher's. *)
LEMMA WorkFrame ==
    ASSUME IInv, UNCHANGED <<working, projection, inflight>>,
           schedule' = "NONE" => schedule = "NONE",
           commitment = "NONE" <=> commitment' = "NONE",
           commitment = "NONE" => UNCHANGED schedule
    PROVE  /\ WorkersOK' /\ OwnerInv' /\ CallInv' /\ ScheduleInv' /\ IntentInv'
           /\ SucceededMeansScheduled' /\ ScheduledHonestly'
<1> USE DEF IInv, working
<1>1. WorkersOK' BY TypeParts DEF WorkersOK
<1>2. OwnerInv' BY DEF OwnerInv, Working, Holds
<1>3. CallInv' BY DEF CallInv, Working, Recovered
<1>4. ScheduleInv' BY DEF ScheduleInv, Found
<1>5. IntentInv' BY DEF IntentInv
<1>6. SucceededMeansScheduled' /\ ScheduledHonestly'
  BY DEF SucceededMeansScheduled, ScheduledHonestly, Found
<1> QED BY <1>1, <1>2, <1>3, <1>4, <1>5, <1>6

LEMMA FromParts ==
    ASSUME WorkersOK', RestOK', OwnerInv', CallInv', ScheduleInv', IntentInv', DueInv',
           SucceededMeansScheduled', ScheduledHonestly', FiringIsHeard'
    PROVE  IInv'
BY DEF IInv, TypeOK, WorkersOK, RestOK, Row, Memory

LEMMA ToParts ==
    ASSUME IInv
    PROVE  /\ WorkersOK /\ RestOK /\ OwnerInv /\ CallInv /\ ScheduleInv /\ IntentInv
           /\ DueInv /\ SucceededMeansScheduled /\ ScheduledHonestly /\ FiringIsHeard
BY TypeParts DEF IInv

-----------------------------------------------------------------------------
(* The operation: created, handed over, delivered, claimed, settled.        *)

LEMMA StartKeeps == ASSUME IInv, NEW o \in Ops, Start(o) PROVE IInv'
<1>0. WorkersOK /\ RestOK BY ToParts
<1>1. /\ op' \in [Ops -> Row] /\ op'[o].status = "PENDING"
      /\ \A p \in Ops \ {o} : op'[p] = op[p]
  BY <1>0, StatusFacts DEF Start, RestOK, OpStates
<1>2. WorkersOK' BY <1>0 DEF Start, WorkersOK
<1>3. RestOK' BY <1>0, <1>1 DEF Start, RestOK, watching
<1>4. OwnerInv' BY <1>0, <1>1, JobFacts DEF IInv, Start, OwnerInv, Working, Holds
<1>5. CallInv' BY <1>1 DEF IInv, Start, CallInv, Working, Recovered
<1>6. ScheduleInv' BY DEF IInv, Start, ScheduleInv, Found
<1>7. IntentInv' BY DEF IInv, Start, IntentInv
<1>8. DueInv' /\ FiringIsHeard'
  BY WatchFrame DEF IInv, Start, watching
<1>9. SucceededMeansScheduled' /\ ScheduledHonestly'
  BY <1>1 DEF IInv, Start, SucceededMeansScheduled, ScheduledHonestly, Found
<1> QED BY <1>2, <1>3, <1>4, <1>5, <1>6, <1>7, <1>8, <1>9, FromParts DEF IInv

LEMMA RedeliverKeeps == ASSUME IInv, NEW o \in Ops, Redeliver(o) PROVE IInv'
<1>1. RestOK' BY ToParts DEF Redeliver, RestOK, watching
<1>2. WorkersOK' BY ToParts DEF Redeliver, WorkersOK
<1>3. OwnerInv' /\ CallInv'
  BY DEF IInv, Redeliver, OwnerInv, CallInv, Working, Holds, Recovered
<1>4. ScheduleInv' /\ IntentInv' BY DEF IInv, Redeliver, ScheduleInv, IntentInv, Found
<1>5. DueInv' /\ FiringIsHeard' BY WatchFrame DEF IInv, Redeliver, watching
<1>6. SucceededMeansScheduled' /\ ScheduledHonestly'
  BY DEF IInv, Redeliver, SucceededMeansScheduled, ScheduledHonestly, Found
<1> QED BY <1>1, <1>2, <1>3, <1>4, <1>5, <1>6, FromParts

LEMMA DeliverKeeps ==
    ASSUME IInv, NEW w \in Workers, NEW o \in Ops, Deliver(w, o) PROVE IInv'
<1>0. WorkersOK /\ RestOK BY ToParts
<1>1. DueInv' /\ FiringIsHeard' BY WatchFrame DEF IInv, Deliver, watching
<1>2. jobs' \in [Ops -> Nat] BY <1>0 DEF Deliver, RestOK
<1>3. CASE op[o].status = "PENDING"
  <2>a. /\ GoTo(w, "claim") /\ UNCHANGED op
        /\ mem' = [mem EXCEPT ![w] = [job |-> o, held |-> op[o].version, seen |-> 0,
                                     at |-> clock, input |-> None]]
    BY <1>3 DEF Deliver, Stale
  <2>b. /\ pc' \in [Workers -> Steps] /\ pc'[w] = "claim"
        /\ \A v \in Workers \ {w} : pc'[v] = pc[v]
    BY <1>0, <2>a, GoToFacts DEF Steps
  <2>c. [job |-> o, held |-> op[o].version, seen |-> 0, at |-> clock,
         input |-> None] \in Memory
    BY <1>0 DEF RestOK, Row, Memory
  <2>d. /\ mem' \in [Workers -> Memory] /\ mem'[w].job = o
        /\ \A v \in Workers \ {w} : mem'[v] = mem[v]
    BY <1>0, <2>a, <2>c DEF WorkersOK
  <2>1. UNCHANGED op /\ pc'[w] = "claim" /\ OnlyMoves(w) /\ WorkersOK'
    BY <1>0, <2>a, <2>b, <2>d, NoneAssumption DEF WorkersOK, OnlyMoves
  <2>2. RestOK' BY <1>0, <1>2, <2>1 DEF Deliver, RestOK, watching
  <2>e. pc'[w] \in {"idle", "claim"} BY <2>1
  <2>f. OwnerInv BY DEF IInv
  <2>3. OwnerInv' BY <2>1, <2>e, <2>f, OwnerFrame
  <2>4. CallInv' BY <2>1, CallFrame DEF IInv, Deliver
  <2>5. ScheduleInv' BY <2>1, ScheduleFrame DEF IInv, Deliver
  <2>6. IntentInv' BY <1>0, <2>1 DEF IInv, Deliver, IntentInv, OnlyMoves
  <2>7. SucceededMeansScheduled' /\ ScheduledHonestly'
    BY <2>1 DEF IInv, Deliver, SucceededMeansScheduled, ScheduledHonestly, Found
  <2> QED BY <1>1, <2>1, <2>2, <2>3, <2>4, <2>5, <2>6, <2>7, FromParts
<1>4. CASE Stale(o) /\ SetStatus(o, "FAILED") /\ UNCHANGED <<pc, mem>>
  <2>1. /\ op' \in [Ops -> Row] /\ op'[o].status = "FAILED"
        /\ op'[o].version = op[o].version + 1
        /\ \A p \in Ops \ {o} : op'[p] = op[p]
    BY <1>0, <1>4, StatusFacts DEF RestOK, OpStates
  <2>2. RestOK' BY <1>0, <1>2, <2>1 DEF Deliver, RestOK, watching
  <2>3. WorkersOK' BY <1>0, <1>4 DEF WorkersOK
  <2>4. OwnerInv'
    <3>1. ASSUME NEW v \in Workers, Working(v) PROVE mem[v].job \in Ops /\ mem[v].held \in Nat
      BY <1>0, <3>1, JobFacts DEF Working, WorkersOK, Memory
    <3>2. \A p \in Ops : op[p].version \in Nat BY <1>0 DEF RestOK, Row
    <3> QED BY <1>4, <2>1, <3>1, <3>2 DEF IInv, OwnerInv, Working, Holds, Stale
  <2>5. CallInv' BY <1>4, <2>1 DEF IInv, Deliver, CallInv, Working, Stale, Recovered
  <2>6. ScheduleInv' /\ IntentInv'
    BY <1>4 DEF IInv, Deliver, ScheduleInv, IntentInv, Found
  <2>7. SucceededMeansScheduled' /\ ScheduledHonestly'
    BY <2>1 DEF IInv, Deliver, SucceededMeansScheduled, ScheduledHonestly, Found
  <2> QED BY <1>1, <2>2, <2>3, <2>4, <2>5, <2>6, <2>7, FromParts
<1>5. CASE UNCHANGED <<op, pc, mem>>
  <2>1. RestOK' BY <1>0, <1>2, <1>5 DEF Deliver, RestOK, watching
  <2>2. WorkersOK' BY <1>0, <1>5 DEF WorkersOK
  <2>3. OwnerInv' /\ CallInv'
    BY <1>5 DEF IInv, Deliver, OwnerInv, CallInv, Working, Holds, Recovered
  <2>4. ScheduleInv' /\ IntentInv' BY <1>5 DEF IInv, Deliver, ScheduleInv, IntentInv, Found
  <2>5. SucceededMeansScheduled' /\ ScheduledHonestly'
    BY <1>5 DEF IInv, Deliver, SucceededMeansScheduled, ScheduledHonestly, Found
  <2> QED BY <1>1, <2>1, <2>2, <2>3, <2>4, <2>5, FromParts
<1> QED BY <1>3, <1>4, <1>5 DEF Deliver

LEMMA ClaimKeeps == ASSUME IInv, NEW w \in Workers, ClaimOperation(w) PROVE IInv'
<1>0. WorkersOK /\ RestOK BY ToParts
<1>1. DueInv' /\ FiringIsHeard' BY WatchFrame DEF IInv, ClaimOperation, watching
<1>2. CASE Claimable(w)
  <2> DEFINE o == mem[w].job
  <2>0. /\ o \in Ops /\ op[o].status = "PENDING" /\ op[o].version = mem[w].held
        /\ mem[w] \in Memory /\ op[o] \in Row
    BY <1>0, <1>2, JobFacts DEF ClaimOperation, Claimable, Holds, WorkersOK, RestOK
  <2>a. /\ GoTo(w, "extract") /\ retained' = retained
        /\ op' = [op EXCEPT ![o] = [status |-> "RUNNING", version |-> op[o].version + 1,
                                   since |-> mem[w].at]]
        /\ mem' = [mem EXCEPT ![w] = [job |-> o, held |-> mem[w].held + 1, seen |-> 0,
                                     at |-> 0, input |-> None]]
    BY <1>2 DEF ClaimOperation
  <2>b. /\ pc' \in [Workers -> Steps] /\ pc'[w] = "extract"
        /\ \A v \in Workers \ {w} : pc'[v] = pc[v]
    BY <1>0, <2>a, GoToFacts DEF Steps
  <2>c. /\ mem' \in [Workers -> Memory] /\ mem'[w].job = o
        /\ mem'[w].held = mem[w].held + 1
        /\ \A v \in Workers \ {w} : mem'[v] = mem[v]
    BY <1>0, <2>0, <2>a DEF WorkersOK, Memory
  <2>d. /\ op' \in [Ops -> Row] /\ op'[o].status = "RUNNING"
        /\ op'[o].version = mem[w].held + 1
        /\ \A p \in Ops \ {o} : op'[p] = op[p]
    BY <1>0, <2>0, <2>a DEF RestOK, Row, OpStates, Memory
  <2>1. WorkersOK' BY <1>0, <2>0, <2>b, <2>c, NoneAssumption DEF WorkersOK
  <2>2. RestOK' BY <1>0, <2>a, <2>d DEF ClaimOperation, RestOK, watching
  <2>3. OwnerInv'
    <3>1. ASSUME NEW v \in Workers, Working(v) PROVE mem[v].job \in Ops \ {o}
      BY <1>0, <2>0, <3>1, JobFacts DEF IInv, OwnerInv, Working
    <3> QED BY <2>b, <2>c, <2>d, <3>1 DEF IInv, OwnerInv, Working, Holds
  <2>4. CallInv' BY <2>0, <2>b, <2>c, <2>d DEF IInv, ClaimOperation, CallInv, Working, Recovered
  <2>5. ScheduleInv'
    BY <2>b, <2>c DEF IInv, ClaimOperation, ScheduleInv, Scheduling, Found
  <2>6. IntentInv' BY <1>0, <2>a, <2>b DEF IInv, ClaimOperation, IntentInv, Claimable
  <2>7. SucceededMeansScheduled' /\ ScheduledHonestly'
    BY <2>d DEF IInv, ClaimOperation, SucceededMeansScheduled, ScheduledHonestly, Found
  <2> QED BY <1>1, <2>1, <2>2, <2>3, <2>4, <2>5, <2>6, <2>7, FromParts
<1>3. CASE ~Claimable(w)
  <2>0. Leave(w) /\ UNCHANGED op BY <1>3 DEF ClaimOperation
  <2>1. /\ WorkersOK' /\ OnlyMoves(w) /\ pc'[w] = "idle" /\ retained' \in BOOLEAN
        /\ retained \/ InProgress(w) => retained'
    BY <1>0, <2>0, LeaveFacts DEF OnlyMoves
  <2>2. RestOK' BY <1>0, <2>0, <2>1 DEF ClaimOperation, RestOK, watching
  <2>3. OwnerInv' BY <2>0, <2>1, OwnerFrame DEF IInv
  <2>4. CallInv' BY <2>0, <2>1, CallFrame DEF IInv, ClaimOperation
  <2>5. ScheduleInv' BY <2>1, ScheduleFrame DEF IInv, ClaimOperation
  <2>6. IntentInv' BY <2>1 DEF IInv, ClaimOperation, IntentInv, OnlyMoves, InProgress
  <2>7. SucceededMeansScheduled' /\ ScheduledHonestly'
    BY <2>0 DEF IInv, ClaimOperation, SucceededMeansScheduled, ScheduledHonestly, Found
  <2> QED BY <1>1, <2>1, <2>2, <2>3, <2>4, <2>5, <2>6, <2>7, FromParts
<1> QED BY <1>2, <1>3

LEMMA LoseWorkerKeeps == ASSUME IInv, NEW w \in Workers, LoseWorker(w) PROVE IInv'
<1>0. WorkersOK /\ RestOK BY ToParts
<1>1. /\ WorkersOK' /\ OnlyMoves(w) /\ pc'[w] = "idle" /\ retained' \in BOOLEAN
      /\ retained \/ InProgress(w) => retained'
  BY <1>0, LeaveFacts DEF LoseWorker, OnlyMoves
<1>2. RestOK' BY <1>0, <1>1 DEF LoseWorker, RestOK
<1>3. OwnerInv' BY <1>1, OwnerFrame DEF IInv, LoseWorker
<1>4. CallInv' BY <1>1, CallFrame DEF IInv, LoseWorker
<1>5. ScheduleInv' BY <1>1, ScheduleFrame DEF IInv, LoseWorker
<1>6. IntentInv' BY <1>1 DEF IInv, LoseWorker, IntentInv, OnlyMoves, InProgress
<1>7. DueInv' /\ FiringIsHeard' BY WatchFrame DEF IInv, LoseWorker
<1>8. SucceededMeansScheduled' /\ ScheduledHonestly'
  BY DEF IInv, LoseWorker, SucceededMeansScheduled, ScheduledHonestly, Found
<1> QED BY <1>1, <1>2, <1>3, <1>4, <1>5, <1>6, <1>7, <1>8, FromParts

LEMMA SettleKeeps == ASSUME IInv, NEW w \in Workers, Settle(w) PROVE IInv'
<1> DEFINE o == mem[w].job
<1>0. WorkersOK /\ RestOK BY ToParts
<1>a. o \in Ops /\ Leave(w) BY <1>0, JobFacts DEF Settle
<1>1. /\ WorkersOK' /\ OnlyMoves(w) /\ pc'[w] = "idle" /\ retained' \in BOOLEAN
      /\ retained \/ InProgress(w) => retained'
  BY <1>0, <1>a, LeaveFacts DEF OnlyMoves
<1>2. ScheduleInv' BY <1>1, ScheduleFrame DEF IInv, Settle
<1>3. IntentInv' BY <1>1 DEF IInv, Settle, IntentInv, OnlyMoves, InProgress
<1>4. DueInv' /\ FiringIsHeard' BY WatchFrame DEF IInv, Settle, watching
<1>5. CASE UNCHANGED op
  <2>1. RestOK' BY <1>0, <1>1, <1>5 DEF Settle, RestOK, watching
  <2>2. OwnerInv' BY <1>1, <1>5, OwnerFrame DEF IInv
  <2>3. CallInv' BY <1>1, <1>5, CallFrame DEF IInv, Settle
  <2>4. SucceededMeansScheduled' /\ ScheduledHonestly'
    BY <1>5 DEF IInv, Settle, SucceededMeansScheduled, ScheduledHonestly, Found
  <2> QED BY <1>1, <1>2, <1>3, <1>4, <2>1, <2>2, <2>3, <2>4, FromParts
<1>6. ASSUME Holds(w), NEW s \in {"SUCCEEDED", "FAILED", "PENDING"}, SetStatus(o, s),
             s = "SUCCEEDED" => pc[w] = "succeed",
             s = "PENDING" => pc[w] = "release"
      PROVE  IInv'
  <2>1. /\ op' \in [Ops -> Row] /\ op'[o].status = s
        /\ op'[o].version = op[o].version + 1
        /\ \A p \in Ops \ {o} : op'[p] = op[p]
    BY <1>0, <1>a, <1>6, StatusFacts DEF RestOK, OpStates
  <2>2. RestOK' BY <1>0, <1>1, <2>1 DEF Settle, RestOK, watching
  <2>3. OwnerInv'
    <3>1. \A v \in Workers \ {w} : Working(v) => mem[v].job # o
      BY DEF IInv, OwnerInv, Working, Settle
    <3>2. ASSUME NEW v \in Workers, Working(v) PROVE mem[v].job \in Ops
      BY <1>0, <3>2, JobFacts DEF Working
    <3> QED BY <1>1, <2>1, <3>1, <3>2 DEF IInv, OwnerInv, Working, Holds, OnlyMoves
  <2>4. CallInv'
    <3>1. \A i \in Inputs : calls[o][i] = 1 /\ ~Recovered(o, i) => s = "FAILED"
      BY <1>6, <1>a DEF IInv, Settle, CallInv, Working, Recovered
    <3> QED BY <1>1, <1>6, <2>1, <3>1
            DEF IInv, Settle, CallInv, Working, OnlyMoves, Recovered
  <2>5. SucceededMeansScheduled'
    BY <1>6, <2>1 DEF IInv, Settle, SucceededMeansScheduled, ScheduleInv, Found
  <2>6. ScheduledHonestly' BY DEF IInv, Settle, ScheduledHonestly
  <2> QED BY <1>1, <1>2, <1>3, <1>4, <2>2, <2>3, <2>4, <2>5, <2>6, FromParts
<1> QED BY <1>5, <1>6 DEF Settle

-----------------------------------------------------------------------------
(* The worker at its job.                                                   *)

(* A worker that goes on and leaves the operations and the calls alone. *)
LEMMA AtWork ==
    ASSUME IInv, NEW w \in Workers, pc[w] \notin {"idle", "claim"},
           NEW s \in Steps \ {"idle"}, GoTo(w, s), UNCHANGED op, Notes(w)
    PROVE  /\ WorkersOK' /\ OwnerInv' /\ OnlyMoves(w) /\ KeepsJob(w) /\ pc'[w] = s
           /\ mem[w].job \in Ops /\ mem'[w].job = mem[w].job
<1>1. WorkersOK BY ToParts
<1>2. /\ WorkersOK' /\ mem'[w].job = mem[w].job /\ mem'[w].held = mem[w].held
      /\ \A v \in Workers \ {w} : mem'[v] = mem[v] /\ pc'[v] = pc[v]
      /\ pc'[w] = s
  BY <1>1, GoOn
<1>3. OnlyMoves(w) /\ KeepsJob(w) BY <1>2 DEF OnlyMoves, KeepsJob
<1>4. OwnerInv' BY <1>3, OwnerFrame DEF IInv
<1> QED BY <1>1, <1>2, <1>3, <1>4, JobFacts

LEMMA ExtractKeeps == ASSUME IInv, NEW w \in Workers, Extract(w) PROVE IInv'
<1> DEFINE o == mem[w].job
<1>0. RestOK /\ pc[w] = "extract" BY ToParts DEF Extract
<1>a. PICK i \in Inputs :
         \/ /\ Recovered(o, i) /\ GoTo(w, FromRecord(o)) /\ UNCHANGED <<calls, mem>>
         \/ /\ ~Recovered(o, i) /\ GoTo(w, "apply")
            /\ calls' = [calls EXCEPT ![o][i] = @ + 1]
            /\ mem' = [mem EXCEPT ![w].input = i]
  BY DEF Extract
<1>f. UNCHANGED <<op, jobs, spare, record, basis, retained, commitment, projection,
                  schedule, inflight, clock, watching>>
  BY DEF Extract
<1>6. DueInv' /\ FiringIsHeard' BY <1>f, WatchFrame DEF IInv, watching
<1>7. SucceededMeansScheduled' /\ ScheduledHonestly'
  BY <1>f DEF IInv, SucceededMeansScheduled, ScheduledHonestly, Found
<1>1. CASE Recovered(o, i) /\ GoTo(w, FromRecord(o)) /\ UNCHANGED <<calls, mem>>
  <2>a. PICK s \in {"schedule", "succeed", "fail"} :
           /\ GoTo(w, s)
           /\ s = "schedule" => record[o] = "COMMITMENT"
           /\ s = "succeed" => record[o] = "REJECTED"
    BY <1>1 DEF FromRecord
  <2>1. /\ WorkersOK' /\ OwnerInv' /\ OnlyMoves(w) /\ KeepsJob(w) /\ pc'[w] = s
        /\ o \in Ops /\ mem'[w].job = o
    BY <1>0, <1>1, <1>f, <2>a, AtWork DEF Steps, Notes
  <2>2. RestOK' BY <1>0, <1>1, <1>f DEF RestOK, watching
  <2>3. CallInv' BY <1>0, <1>1, <1>f, <2>1, CallFrame DEF IInv
  <2>4. ScheduleInv'
    BY <1>0, <1>f, <2>a, <2>1 DEF IInv, ScheduleInv, Scheduling, OnlyMoves, Found
  <2>5. IntentInv' BY <1>0, <1>f, <2>1 DEF IInv, IntentInv, OnlyMoves
  <2> QED BY <1>6, <1>7, <2>1, <2>2, <2>3, <2>4, <2>5, FromParts
<1>2. CASE /\ ~Recovered(o, i) /\ GoTo(w, "apply")
           /\ calls' = [calls EXCEPT ![o][i] = @ + 1]
           /\ mem' = [mem EXCEPT ![w].input = i]
  <2>1. /\ WorkersOK' /\ OwnerInv' /\ OnlyMoves(w) /\ KeepsJob(w) /\ pc'[w] = "apply"
        /\ o \in Ops /\ mem'[w].job = o
    BY <1>0, <1>2, <1>f, AtWork DEF Steps, Notes
  <2>a. mem'[w].input = i BY <1>2, InputFacts, ToParts
  <2>b. /\ calls' \in [Ops -> [Inputs -> Nat]]
        /\ calls'[o][i] = calls[o][i] + 1 /\ calls[o][i] \in Nat
        /\ \A j \in Inputs \ {i} : calls'[o][j] = calls[o][j]
        /\ \A p \in Ops \ {o} : calls'[p] = calls[p]
    BY <1>0, <1>2, <2>1 DEF RestOK
  <2>2. RestOK' BY <1>0, <1>f, <2>b DEF RestOK, watching
  <2>3. CallInv'
    <3>1. Working(w) BY <1>0 DEF Working
    <3>2. \A j \in Inputs : calls[o][j] = 1 => Recovered(o, j)
      BY <1>0, <2>1, <3>1 DEF IInv, CallInv, Recovered
    <3>3. calls[o][i] = 0
      <4>1. calls[o][i] # 1 BY <1>2, <3>2
      <4>2. calls[o][i] <= 1 BY <2>1 DEF IInv, CallInv
      <4> QED BY <2>b, <4>1, <4>2
    <3>q. PICK q \in Ops : q = o BY <2>1
    <3>4. op[o].status \in {"RUNNING", "FAILED"}
      BY <3>1 DEF IInv, OwnerInv
    <3>5. \A v \in Workers \ {w} : Working(v) => mem[v].job # o
      BY <3>1 DEF IInv, OwnerInv
    <3>6. \A v \in Workers : Working(v)' /\ mem'[v].job = o => v = w
      BY <2>1, <3>5 DEF OnlyMoves, Working
    <3>7. \A p \in Ops, j \in Inputs : Recovered(p, j)' <=> Recovered(p, j)
      BY <1>f DEF Recovered
    <3>8. ASSUME NEW j \in Inputs
          PROVE  /\ calls'[q][j] <= 1
                 /\ calls'[q][j] = 1 /\ ~Recovered(q, j)' =>
                       /\ op'[q].status \in {"RUNNING", "FAILED"}
                       /\ \A v \in Workers : Working(v)' /\ mem'[v].job = q =>
                             pc'[v] = "fail" \/ (pc'[v] = "apply" /\ mem'[v].input = j)
                 /\ op'[q].status # "ABSENT"
      <4>1. CASE j = i
        BY <1>f, <2>1, <2>a, <2>b, <3>3, <3>4, <3>6, <3>q, <4>1
      <4>2. CASE j # i
        <5>1. calls'[q][j] = calls[q][j] BY <2>b, <3>q, <4>2
        <5>2. calls[q][j] = 1 => Recovered(q, j) BY <3>2, <3>q
        <5>3. calls[q][j] <= 1 BY DEF IInv, CallInv
        <5> QED BY <1>f, <3>4, <3>7, <3>q, <5>1, <5>2, <5>3
      <4> QED BY <4>1, <4>2
    <3>9. ASSUME NEW p \in Ops \ {q}, NEW j \in Inputs
          PROVE  /\ calls'[p][j] <= 1
                 /\ calls'[p][j] = 1 /\ ~Recovered(p, j)' =>
                       /\ op'[p].status \in {"RUNNING", "FAILED"}
                       /\ \A v \in Workers : Working(v)' /\ mem'[v].job = p =>
                             pc'[v] = "fail" \/ (pc'[v] = "apply" /\ mem'[v].input = j)
                 /\ op'[p].status = "ABSENT" => calls'[p][j] = 0
      BY <1>f, <2>1, <2>b, <3>7, <3>q DEF IInv, CallInv, OnlyMoves, Working
    <3> QED BY <3>8, <3>9 DEF CallInv
  <2>4. ScheduleInv'
    BY <1>0, <1>f, <2>1 DEF IInv, ScheduleInv, Scheduling, OnlyMoves, Found
  <2>5. IntentInv' BY <1>0, <1>f, <2>1 DEF IInv, IntentInv, OnlyMoves
  <2> QED BY <1>6, <1>7, <2>1, <2>2, <2>3, <2>4, <2>5, FromParts
<1> QED BY <1>a, <1>1, <1>2

(* An answer is recorded with the input it was about. *)
LEMMA RecordKeeps ==
    ASSUME IInv, NEW w \in Workers, ApplyCommitment(w), record[mem[w].job] = "NONE"
    PROVE  IInv'
<1> DEFINE o == mem[w].job
           i == mem[w].input
<1>0. WorkersOK /\ RestOK /\ o \in Ops /\ pc[w] = "apply"
  BY ToParts, JobFacts DEF ApplyCommitment
<1>f. /\ UNCHANGED <<op, jobs, spare, calls, retained, schedule, inflight, clock, watching>>
      /\ mem' = [mem EXCEPT ![w].input = None]
      /\ basis' = [basis EXCEPT ![o] = i]
  BY DEF ApplyCommitment
<1>a. PICK s \in {"schedule", "succeed"}, r \in {"COMMITMENT", "EXISTING", "REJECTED"} :
         /\ GoTo(w, s) /\ record' = [record EXCEPT ![o] = r]
         /\ s = "schedule" => commitment' # "NONE"
         /\ s = "schedule" <=> r \in Found
  BY DEF ApplyCommitment, Live, Found
<1>b. /\ record'[o] = r /\ basis'[o] = i /\ i \in Inputs \union {None}
      /\ \A p \in Ops \ {o} : record'[p] = record[p] /\ basis'[p] = basis[p]
  BY <1>0, <1>a, <1>f DEF RestOK, WorkersOK, Memory
<1>c. \/ UNCHANGED <<commitment, projection>>
      \/ /\ commitment = "NONE" /\ commitment' = "PENDING"
         /\ projection' = [status |-> "PENDING_SCHEDULE", version |-> 1]
  BY DEF ApplyCommitment
<1>1. /\ WorkersOK' /\ OwnerInv' /\ OnlyMoves(w) /\ KeepsJob(w) /\ pc'[w] = s
      /\ mem'[w].job = o
  BY <1>0, <1>a, <1>f, AtWork DEF Steps, Notes
<1>2. RestOK'
  <2>1. record' \in [Ops -> Records] /\ basis' \in [Ops -> Inputs \union {None}]
    BY <1>0, <1>a, <1>b, <1>f DEF RestOK, Records
  <2> QED BY <1>0, <1>c, <1>f, <2>1 DEF RestOK, Statuses, watching
<1>3. CallInv'
  <2>1. Working(w) BY <1>0 DEF Working
  <2>2. \A j \in Inputs : ~Recovered(o, j) BY DEF Recovered
  <2>3. \A j \in Inputs : calls[o][j] = 1 => i = j
    BY <1>0, <2>1, <2>2 DEF IInv, CallInv, Recovered
  <2>q. PICK q \in Ops : q = o BY <1>0
  <2>4. \A j \in Inputs : calls[q][j] = 1 => Recovered(q, j)'
    <3>1. ASSUME NEW j \in Inputs, calls[q][j] = 1
          PROVE  record'[q] # "NONE" /\ basis'[q] = j
      BY <1>a, <1>b, <2>3, <2>q, <3>1
    <3> QED BY <3>1 DEF Recovered
  <2>5. \A p \in Ops \ {q}, j \in Inputs : Recovered(p, j)' <=> Recovered(p, j)
    BY <1>b, <2>q DEF Recovered
  <2>6. ASSUME NEW j \in Inputs
        PROVE  /\ calls'[q][j] <= 1
               /\ ~(calls'[q][j] = 1 /\ ~Recovered(q, j)')
               /\ op'[q].status = "ABSENT" => calls'[q][j] = 0
    BY <1>f, <2>4 DEF IInv, CallInv
  <2>7. ASSUME NEW p \in Ops \ {q}, NEW j \in Inputs
        PROVE  /\ calls'[p][j] <= 1
               /\ calls'[p][j] = 1 /\ ~Recovered(p, j)' =>
                     /\ op'[p].status \in {"RUNNING", "FAILED"}
                     /\ \A v \in Workers : Working(v)' /\ mem'[v].job = p =>
                           pc'[v] = "fail" \/ (pc'[v] = "apply" /\ mem'[v].input = j)
               /\ op'[p].status = "ABSENT" => calls'[p][j] = 0
    BY <1>f, <1>1, <2>5, <2>q DEF IInv, CallInv, OnlyMoves, Working
  <2> QED BY <2>6, <2>7 DEF CallInv
<1>d. \A v \in Workers \ {w} : pc[v] \in Scheduling \union {"succeed"} =>
         mem[v].job \in Ops \ {o}
  BY <1>0, JobFacts DEF IInv, OwnerInv, Working, Scheduling
<1>4. ScheduleInv'
  <2>1. CASE UNCHANGED <<commitment, projection>>
    BY <1>0, <1>a, <1>b, <1>d, <1>f, <1>1, <2>1
       DEF IInv, ScheduleInv, Scheduling, OnlyMoves, Found
  <2>2. CASE commitment = "NONE" /\ commitment' = "PENDING"
    <3>1. \A v \in Workers : pc[v] \notin Scheduling
      BY <1>0, <2>2, JobFacts DEF IInv, ScheduleInv, Scheduling, Found
    <3>2. projection.status = "NONE" BY <2>2 DEF IInv, ScheduleInv, Found
    <3> QED BY <1>0, <1>a, <1>b, <1>d, <1>f, <1>1, <2>2, <3>1, <3>2
            DEF IInv, ApplyCommitment, ScheduleInv, Scheduling, OnlyMoves, Found
  <2> QED BY <1>c, <2>1, <2>2
<1>5. IntentInv' BY <1>0, <1>f, <1>1 DEF IInv, IntentInv, OnlyMoves
<1>6. DueInv' /\ FiringIsHeard'
  BY <1>c, <1>f, WatchFrame DEF IInv, watching
<1>7. SucceededMeansScheduled'
  <2>1. op[o].status # "SUCCEEDED"
    BY <1>0 DEF IInv, OwnerInv, Working
  <2>2. projection.status = "CREATED" => UNCHANGED projection
    BY <1>c DEF IInv, ScheduleInv, Found
  <2> QED BY <1>b, <1>f, <2>1, <2>2 DEF IInv, SucceededMeansScheduled, Found
<1>8. ScheduledHonestly'
  BY <1>c, <1>f DEF IInv, ScheduledHonestly
<1> QED BY <1>1, <1>2, <1>3, <1>4, <1>5, <1>6, <1>7, <1>8, FromParts

(* A record of another input refuses the answer. *)
LEMMA ConflictKeeps ==
    ASSUME IInv, NEW w \in Workers, ApplyCommitment(w), record[mem[w].job] # "NONE"
    PROVE  IInv'
<1>0. WorkersOK /\ RestOK /\ pc[w] = "apply" BY ToParts DEF ApplyCommitment
<1>a. /\ GoTo(w, "fail") /\ mem' = [mem EXCEPT ![w].input = None]
      /\ UNCHANGED <<record, basis, commitment, projection>>
      /\ UNCHANGED <<op, jobs, spare, calls, retained, schedule, inflight, clock, watching>>
  BY DEF ApplyCommitment
<1>1. /\ WorkersOK' /\ OwnerInv' /\ OnlyMoves(w) /\ KeepsJob(w) /\ pc'[w] = "fail"
  BY <1>0, <1>a, AtWork DEF Steps, Notes
<1>2. RestOK' BY <1>0, <1>a DEF RestOK, watching
<1>3. CallInv' BY <1>a, <1>1, CallFrame DEF IInv
<1>4. ScheduleInv' BY <1>a, <1>1, ScheduleFrame DEF IInv
<1>5. IntentInv' BY <1>0, <1>a, <1>1 DEF IInv, IntentInv, OnlyMoves
<1>6. DueInv' /\ FiringIsHeard' BY <1>a, WatchFrame DEF IInv, watching
<1>7. SucceededMeansScheduled' /\ ScheduledHonestly'
  BY <1>a DEF IInv, SucceededMeansScheduled, ScheduledHonestly, Found
<1> QED BY <1>1, <1>2, <1>3, <1>4, <1>5, <1>6, <1>7, FromParts

LEMMA ApplyKeeps == ASSUME IInv, NEW w \in Workers, ApplyCommitment(w) PROVE IInv'
BY RecordKeeps, ConflictKeeps

LEMMA LoadProjectionKeeps ==
    ASSUME IInv, NEW w \in Workers, LoadProjection(w) PROVE IInv'
<1>0. RestOK BY ToParts
<1>a. \/ /\ projection.status = "CREATED" /\ GoTo(w, "succeed") /\ UNCHANGED mem
      \/ /\ projection.status # "CREATED" /\ GoTo(w, "create")
         /\ mem' = [mem EXCEPT ![w].seen = projection.version]
         /\ projection.version \in Nat
  BY <1>0 DEF LoadProjection, RestOK
<1>1. /\ WorkersOK' /\ OwnerInv' /\ OnlyMoves(w) /\ KeepsJob(w)
      /\ pc'[w] \in {"succeed", "create"} /\ mem'[w].job = mem[w].job
  BY <1>a, AtWork DEF LoadProjection, Steps, Notes
<1>2. RestOK' BY <1>0 DEF LoadProjection, RestOK, watching
<1>3. CallInv' BY <1>1, CallFrame DEF IInv, LoadProjection
<1>4. ScheduleInv'
  <2>1. pc'[w] = "succeed" => projection.status = "CREATED"
    BY <1>a DEF GoTo, LoadProjection, IInv, TypeOK
  <2>2. pc'[w] = "create" =>
          projection.status # "CREATED" /\ mem'[w].seen = projection.version
    BY <1>a, SeenFacts, ToParts DEF GoTo, WorkersOK
  <2>3. record[mem[w].job] \in Found /\ projection.version \in Nat
    BY <1>0 DEF IInv, ScheduleInv, Scheduling, LoadProjection, RestOK, Found
  <2> QED BY <1>1, <2>1, <2>2, <2>3
          DEF IInv, LoadProjection, ScheduleInv, Scheduling, OnlyMoves, Found
<1>5. IntentInv' BY <1>1 DEF IInv, LoadProjection, IntentInv, OnlyMoves
<1>6. DueInv' /\ FiringIsHeard' BY WatchFrame DEF IInv, LoadProjection, watching
<1>7. SucceededMeansScheduled' /\ ScheduledHonestly'
  BY DEF IInv, LoadProjection, SucceededMeansScheduled, ScheduledHonestly, Found
<1> QED BY <1>1, <1>2, <1>3, <1>4, <1>5, <1>6, <1>7, FromParts

LEMMA CreateKeeps == ASSUME IInv, NEW w \in Workers, CreateDueSchedule(w) PROVE IInv'
<1>0. RestOK BY ToParts
<1>a. PICK s \in {"complete", "describe"} :
         /\ GoTo(w, s)
         /\ s = "complete" => schedule' = "STANDING" /\ UNCHANGED inflight
         /\ s = "describe" => UNCHANGED schedule /\ inflight' \in {inflight, inflight + 1}
  BY DEF CreateDueSchedule
<1>1. /\ WorkersOK' /\ OwnerInv' /\ OnlyMoves(w) /\ KeepsJob(w) /\ pc'[w] = s
      /\ mem[w].job \in Ops /\ mem'[w].job = mem[w].job
  BY <1>a, AtWork DEF CreateDueSchedule, Steps, Notes
<1>b. commitment # "NONE"
  BY <1>1 DEF IInv, ScheduleInv, Scheduling, CreateDueSchedule, Found
<1>2. RestOK' BY <1>0, <1>a DEF CreateDueSchedule, RestOK, watching
<1>3. CallInv' BY <1>1, CallFrame DEF IInv, CreateDueSchedule
<1>4. ScheduleInv'
  BY <1>1, <1>a, <1>b DEF IInv, CreateDueSchedule, ScheduleInv, Scheduling, OnlyMoves, Found
<1>5. IntentInv'
  BY <1>0, <1>1, <1>a DEF IInv, CreateDueSchedule, IntentInv, OnlyMoves, RestOK
<1>6. DueInv' /\ FiringIsHeard'
  BY <1>a, WatchFrame DEF IInv, CreateDueSchedule, watching
<1>7. SucceededMeansScheduled' /\ ScheduledHonestly'
  BY <1>a DEF IInv, CreateDueSchedule, SucceededMeansScheduled, ScheduledHonestly, Found
<1> QED BY <1>1, <1>2, <1>3, <1>4, <1>5, <1>6, <1>7, FromParts

LEMMA CompleteKeeps == ASSUME IInv, NEW w \in Workers, CompleteIntent(w) PROVE IInv'
<1>0. RestOK BY ToParts
<1>1. /\ WorkersOK' /\ OwnerInv' /\ OnlyMoves(w) /\ KeepsJob(w) /\ pc'[w] = "created"
      /\ mem'[w].job = mem[w].job
  BY AtWork DEF CompleteIntent, Steps, Notes
<1>2. RestOK' BY <1>0 DEF CompleteIntent, RestOK, watching
<1>3. CallInv' BY <1>1, CallFrame DEF IInv, CompleteIntent
<1>4. ScheduleInv'
  BY <1>1 DEF IInv, CompleteIntent, ScheduleInv, Scheduling, OnlyMoves, Found
<1>5. IntentInv' BY <1>1 DEF IInv, CompleteIntent, IntentInv, OnlyMoves
<1>6. DueInv' /\ FiringIsHeard' BY WatchFrame DEF IInv, CompleteIntent, watching
<1>7. SucceededMeansScheduled' /\ ScheduledHonestly'
  BY DEF IInv, CompleteIntent, SucceededMeansScheduled, ScheduledHonestly, Found
<1> QED BY <1>1, <1>2, <1>3, <1>4, <1>5, <1>6, <1>7, FromParts

LEMMA DescribeKeeps == ASSUME IInv, NEW w \in Workers, DescribeSchedule(w) PROVE IInv'
<1>0. RestOK BY ToParts
<1>a. PICK s \in {"created", "failed", "fail"} :
         /\ GoTo(w, s)
         /\ s = "created" => schedule = "STANDING"
         /\ s # "fail" => UNCHANGED mem
         /\ s = "fail" => mem' = [mem EXCEPT ![w].seen = 0, ![w].input = None]
  BY DEF DescribeSchedule, End
<1>1. /\ WorkersOK' /\ OwnerInv' /\ OnlyMoves(w) /\ KeepsJob(w) /\ pc'[w] = s
      /\ mem'[w].job = mem[w].job
  <2>1. Notes(w) BY <1>a DEF Notes
  <2> QED BY <1>a, <2>1, AtWork DEF DescribeSchedule, Steps, Notes
<1>2. RestOK' BY <1>0 DEF DescribeSchedule, RestOK, watching
<1>3. CallInv' BY <1>1, CallFrame DEF IInv, DescribeSchedule
<1>4. ScheduleInv'
  BY <1>1, <1>a DEF IInv, DescribeSchedule, ScheduleInv, Scheduling, OnlyMoves, Found
<1>5. IntentInv' BY DEF DescribeSchedule, IntentInv
<1>6. DueInv' /\ FiringIsHeard' BY WatchFrame DEF IInv, DescribeSchedule, watching
<1>7. SucceededMeansScheduled' /\ ScheduledHonestly'
  BY DEF IInv, DescribeSchedule, SucceededMeansScheduled, ScheduledHonestly, Found
<1> QED BY <1>1, <1>2, <1>3, <1>4, <1>5, <1>6, <1>7, FromParts

(* What both ways of moving the projection come to. *)
LEMMA ProjectionFacts ==
    ASSUME RestOK, NEW status \in {"PENDING_SCHEDULE", "CREATED"}, Record(status)
    PROVE  /\ projection' \in [status : {"NONE", "PENDING_SCHEDULE", "CREATED"}, version : Nat]
           /\ projection'.status = status
           /\ projection'.version = projection.version + 1
           /\ projection.version \in Nat
BY DEF RestOK, Record

LEMMA RecordCreatedKeeps ==
    ASSUME IInv, NEW w \in Workers, RecordCreated(w) PROVE IInv'
<1>0. WorkersOK /\ RestOK BY ToParts
<1>a. PICK s \in {"succeed", "fail"} :
         /\ GoTo(w, s) /\ mem' = [mem EXCEPT ![w].seen = 0, ![w].input = None]
         /\ s = "succeed" => Record("CREATED")
         /\ s = "fail" => UNCHANGED projection
  BY DEF RecordCreated, End
<1>1. /\ WorkersOK' /\ OwnerInv' /\ OnlyMoves(w) /\ KeepsJob(w) /\ pc'[w] = s
      /\ mem[w].job \in Ops /\ mem'[w].job = mem[w].job
  BY <1>a, AtWork DEF RecordCreated, Steps, Notes
<1>2. RestOK' BY <1>0, <1>a, ProjectionFacts DEF RecordCreated, RestOK, watching
<1>3. CallInv' BY <1>1, CallFrame DEF IInv, RecordCreated
<1>b. commitment # "NONE" /\ schedule # "NONE"
  BY <1>1 DEF IInv, ScheduleInv, Scheduling, RecordCreated, Found
<1>4. ScheduleInv'
  <2>1. CASE s = "fail"
    BY <1>1, <1>a, <2>1, ScheduleFrame DEF IInv, RecordCreated
  <2>2. CASE s = "succeed"
    <3>1. /\ projection'.status = "CREATED" /\ projection'.version = projection.version + 1
          /\ projection.version \in Nat
      BY <1>0, <1>a, <2>2, ProjectionFacts
    <3>2. \A v \in Workers : mem[v].seen \in Nat BY <1>0 DEF WorkersOK, Memory
    <3> QED BY <1>1, <1>b, <2>2, <3>1, <3>2
            DEF IInv, RecordCreated, ScheduleInv, Scheduling, OnlyMoves, Found
  <2> QED BY <2>1, <2>2
<1>5. IntentInv' BY <1>1 DEF IInv, RecordCreated, IntentInv, OnlyMoves
<1>6. DueInv' /\ FiringIsHeard' BY WatchFrame DEF IInv, RecordCreated, watching
<1>7. SucceededMeansScheduled' /\ ScheduledHonestly'
  BY <1>0, <1>a, <1>b, ProjectionFacts
     DEF IInv, RecordCreated, SucceededMeansScheduled, ScheduledHonestly, Found
<1> QED BY <1>1, <1>2, <1>3, <1>4, <1>5, <1>6, <1>7, FromParts

(* A late failure takes no CREATED back: the row it read is older. *)
LEMMA RecordFailureKeeps ==
    ASSUME IInv, NEW w \in Workers, RecordFailure(w) PROVE IInv'
<1>0. WorkersOK /\ RestOK BY ToParts
<1>a. PICK s \in {"release", "fail"} :
         /\ GoTo(w, s) /\ mem' = [mem EXCEPT ![w].seen = 0, ![w].input = None]
         /\ s = "release" => Unmoved(w) /\ Record("PENDING_SCHEDULE")
         /\ s = "fail" => UNCHANGED projection
  BY DEF RecordFailure, End
<1>1. /\ WorkersOK' /\ OwnerInv' /\ OnlyMoves(w) /\ KeepsJob(w) /\ pc'[w] = s
      /\ mem[w].job \in Ops /\ mem'[w].job = mem[w].job
  BY <1>a, AtWork DEF RecordFailure, Steps, Notes
<1>2. RestOK' BY <1>0, <1>a, ProjectionFacts DEF RecordFailure, RestOK, watching
<1>3. CallInv' BY <1>1, CallFrame DEF IInv, RecordFailure
<1>b. commitment # "NONE" /\ record[mem[w].job] \in Found
  BY <1>1 DEF IInv, ScheduleInv, Scheduling, RecordFailure, Found
<1>c. s = "release" => projection.status # "CREATED"
  BY <1>0, <1>a DEF IInv, ScheduleInv, Scheduling, RecordFailure, Unmoved, RestOK, Found
<1>4. ScheduleInv'
  <2>1. CASE s = "fail"
    BY <1>1, <1>a, <2>1, ScheduleFrame DEF IInv, RecordFailure
  <2>2. CASE s = "release"
    <3>1. /\ projection'.status = "PENDING_SCHEDULE"
          /\ projection'.version = projection.version + 1
          /\ projection.version \in Nat
      BY <1>0, <1>a, <2>2, ProjectionFacts
    <3>2. \A v \in Workers : mem[v].seen \in Nat BY <1>0 DEF WorkersOK, Memory
    <3> QED BY <1>1, <1>b, <1>c, <2>2, <3>1, <3>2
            DEF IInv, RecordFailure, ScheduleInv, Scheduling, OnlyMoves, Found
  <2> QED BY <2>1, <2>2
<1>5. IntentInv' BY <1>1 DEF IInv, RecordFailure, IntentInv, OnlyMoves
<1>6. DueInv' /\ FiringIsHeard' BY WatchFrame DEF IInv, RecordFailure, watching
<1>7. SucceededMeansScheduled' /\ ScheduledHonestly'
  BY <1>0, <1>a, <1>c, ProjectionFacts
     DEF IInv, RecordFailure, SucceededMeansScheduled, ScheduledHonestly, Found
<1> QED BY <1>1, <1>2, <1>3, <1>4, <1>5, <1>6, <1>7, FromParts

LEMMA ExtractFailsKeeps ==
    ASSUME IInv, NEW w \in Workers, ExtractFails(w) PROVE IInv'
<1>0. WorkersOK /\ RestOK BY ToParts
<1>a. /\ GoTo(w, "fail") /\ mem' = [mem EXCEPT ![w].seen = 0, ![w].input = None]
      /\ retained \/ InProgress(w) => retained'
      /\ retained' \in BOOLEAN
  BY DEF ExtractFails, End
<1>1. /\ WorkersOK' /\ OwnerInv' /\ OnlyMoves(w) /\ KeepsJob(w) /\ pc'[w] = "fail"
  BY <1>a, AtWork DEF ExtractFails, Steps, Notes
<1>2. RestOK' BY <1>0, <1>a DEF ExtractFails, RestOK
<1>3. CallInv'
  BY <1>1 DEF IInv, ExtractFails, CallInv, Working, OnlyMoves, KeepsJob, Recovered
<1>4. ScheduleInv' BY <1>1, ScheduleFrame DEF IInv, ExtractFails
<1>5. IntentInv' BY <1>1, <1>a DEF IInv, ExtractFails, IntentInv, OnlyMoves
<1>6. DueInv' /\ FiringIsHeard' BY WatchFrame DEF IInv, ExtractFails
<1>7. SucceededMeansScheduled' /\ ScheduledHonestly'
  BY DEF IInv, ExtractFails, SucceededMeansScheduled, ScheduledHonestly, Found
<1> QED BY <1>1, <1>2, <1>3, <1>4, <1>5, <1>6, <1>7, FromParts

-----------------------------------------------------------------------------
(* The schedule, the clock and the watcher.                                 *)

LEMMA LandKeeps == ASSUME IInv, LandRequest PROVE IInv'
<1>0. WorkersOK /\ RestOK BY ToParts
<1>1. RestOK' BY <1>0 DEF LandRequest, RestOK, working, watching
<1>2. WorkersOK' BY <1>0 DEF LandRequest, WorkersOK, working
<1>3. OwnerInv' /\ CallInv'
  BY DEF IInv, LandRequest, OwnerInv, CallInv, Working, Holds, working, Recovered
<1>4. ScheduleInv' /\ IntentInv'
  BY <1>0 DEF IInv, LandRequest, ScheduleInv, IntentInv, working, RestOK, Found
<1>5. DueInv' /\ FiringIsHeard' BY WatchFrame DEF IInv, LandRequest, watching
<1>6. SucceededMeansScheduled' /\ ScheduledHonestly'
  BY DEF IInv, LandRequest, SucceededMeansScheduled, ScheduledHonestly, working, Found
<1> QED BY <1>1, <1>2, <1>3, <1>4, <1>5, <1>6, FromParts

LEMMA AdvanceKeeps == ASSUME IInv, AdvanceDemoClock PROVE IInv'
<1>0. RestOK BY ToParts
<1>1. clock \in Nat /\ clock' = clock + 1 BY <1>0 DEF AdvanceDemoClock, RestOK
<1>2. /\ deliveries' \in [Triggers -> Nat]
      /\ deliveries'["SCHEDULE"] = deliveries["SCHEDULE"]
  BY <1>0 DEF AdvanceDemoClock, RestOK, Triggers
<1>3. RestOK' BY <1>0, <1>1, <1>2 DEF AdvanceDemoClock, RestOK, working
<1>4. DueInv' BY <1>1, NumberAssumption DEF IInv, AdvanceDemoClock, DueInv, Early
<1>5. FiringIsHeard' BY <1>2 DEF IInv, AdvanceDemoClock, FiringIsHeard
<1> QED BY <1>3, <1>4, <1>5, WorkFrame, FromParts DEF AdvanceDemoClock

LEMMA FireKeeps == ASSUME IInv, FireSchedule PROVE IInv'
<1>0. RestOK BY ToParts
<1>1. deliveries' \in [Triggers -> Nat] /\ deliveries'["SCHEDULE"] > 0
  BY <1>0 DEF FireSchedule, RestOK, Triggers
<1>2. RestOK' BY <1>0, <1>1, NumberAssumption DEF FireSchedule, RestOK, working
<1>3. DueInv' BY DEF IInv, FireSchedule, DueInv, Early
<1>4. FiringIsHeard' BY <1>1 DEF FiringIsHeard
<1>5. commitment # "NONE" BY DEF IInv, ScheduleInv, FireSchedule, Found
<1> QED BY <1>2, <1>3, <1>4, <1>5, WorkFrame, FromParts DEF FireSchedule

LEMMA DuplicateKeeps == ASSUME IInv, Duplicate PROVE IInv'
<1>0. RestOK BY ToParts
<1>1. deliveries' \in [Triggers -> Nat] /\ deliveries'["SCHEDULE"] > 0
  BY <1>0 DEF Duplicate, RestOK, Triggers
<1>2. RestOK' BY <1>0, <1>1 DEF Duplicate, RestOK, working
<1>3. DueInv' BY DEF IInv, Duplicate, DueInv, Early
<1>4. FiringIsHeard' BY <1>1 DEF FiringIsHeard
<1> QED BY <1>2, <1>3, <1>4, WorkFrame, FromParts DEF Duplicate

LEMMA LoadKeeps ==
    ASSUME IInv, NEW d \in Watchers, NEW t \in Triggers, LoadCommitment(d, t) PROVE IInv'
<1>0. RestOK BY ToParts
<1>1. /\ deliveries' \in [Triggers -> Nat]
      /\ t # "SCHEDULE" => deliveries'["SCHEDULE"] = deliveries["SCHEDULE"]
  BY <1>0 DEF LoadCommitment, RestOK, Triggers
<1>2. \/ (commitment # "PENDING" \/ Early) /\ UNCHANGED watch
      \/ /\ commitment = "PENDING" /\ ~Early /\ watch' = [watch EXCEPT ![d] = t]
         /\ watch'[d] = t /\ \A e \in Watchers \ {d} : watch'[e] = watch[e]
  BY <1>0 DEF LoadCommitment, RestOK
<1>3. RestOK' BY <1>0, <1>1, <1>2 DEF LoadCommitment, RestOK, working
<1>4. DueInv' BY <1>2 DEF IInv, LoadCommitment, DueInv, Early
<1>5. FiringIsHeard'
  <2> SUFFICES ASSUME schedule = "FIRED", commitment = "PENDING", retries > 0
               PROVE  \/ deliveries'["SCHEDULE"] > 0
                      \/ \E e \in Watchers : watch'[e] = "SCHEDULE"
    BY DEF LoadCommitment, FiringIsHeard
  <2>1. ~Early BY DEF IInv, DueInv
  <2>2. watch'[d] = t /\ \A e \in Watchers \ {d} : watch'[e] = watch[e] BY <1>2, <2>1
  <2>3. CASE t = "SCHEDULE" BY <2>2, <2>3
  <2>4. CASE t # "SCHEDULE"
    <3>1. watch[d] # "SCHEDULE" BY NoneAssumption DEF LoadCommitment, Triggers
    <3> QED BY <1>1, <2>2, <2>4, <3>1 DEF IInv, FiringIsHeard
  <2> QED BY <2>3, <2>4
<1> QED BY <1>3, <1>4, <1>5, WorkFrame, FromParts DEF LoadCommitment

LEMMA MarkKeeps == ASSUME IInv, NEW d \in Watchers, MarkDue(d) PROVE IInv'
<1>0. RestOK BY ToParts
<1>1. /\ watch' \in [Watchers -> Triggers \union {None}] /\ watch'[d] = None
      /\ \A e \in Watchers \ {d} : watch'[e] = watch[e]
  BY <1>0 DEF MarkDue, Return, RestOK
<1>2. RestOK' BY <1>0, <1>1 DEF MarkDue, RestOK, Statuses, working
<1>3. DueInv' BY <1>1 DEF IInv, MarkDue, DueInv, Early
<1>4. FiringIsHeard' BY DEF MarkDue, FiringIsHeard
<1> QED BY <1>2, <1>3, <1>4, WorkFrame, FromParts DEF MarkDue, StillPending

(* A failure before the attempts are used up owes the event again. *)
LEMMA FailFacts ==
    ASSUME RestOK, NEW t \in Triggers, NEW owed \in [Triggers -> Nat], Fail(t, owed)
    PROVE  /\ deliveries' \in [Triggers -> Nat] /\ retries' \in Nat
           /\ t # "SCHEDULE" => deliveries' = owed /\ retries' = retries
           /\ t = "SCHEDULE" => deliveries'["SCHEDULE"] > 0 \/ retries' = 0
<1>1. CASE t = "SCHEDULE" /\ retries > 0 BY <1>1 DEF Fail, RestOK, Triggers
<1>2. CASE ~(t = "SCHEDULE" /\ retries > 0) BY <1>2 DEF Fail, RestOK
<1> QED BY <1>1, <1>2

LEMMA LoseRaceKeeps == ASSUME IInv, NEW d \in Watchers, LoseRace(d) PROVE IInv'
<1>0. RestOK BY ToParts
<1>1. watch[d] \in Triggers BY <1>0 DEF LoseRace, RestOK
<1>2. deliveries' \in [Triggers -> Nat] /\ retries' \in Nat
  BY <1>0, <1>1, FailFacts DEF LoseRace, RestOK
<1>3. /\ watch' \in [Watchers -> Triggers \union {None}] /\ watch'[d] = None
      /\ \A e \in Watchers \ {d} : watch'[e] = watch[e]
  BY <1>0 DEF LoseRace, Return, RestOK
<1>4. RestOK' BY <1>0, <1>2, <1>3 DEF LoseRace, RestOK, working
<1>5. DueInv' BY <1>3 DEF IInv, LoseRace, DueInv, Early
<1>6. FiringIsHeard' BY DEF IInv, LoseRace, StillPending, DueInv, FiringIsHeard
<1> QED BY <1>4, <1>5, <1>6, WorkFrame, FromParts DEF LoseRace

LEMMA InvocationFailsKeeps ==
    ASSUME IInv, NEW d \in Watchers, InvocationFails(d) PROVE IInv'
<1>0. RestOK BY ToParts
<1>a. faults' \in Nat BY <1>0 DEF InvocationFails, RestOK
<1>1. CASE watch[d] # None /\ Fail(watch[d], deliveries) /\ Return(d)
  <2>1. watch[d] \in Triggers /\ deliveries \in [Triggers -> Nat] BY <1>0, <1>1 DEF RestOK
  <2>2. /\ deliveries' \in [Triggers -> Nat] /\ retries' \in Nat
        /\ watch[d] # "SCHEDULE" => deliveries' = deliveries /\ retries' = retries
        /\ watch[d] = "SCHEDULE" => deliveries'["SCHEDULE"] > 0 \/ retries' = 0
    BY <1>0, <1>1, <2>1, FailFacts
  <2>3. /\ watch' \in [Watchers -> Triggers \union {None}] /\ watch'[d] = None
        /\ \A e \in Watchers \ {d} : watch'[e] = watch[e]
    BY <1>0, <1>1 DEF Return, RestOK
  <2>4. RestOK' BY <1>0, <1>a, <2>2, <2>3 DEF InvocationFails, RestOK, working
  <2>5. DueInv' BY <2>3 DEF IInv, InvocationFails, DueInv, Early
  <2>6. FiringIsHeard' BY <2>2, <2>3 DEF IInv, InvocationFails, FiringIsHeard
  <2> QED BY <2>4, <2>5, <2>6, WorkFrame, FromParts DEF InvocationFails
<1>2. ASSUME NEW t \in Triggers, watch[d] = None, deliveries[t] > 0,
             Fail(t, [deliveries EXCEPT ![t] = @ - 1]), UNCHANGED watch
      PROVE  IInv'
  <2> DEFINE owed == [deliveries EXCEPT ![t] = @ - 1]
  <2>1. /\ owed \in [Triggers -> Nat]
        /\ t # "SCHEDULE" => owed["SCHEDULE"] = deliveries["SCHEDULE"]
    BY <1>0, <1>2 DEF RestOK, Triggers
  <2>2. /\ deliveries' \in [Triggers -> Nat] /\ retries' \in Nat
        /\ t # "SCHEDULE" => deliveries' = owed /\ retries' = retries
        /\ t = "SCHEDULE" => deliveries'["SCHEDULE"] > 0 \/ retries' = 0
    BY <1>0, <1>2, <2>1, FailFacts
  <2>3. RestOK' BY <1>0, <1>2, <1>a, <2>2 DEF InvocationFails, RestOK, working
  <2>4. DueInv' BY <1>2 DEF IInv, InvocationFails, DueInv, Early
  <2>5. FiringIsHeard'
    <3>1. CASE t = "SCHEDULE"
      BY <2>2, <3>1 DEF FiringIsHeard
    <3>2. CASE t # "SCHEDULE"
      <4>1. deliveries'["SCHEDULE"] = deliveries["SCHEDULE"] /\ retries' = retries
        BY <2>1, <2>2, <3>2
      <4> HIDE DEF owed
      <4> QED BY <1>2, <4>1 DEF IInv, InvocationFails, FiringIsHeard
    <3> QED BY <3>1, <3>2
  <2> QED BY <2>3, <2>4, <2>5, WorkFrame, FromParts DEF InvocationFails
<1> QED BY <1>1, <1>2 DEF InvocationFails

LEMMA VerifyKeeps == ASSUME IInv, VerifyCommitment PROVE IInv'
<1>1. RestOK' BY ToParts DEF VerifyCommitment, RestOK, Statuses, working, watching
<1>2. DueInv' BY DEF IInv, VerifyCommitment, DueInv, Early, watching
<1>3. FiringIsHeard' BY DEF VerifyCommitment, FiringIsHeard
<1> QED BY <1>1, <1>2, <1>3, WorkFrame, FromParts DEF VerifyCommitment

-----------------------------------------------------------------------------
LEMMA InitHolds == ASSUME Init PROVE IInv
<1> USE NumberAssumption, NoneAssumption
<1>1. TypeOK
  BY DEF Init, TypeOK, OpStates, Records, Statuses, Steps, Idle, Triggers
<1>2. \A w \in Workers : pc[w] = "idle" BY DEF Init
<1>3. OwnerInv /\ CallInv /\ ScheduleInv /\ IntentInv
  BY <1>2 DEF Init, OwnerInv, CallInv, ScheduleInv, IntentInv, Working, Scheduling, Recovered, Found
<1>4. DueInv BY DEF Init, DueInv
<1>5. SucceededMeansScheduled /\ ScheduledHonestly /\ FiringIsHeard
  BY DEF Init, SucceededMeansScheduled, ScheduledHonestly, FiringIsHeard, Found
<1> QED BY <1>1, <1>3, <1>4, <1>5 DEF IInv

LEMMA StutterKeeps == ASSUME IInv, UNCHANGED vars PROVE IInv'
<1> USE DEF vars, working, watching
<1>1. WorkersOK' /\ RestOK' BY ToParts DEF WorkersOK, RestOK
<1>2. OwnerInv' /\ CallInv' BY DEF IInv, OwnerInv, CallInv, Working, Holds, Recovered
<1>3. ScheduleInv' /\ IntentInv' BY DEF IInv, ScheduleInv, IntentInv, Found
<1>4. DueInv' /\ FiringIsHeard' BY WatchFrame DEF IInv
<1>5. SucceededMeansScheduled' /\ ScheduledHonestly'
  BY DEF IInv, SucceededMeansScheduled, ScheduledHonestly, Found
<1> QED BY <1>1, <1>2, <1>3, <1>4, <1>5, FromParts

LEMMA WorkerKeeps ==
    ASSUME IInv, NEW w \in Workers, Work(w) \/ ExtractFails(w) \/ LoseWorker(w)
    PROVE  IInv'
BY DeliverKeeps, ClaimKeeps, ExtractKeeps, ApplyKeeps, LoadProjectionKeeps, CreateKeeps,
   CompleteKeeps, DescribeKeeps, RecordCreatedKeeps, RecordFailureKeeps, SettleKeeps,
   ExtractFailsKeeps, LoseWorkerKeeps
   DEF Work

LEMMA WatcherKeeps ==
    ASSUME IInv, NEW d \in Watchers, Watch(d) \/ InvocationFails(d)
    PROVE  IInv'
BY LoadKeeps, MarkKeeps, LoseRaceKeeps, InvocationFailsKeeps DEF Watch

LEMMA StepHolds == ASSUME IInv, [Next]_vars PROVE IInv'
BY StartKeeps, RedeliverKeeps, WorkerKeeps, WatcherKeeps, LandKeeps, AdvanceKeeps,
   FireKeeps, DuplicateKeeps, VerifyKeeps, StutterKeeps
   DEF Next

(* The inductive invariant holds throughout. *)
THEOREM Inductive == Spec => []IInv
<1>1. Init => IInv BY InitHolds
<1>2. IInv /\ [Next]_vars => IInv' BY StepHolds
<1> QED BY <1>1, <1>2, PTL DEF Spec

(* The state stays in its types. *)
THEOREM TypeCorrect == Spec => []TypeOK
<1>1. IInv => TypeOK BY DEF IInv
<1> QED BY <1>1, Inductive, PTL

(* An extraction that found a commitment succeeds only with its deadline    *)
(* recorded as scheduled (create_due_schedule.py).                          *)
THEOREM DeadlineRecorded == Spec => []SucceededMeansScheduled
<1>1. IInv => SucceededMeansScheduled BY DEF IInv
<1> QED BY <1>1, Inductive, PTL

(* No operation asks the model twice about one input, and none that asked   *)
(* about two succeeds (extract_commitment_operation.py).                    *)
THEOREM AskedOnce == Spec => []ModelCalledOnce
<1>1. ASSUME IInv PROVE ModelCalledOnce
  <2>1. RestOK BY <1>1, ToParts
  <2>2. ASSUME NEW o \in Ops, NEW i \in Inputs, NEW j \in Inputs \ {i},
               calls[o][i] > 0, calls[o][j] > 0
        PROVE  op[o].status \in {"RUNNING", "FAILED"}
    <3>1. calls[o][i] = 1 /\ calls[o][j] = 1
      BY <1>1, <2>1, <2>2 DEF IInv, CallInv, RestOK, Recovered
    <3>2. ~Recovered(o, i) \/ ~Recovered(o, j) BY DEF Recovered
    <3> QED BY <1>1, <3>1, <3>2 DEF IInv, CallInv, Recovered
  <2> QED BY <1>1, <2>2 DEF IInv, CallInv, ModelCalledOnce, Recovered
<1> QED BY <1>1, Inductive, PTL

(* CREATED is never said of a schedule that never was (_record_created).    *)
THEOREM NoFalseBanner == Spec => []ScheduledHonestly
<1>1. IInv => ScheduledHonestly BY DEF IInv
<1> QED BY <1>1, Inductive, PTL

(* A create request that may still land is covered by an intent that keeps  *)
(* a reset out (demo_side_effect.py).                                       *)
THEOREM RequestsGuarded == Spec => []NoUnguardedRequest
<1>1. IInv => NoUnguardedRequest
  BY DEF IInv, IntentInv, NoUnguardedRequest, InProgress
<1> QED BY <1>1, Inductive, PTL

(* A firing on time is owed, in hand or out of attempts (handler.py).       *)
THEOREM Heard == Spec => []FiringIsHeard
<1>1. IInv => FiringIsHeard BY DEF IInv
<1> QED BY <1>1, Inductive, PTL

-----------------------------------------------------------------------------
(* A claim or a settlement is of a row that is not over. *)
LEMMA OverStays ==
    ASSUME IInv, [Next]_vars, NEW o \in Ops, op[o].status \in {"SUCCEEDED", "FAILED"}
    PROVE  op'[o] = op[o]
<1>0. WorkersOK /\ RestOK BY ToParts
<1>a. ASSUME NEW p \in Ops, NEW s \in OpStates, SetStatus(p, s), p # o
      PROVE  op'[o] = op[o]
  BY <1>0, <1>a, StatusFacts DEF RestOK
<1>1. ASSUME NEW p \in Ops, Start(p) PROVE op'[o] = op[o]
  BY <1>1, <1>a DEF Start, OpStates
<1>2. ASSUME NEW w \in Workers, NEW p \in Ops, Deliver(w, p) PROVE op'[o] = op[o]
  BY <1>2, <1>a DEF Deliver, Stale, OpStates
<1>3. ASSUME NEW w \in Workers, ClaimOperation(w) PROVE op'[o] = op[o]
  BY <1>0, <1>3, JobFacts DEF ClaimOperation, Claimable, RestOK
<1>4. ASSUME NEW w \in Workers, Settle(w) PROVE op'[o] = op[o]
  <2>1. mem[w].job \in Ops BY <1>0, <1>4, JobFacts DEF Settle
  <2>2. CASE UNCHANGED op BY <2>2
  <2>3. ASSUME Holds(w), NEW s \in OpStates, SetStatus(mem[w].job, s)
        PROVE  op'[o] = op[o]
    <3>1. op[mem[w].job].status = "RUNNING"
      <4>1. mem[w].held \in Nat BY <1>0 DEF WorkersOK, Memory
      <4>2. ~(mem[w].held < op[mem[w].job].version)
        BY <2>3, <4>1 DEF Holds
      <4>3. Working(w) BY <1>4 DEF Settle, Working
      <4> QED BY <4>2, <4>3 DEF IInv, OwnerInv
    <3> QED BY <1>a, <2>1, <2>3, <3>1
  <2> QED BY <1>4, <2>2, <2>3 DEF Settle, OpStates
<1>5. ASSUME NEW w \in Workers, Work(w) \/ ExtractFails(w) \/ LoseWorker(w)
      PROVE  op'[o] = op[o]
  BY <1>2, <1>3, <1>4, <1>5
     DEF Work, Extract, ApplyCommitment, LoadProjection, CreateDueSchedule, CompleteIntent,
         DescribeSchedule, RecordCreated, RecordFailure, ExtractFails, LoseWorker
<1>6. ASSUME NEW d \in Watchers, Watch(d) \/ InvocationFails(d) PROVE op'[o] = op[o]
  BY <1>6 DEF Watch, LoadCommitment, MarkDue, LoseRace, InvocationFails, working
<1>7. CASE \/ LandRequest \/ AdvanceDemoClock \/ FireSchedule \/ Duplicate
           \/ VerifyCommitment \/ UNCHANGED vars \/ \E p \in Ops : Redeliver(p)
  BY <1>7 DEF LandRequest, AdvanceDemoClock, FireSchedule, Duplicate, VerifyCommitment,
              Redeliver, vars, working
<1> QED BY <1>1, <1>5, <1>6, <1>7 DEF Next

(* No operation that ended is written again (operations.py).                *)
THEOREM NeverReopened == Spec => OverMeansOver
<1>1. IInv /\ [Next]_vars
        => [\A o \in Ops : op[o].status \in {"SUCCEEDED", "FAILED"} => op'[o] = op[o]]_vars
  BY OverStays
<1> QED BY <1>1, Inductive, PTL DEF Spec, OverMeansOver

(* Every step is a step of the promise or leaves it alone. *)
LEMMA PromiseStep == ASSUME IInv, [Next]_vars PROVE [Promise!Next]_Promise!vars
<1> USE DEF Promise!vars
<1>1. CASE UNCHANGED <<commitment, clock, asked>> BY <1>1
<1>2. CASE \/ \E o \in Ops : Start(o) \/ Redeliver(o)
           \/ LandRequest \/ FireSchedule \/ Duplicate \/ UNCHANGED vars
  BY <1>1, <1>2 DEF Start, Redeliver, LandRequest, FireSchedule, Duplicate, vars, watching
<1>3. ASSUME NEW w \in Workers, Work(w) \/ ExtractFails(w) \/ LoseWorker(w)
      PROVE  [Promise!Next]_Promise!vars
  <2>1. CASE ApplyCommitment(w)
    BY <1>1, <2>1 DEF ApplyCommitment, watching, Promise!Next, Promise!Promise
  <2>2. CASE ~ApplyCommitment(w)
    BY <1>1, <1>3, <2>2
       DEF Work, Deliver, ClaimOperation, Extract, LoadProjection, CreateDueSchedule,
           CompleteIntent, DescribeSchedule, RecordCreated, RecordFailure, Settle,
           ExtractFails, LoseWorker, watching
  <2> QED BY <2>1, <2>2
<1>4. CASE AdvanceDemoClock
  BY <1>4, ToParts DEF AdvanceDemoClock, RestOK, Promise!Next, Promise!Pass
<1>5. ASSUME NEW d \in Watchers, Watch(d) \/ InvocationFails(d)
      PROVE  [Promise!Next]_Promise!vars
  <2>1. CASE MarkDue(d)
    <3>1. clock \in Nat /\ clock >= Due
      BY <2>1, ToParts, NumberAssumption DEF IInv, DueInv, Early, MarkDue, RestOK
    <3> QED BY <2>1, <3>1 DEF MarkDue, StillPending, Promise!Next, Promise!FallDue
  <2>2. CASE ~MarkDue(d)
    BY <1>1, <1>5, <2>2 DEF Watch, LoadCommitment, LoseRace, InvocationFails
  <2> QED BY <2>1, <2>2
<1>6. CASE VerifyCommitment
  BY <1>6 DEF IInv, DueInv, VerifyCommitment, watching, Promise!Next, Promise!Verify
<1> QED BY <1>2, <1>3, <1>4, <1>5, <1>6 DEF Next

(* The detailed system implements the promise with a deadline: due only     *)
(* after its time, asked about once, decided by people.                     *)
THEOREM Implements == Spec => ImplementsPromise
<1>1. Init => Promise!Init BY DEF Init, Promise!Init
<1>2. IInv /\ [Next]_vars => [Promise!Next]_Promise!vars BY PromiseStep
<1> QED BY <1>1, <1>2, Inductive, PTL DEF Spec, ImplementsPromise, Promise!Spec
=============================================================================
