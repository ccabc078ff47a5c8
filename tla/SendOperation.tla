--------------------------- MODULE SendOperation ---------------------------
(***************************************************************************)
(* The asynchronous SEND_ACTION operation around one approved execution:   *)
(* the API that reserves and dispatches an operation, the at-least-once    *)
(* delivery of its job, the worker body (SendActionOperation), the sender  *)
(* it invokes and waits for, and the projection it owes the case.          *)
(*                                                                         *)
(* The sender is seen from outside: it answers from the row, or claims the *)
(* row, calls, and records (SendAction has its inside).  A worker slot and *)
(* the sender invocation it started share an index; the sender may outlive *)
(* the worker that waits for it.                                           *)
(***************************************************************************)
EXTENDS Naturals, FiniteSets

CONSTANTS
    Ops,        \* operations: one per Idempotency-Key presented for this execution
    Workers,    \* concurrent worker invocations
    None,
    Spare,      \* bound: deliveries of one job beyond the first per dispatch
    Faults      \* the failures that may happen in this instance

FaultKinds == {"worker",      \* a worker process is lost; its job is delivered again
               "sender",      \* a sender invocation is lost
               "connection",  \* the worker loses the answer of a sender that goes on
               "ambiguous",   \* whether a write committed is unknown to its writer
               "deferral",    \* the projection fails in persistence
               "withdrawal",  \* a contributor or a human withdraws
               "duplicate",   \* a job is delivered twice
               "event"}       \* SES events settle quarantined executions

ASSUME FaultsAssumption == Faults \subseteq FaultKinds /\ Spare \in Nat

VARIABLES
    op,         \* per operation: status and row version
    jobs,       \* per operation: deliveries under way
    spare,      \* per operation: further deliveries the transport may still make
    execution,  \* state of the execution row
    windowOver, \* the claim is older than the recovery window, and no fence is live
    case,       \* state of the case
    pc,         \* per worker: next step
    job,        \* per worker: the operation its job names
    loaded,     \* per worker: operation row version it holds
    sender      \* per worker: stage or answer of the sender invocation it started

vars == <<op, jobs, spare, execution, windowOver, case, pc, job, loaded, sender>>

Terminal == {"SUCCEEDED", "FAILED"}
Outcomes == {"SENT", "FAILED", "SEND_UNKNOWN"}
Stages   == {"reading", "claiming", "claimed", "called"}
Answers  == Outcomes \union {"SENDING", "REFUSED", "UNKNOWN", "LOST"}

ASSUME NoneAssumption == None \notin Ops \union Workers \union Stages \union Answers

TypeOK ==
    /\ op \in [Ops -> [status : {"ABSENT", "PENDING", "RUNNING"} \union Terminal, version : Nat]]
    /\ jobs \in [Ops -> Nat]
    /\ spare \in [Ops -> 0..Spare]
    /\ execution \in Outcomes \union {"APPROVED", "SENDING"}
    /\ windowOver \in BOOLEAN
    /\ case \in {"ACTION_PROPOSED", "INVESTIGATING", "ACTIONED"}
    /\ pc \in [Workers -> {"idle", "claim", "resume", "invoke", "await", "project", "repair",
                           "succeed", "fail"}]
    /\ job \in [Workers -> Ops \union {None}]
    /\ loaded \in [Workers -> Nat]
    /\ sender \in [Workers -> Stages \union Answers \union {None}]

Init ==
    /\ op = [o \in Ops |-> [status |-> "ABSENT", version |-> 0]]
    /\ jobs = [o \in Ops |-> 0]
    /\ spare = [o \in Ops |-> Spare]
    /\ execution = "APPROVED"
    /\ windowOver = FALSE
    /\ case = "ACTION_PROPOSED"
    /\ pc = [w \in Workers |-> "idle"]
    /\ job = [w \in Workers |-> None]
    /\ loaded = [w \in Workers |-> 0]
    /\ sender = [w \in Workers |-> None]

Goto(w, step) == pc' = [pc EXCEPT ![w] = step]

-----------------------------------------------------------------------------
(* POST .../executions.  The operation row is durable before the dispatch;  *)
(* the same key presented again dispatches again while it is PENDING.       *)

Reserve(o) ==
    /\ op[o].status = "ABSENT"
    /\ op' = [op EXCEPT ![o] = [status |-> "PENDING", version |-> 1]]
    /\ UNCHANGED <<jobs, spare, execution, windowOver, case, pc, job, loaded, sender>>

Dispatch(o) ==
    /\ op[o].status = "PENDING"
    /\ jobs[o] = 0
    /\ jobs' = [jobs EXCEPT ![o] = 1]
    /\ UNCHANGED <<op, spare, execution, windowOver, case, pc, job, loaded, sender>>

Duplicate(o) ==
    /\ "duplicate" \in Faults
    /\ jobs[o] > 0
    /\ spare[o] > 0
    /\ jobs' = [jobs EXCEPT ![o] = @ + 1]
    /\ spare' = [spare EXCEPT ![o] = @ - 1]
    /\ UNCHANGED <<op, execution, windowOver, case, pc, job, loaded, sender>>

-----------------------------------------------------------------------------
(* The worker body.                                                         *)

Deliver(w, o) ==
    /\ pc[w] = "idle"
    /\ sender[w] = None
    /\ jobs[o] > 0
    /\ jobs' = [jobs EXCEPT ![o] = @ - 1]
    /\ job' = [job EXCEPT ![w] = o]
    /\ loaded' = [loaded EXCEPT ![w] = op[o].version]
    /\ Goto(w, CASE op[o].status \in Terminal  -> "repair"
                 [] op[o].status = "RUNNING"   -> "resume"
                 [] op[o].status = "PENDING"   -> "claim")
    /\ UNCHANGED <<op, spare, execution, windowOver, case, sender>>

(* Broken variant: a transition overwrites whatever the row has become. *)
Holds_Unconditional(w) == TRUE

(* Every operation transition is one write conditional on the version held. *)
Holds(w) == op[job[w]].version = loaded[w]

(* A persistence error is answered like a conflict, and its write may have  *)
(* been made.                                                               *)
Ambiguous == "ambiguous" \in Faults

Transition(w, status) ==
    op' = [op EXCEPT ![job[w]] = [status |-> status, version |-> @.version + 1]]

ClaimOperation(w) ==
    /\ pc[w] = "claim"
    /\ \/ /\ Holds(w)
          /\ Transition(w, "RUNNING")
          /\ \/ Goto(w, "invoke") /\ loaded' = [loaded EXCEPT ![w] = @ + 1]
             \/ Ambiguous /\ Goto(w, "idle") /\ UNCHANGED loaded
       \/ /\ ~Holds(w) \/ Ambiguous
          /\ Goto(w, "idle")
          /\ UNCHANGED <<op, loaded>>
    /\ UNCHANGED <<jobs, spare, execution, windowOver, case, job, sender>>

(* No claim committed: the attempt is unfinished. *)
OnApproved(w) == Goto(w, "invoke")

(* A redelivery lets the execution decide what is owed. *)
Resume(w) ==
    /\ pc[w] = "resume"
    /\ \/ execution = "APPROVED" /\ OnApproved(w) /\ UNCHANGED execution
       \/ execution \in Outcomes /\ Goto(w, "project") /\ UNCHANGED execution
       \/ /\ execution = "SENDING" /\ windowOver
          /\ execution' = "SEND_UNKNOWN"
          /\ Goto(w, "succeed")
       \/ execution = "SENDING" /\ ~windowOver /\ Goto(w, "idle") /\ UNCHANGED execution
    /\ UNCHANGED <<op, jobs, spare, windowOver, case, job, loaded, sender>>

Invoke(w) ==
    /\ pc[w] = "invoke"
    /\ sender' = [sender EXCEPT ![w] = "reading"]
    /\ Goto(w, "await")
    /\ UNCHANGED <<op, jobs, spare, execution, windowOver, case, job, loaded>>

(* Every classified result is a success, SENDING ("in progress") included;  *)
(* an unknown commit leaves the operation RUNNING; anything else fails it.  *)
Following(answer) ==
    CASE answer = "SENT" -> "project"
      [] answer \in {"FAILED", "SEND_UNKNOWN", "SENDING"} -> "succeed"
      [] answer = "UNKNOWN" -> "idle"
      [] answer \in {"REFUSED", "LOST"} -> "fail"

Answer(w) ==
    /\ pc[w] = "await"
    /\ sender[w] \in Answers
    /\ Goto(w, Following(sender[w]))
    /\ sender' = [sender EXCEPT ![w] = None]
    /\ UNCHANGED <<op, jobs, spare, execution, windowOver, case, job, loaded>>

(* The synchronous invocation's connection breaks: a dependency error for   *)
(* the worker, while the sender goes on.  (The read timeout alone does not  *)
(* do this: it is longer than the sender's own.)                            *)
LoseConnection(w) ==
    /\ "connection" \in Faults
    /\ pc[w] = "await"
    /\ sender[w] \in Stages
    /\ Goto(w, "fail")
    /\ UNCHANGED <<op, jobs, spare, execution, windowOver, case, job, loaded, sender>>

ProjectionOwed == execution = "SENT"

(* The case moves on SENT only, is left alone when it has moved, and the    *)
(* projection is refused, or deferred by a persistence failure, otherwise:  *)
(* then the operation stays as it is.  A terminal operation gets the        *)
(* projection and nothing else.                                             *)
Project(w) ==
    /\ pc[w] \in {"project", "repair"}
    /\ \/ /\ \/ ~ProjectionOwed \/ case = "ACTIONED"
             \/ ProjectionOwed /\ case = "ACTION_PROPOSED"
          /\ case' = IF ProjectionOwed THEN "ACTIONED" ELSE case
          /\ Goto(w, IF pc[w] = "repair" THEN "idle" ELSE "succeed")
       \/ /\ \/ ProjectionOwed /\ case = "INVESTIGATING"
             \/ "deferral" \in Faults
          /\ Goto(w, "idle")
          /\ UNCHANGED case
    /\ UNCHANGED <<op, jobs, spare, execution, windowOver, job, loaded, sender>>

(* Succeed or fail, or find the row already moved and leave it. *)
Settle(w) ==
    /\ pc[w] \in {"succeed", "fail"}
    /\ \/ Holds(w) /\ Transition(w, IF pc[w] = "succeed" THEN "SUCCEEDED" ELSE "FAILED")
       \/ (~Holds(w) \/ Ambiguous) /\ UNCHANGED op
    /\ Goto(w, "idle")
    /\ UNCHANGED <<jobs, spare, execution, windowOver, case, job, loaded, sender>>

(* Broken variant: a redelivery is paid for twice. *)
Redelivered_Twice(o) ==
    /\ jobs' = [jobs EXCEPT ![o] = @ + 1]
    /\ spare' = [spare EXCEPT ![o] = @ - 2]

Redelivered(o) ==
    /\ jobs' = [jobs EXCEPT ![o] = @ + 1]
    /\ spare' = [spare EXCEPT ![o] = @ - 1]

(* The process is lost or times out: the transport delivers the job again,  *)
(* as often as it has attempts left.                                        *)
LoseWorker(w) ==
    /\ "worker" \in Faults
    /\ pc[w] # "idle"
    /\ spare[job[w]] > 0
    /\ Redelivered(job[w])
    /\ Goto(w, "idle")
    /\ UNCHANGED <<op, execution, windowOver, case, job, loaded, sender>>

-----------------------------------------------------------------------------
(* The sender, from outside.                                                *)

Reply(w, answer) == sender' = [sender EXCEPT ![w] = answer]

SenderReads(w) ==
    /\ sender[w] = "reading"
    /\ Reply(w, CASE execution = "APPROVED" -> "claiming"
                  [] execution \in {"SENT", "SENDING"} -> execution
                  [] execution \in {"FAILED", "SEND_UNKNOWN"} -> "REFUSED")
    /\ UNCHANGED <<op, jobs, spare, execution, windowOver, case, pc, job, loaded>>

(* The compare-and-swap, or a refusal before it recorded as FAILED, or a    *)
(* conflict.                                                                *)
SenderClaims(w) ==
    /\ sender[w] = "claiming"
    /\ \/ execution = "APPROVED" /\ execution' = "SENDING" /\ Reply(w, "claimed")
       \/ execution = "APPROVED" /\ execution' = "FAILED" /\ Reply(w, "FAILED")
       \/ execution # "APPROVED" /\ UNCHANGED execution /\ Reply(w, "REFUSED")
    /\ UNCHANGED <<op, jobs, spare, windowOver, case, pc, job, loaded>>

(* The compiler grants only while the case is ACTION_PROPOSED. *)
SenderCalls(w) ==
    /\ sender[w] = "claimed"
    /\ case = "ACTION_PROPOSED"
    /\ Reply(w, "called")
    /\ UNCHANGED <<op, jobs, spare, execution, windowOver, case, pc, job, loaded>>

(* The outcome transaction, conditional on the row still being SENDING; its *)
(* own outcome may be unknown.                                              *)
SenderRecords(w) ==
    /\ sender[w] \in {"claimed", "called"}
    /\ \/ /\ execution = "SENDING"
          /\ execution' \in IF sender[w] = "called" THEN Outcomes ELSE {"FAILED"}
          /\ \/ Reply(w, execution')
             \/ "ambiguous" \in Faults /\ Reply(w, "UNKNOWN")
       \/ execution # "SENDING" /\ UNCHANGED execution /\ Reply(w, "REFUSED")
    /\ UNCHANGED <<op, jobs, spare, windowOver, case, pc, job, loaded>>

(* Nobody waits for this answer any more. *)
AnswerDropped(w) ==
    /\ pc[w] # "await"
    /\ sender[w] \in Answers
    /\ Reply(w, None)
    /\ UNCHANGED <<op, jobs, spare, execution, windowOver, case, pc, job, loaded>>

(* The sender is lost at any point before its answer is back. *)
LoseSender(w) ==
    /\ "sender" \in Faults
    /\ sender[w] \in (Stages \union Answers) \ {"LOST"}
    /\ Reply(w, "LOST")
    /\ UNCHANGED <<op, jobs, spare, execution, windowOver, case, pc, job, loaded>>

-----------------------------------------------------------------------------
(* The rest of the system.                                                  *)

WindowCloses ==
    /\ execution = "SENDING"
    /\ ~windowOver
    /\ windowOver' = TRUE
    /\ UNCHANGED <<op, jobs, spare, execution, case, pc, job, loaded, sender>>

(* An authenticated SES event settles a quarantine, and projects nothing. *)
ReconcileFromSesEvent ==
    /\ "event" \in Faults
    /\ execution = "SEND_UNKNOWN"
    /\ execution' \in {"SENT", "FAILED"}
    /\ UNCHANGED <<op, jobs, spare, windowOver, case, pc, job, loaded, sender>>

(* A human clears the approved proposal, or a contributor withdraws.        *)
Withdraw ==
    /\ "withdrawal" \in Faults
    /\ \/ execution = "APPROVED" /\ execution' = "FAILED" /\ UNCHANGED case
       \/ case = "ACTION_PROPOSED" /\ case' = "INVESTIGATING" /\ UNCHANGED execution
    /\ UNCHANGED <<op, jobs, spare, windowOver, pc, job, loaded, sender>>

-----------------------------------------------------------------------------
WorkerStep(w) ==
    \/ ClaimOperation(w) \/ Resume(w) \/ Invoke(w) \/ Answer(w) \/ Project(w) \/ Settle(w)

SenderStep(w) ==
    SenderReads(w) \/ SenderClaims(w) \/ SenderCalls(w) \/ SenderRecords(w) \/ AnswerDropped(w)

Next ==
    \/ \E o \in Ops : Reserve(o) \/ Dispatch(o) \/ Duplicate(o)
    \/ \E w \in Workers, o \in Ops : Deliver(w, o)
    \/ \E w \in Workers : WorkerStep(w) \/ SenderStep(w)
    \/ \E w \in Workers : LoseConnection(w) \/ LoseWorker(w) \/ LoseSender(w)
    \/ WindowCloses
    \/ ReconcileFromSesEvent
    \/ Withdraw

Spec == Init /\ [][Next]_vars

(* Jobs handed over are delivered, and processes that live go on.           *)
Fairness ==
    /\ \A o \in Ops : WF_vars(\E w \in Workers : Deliver(w, o))
    /\ \A w \in Workers : WF_vars(WorkerStep(w)) /\ WF_vars(SenderStep(w))
    /\ WF_vars(WindowCloses)

FairSpec == Spec /\ Fairness

-----------------------------------------------------------------------------
(* Properties.                                                              *)

(* A terminal operation stays what it is, whichever stale worker settles    *)
(* after it (_transition's condition on the version held).                  *)
TerminalIsFinal ==
    [][\A o \in Ops : op[o].status \in Terminal => op'[o].status = op[o].status]_vars

(* However deliveries, workers and operations interleave, the case is       *)
(* actioned only by a message that went out (_project_if_sent).             *)
ActionedOnlyIfSent == case = "ACTIONED" => execution = "SENT"

(* An operation that is finished had a durable outcome or a live claim to   *)
(* report: nothing succeeds beside an execution nobody has tried to send    *)
(* (_run, and the APPROVED branch of _resume).                              *)
SucceededIsNotUntried ==
    \A o \in Ops : op[o].status = "SUCCEEDED" => execution # "APPROVED"

-----------------------------------------------------------------------------
(* Statements of the repository that the code does not keep.                *)

(* 07-action-ses-and-commitments.md:56: "a worker crash cannot lose a sent  *)
(* result".                                                                 *)
SentIsProjected == (execution = "SENT") ~> (case = "ACTIONED")

(* 07-action-ses-and-commitments.md:211: "If a sender process dies while    *)
(* SENDING, reconciliation after the 60-second fence expiry marks it        *)
(* SEND_UNKNOWN".                                                           *)
SendingIsQuarantined == (execution = "SENDING" /\ windowOver) ~> (execution # "SENDING")
=============================================================================
