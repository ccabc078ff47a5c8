------------------------ MODULE SendOperation_proofs ------------------------
(***************************************************************************)
(* Proofs about SendOperation, for any operations, workers, redeliveries   *)
(* and faults.                                                             *)
(***************************************************************************)
EXTENDS SendOperation, TLAPS

(* A job is of an operation that was reserved. *)
Reserved == \A o \in Ops : jobs[o] > 0 => op[o].status # "ABSENT"

(* The version a worker holds is no newer than the row, and as long as it   *)
(* is the row's, the row is in the state the worker left it in.             *)
Owned(w) ==
    pc[w] # "idle" =>
      /\ job[w] \in Ops
      /\ op[job[w]].status # "ABSENT"
      /\ loaded[w] <= op[job[w]].version
      /\ Holds(w) => CASE pc[w] = "claim" -> op[job[w]].status = "PENDING"
                       [] pc[w] = "repair" -> TRUE
                       [] OTHER -> op[job[w]].status = "RUNNING"

(* While the execution is untried no sender has gone past its claim, no     *)
(* answer says otherwise, and no worker has anything to conclude from.      *)
Untried ==
    execution = "APPROVED" =>
      \A w \in Workers : /\ pc[w] \notin {"project", "succeed"}
                         /\ sender[w] \notin {"claimed", "called", "SENDING"} \union Outcomes

IInv ==
    /\ TypeOK
    /\ Reserved
    /\ \A w \in Workers : Owned(w)
    /\ Untried
    /\ ActionedOnlyIfSent
    /\ SucceededIsNotUntried

LEMMA InitOK == ASSUME Init PROVE IInv
<1>1. TypeOK
  <2>1. Spare \in 0 .. Spare
    BY FaultsAssumption
  <2>2. op \in [Ops -> [status : {"ABSENT", "PENDING", "RUNNING"} \union Terminal, version : Nat]]
    BY DEF Init
  <2>3. spare \in [Ops -> 0 .. Spare]
    BY <2>1 DEF Init
  <2> QED BY <2>2, <2>3 DEF Init, TypeOK
<1>2. Reserved /\ \A w \in Workers : Owned(w)
  BY DEF Init, Reserved, Owned
<1>3. Untried
  BY NoneAssumption DEF Init, Untried, Stages, Answers, Outcomes
<1> QED BY <1>1, <1>2, <1>3 DEF Init, IInv, ActionedOnlyIfSent, SucceededIsNotUntried

-----------------------------------------------------------------------------
(* Steps that write no operation row.                                       *)

(* What a worker owns depends on its own fields and the rows alone. *)
LEMMA OwnedKept ==
    ASSUME NEW w, Owned(w), UNCHANGED <<op, pc[w], job[w], loaded[w]>>
    PROVE  Owned(w)'
BY DEF Owned, Holds

LEMMA DispatchOK ==
    ASSUME IInv, NEW o \in Ops, Dispatch(o) \/ Duplicate(o)
    PROVE  IInv'
<1>1. jobs' \in [Ops -> Nat] /\ spare' \in [Ops -> 0 .. Spare] /\ Reserved'
  <2>1. CASE Dispatch(o)
    BY <2>1 DEF IInv, TypeOK, Dispatch, Reserved
  <2>2. CASE Duplicate(o)
    <3>1. spare[o] - 1 \in 0 .. Spare /\ jobs[o] + 1 \in Nat
      BY <2>2, FaultsAssumption DEF IInv, TypeOK, Duplicate
    <3> QED BY <2>2, <3>1 DEF IInv, TypeOK, Duplicate, Reserved
  <2> QED BY <2>1, <2>2
<1>2. UNCHANGED <<op, execution, windowOver, case, pc, job, loaded, sender>>
  BY DEF Dispatch, Duplicate
<1> QED BY <1>1, <1>2 DEF IInv, TypeOK, Owned, Holds, Untried, ActionedOnlyIfSent,
                          SucceededIsNotUntried

LEMMA DeliverOK ==
    ASSUME IInv, NEW w \in Workers, NEW o \in Ops, Deliver(w, o)
    PROVE  IInv'
<1>1. op[o].status \in {"PENDING", "RUNNING"} \union Terminal /\ op[o].version \in Nat
  BY DEF IInv, TypeOK, Reserved, Deliver
<1>2. PICK s \in {"claim", "resume", "repair"} :
        /\ pc' = [pc EXCEPT ![w] = s]
        /\ s = "claim" => op[o].status = "PENDING"
        /\ s = "resume" => op[o].status = "RUNNING"
  BY <1>1 DEF Deliver, Goto, Terminal
<1>3. /\ job' = [job EXCEPT ![w] = o] /\ loaded' = [loaded EXCEPT ![w] = op[o].version]
      /\ jobs' = [jobs EXCEPT ![o] = @ - 1] /\ jobs[o] > 0
      /\ UNCHANGED <<op, spare, execution, windowOver, case, sender>>
  BY DEF Deliver
<1>4. TypeOK' /\ Reserved'
  BY <1>1, <1>2, <1>3 DEF IInv, TypeOK, Reserved
<1>5. ASSUME NEW v \in Workers PROVE Owned(v)'
  <2>1. CASE v = w
    BY <1>1, <1>2, <1>3, <2>1 DEF IInv, TypeOK, Owned, Holds, Terminal
  <2>2. CASE v # w
    BY <1>2, <1>3, <2>2, OwnedKept DEF IInv, TypeOK
  <2> QED BY <2>1, <2>2
<1>6. Untried'
  BY <1>2, <1>3 DEF IInv, TypeOK, Untried
<1> QED BY <1>3, <1>4, <1>5, <1>6 DEF IInv, ActionedOnlyIfSent, SucceededIsNotUntried

(* A step of a worker that keeps its operation, and concludes nothing from  *)
(* an untried execution.                                                    *)
LEMMA WorkerMoves ==
    ASSUME IInv, NEW w \in Workers, pc[w] # "idle",
           NEW s \in {"idle", "invoke", "await", "project", "succeed", "fail"},
           pc' = [pc EXCEPT ![w] = s],
           pc[w] \in {"claim", "repair"} => s = "idle",
           s \in {"project", "succeed"} => execution # "APPROVED",
           UNCHANGED <<op, windowOver, job, loaded>>,
           jobs' \in [Ops -> Nat], spare' \in [Ops -> 0 .. Spare], Reserved',
           case' \in {"ACTION_PROPOSED", "INVESTIGATING", "ACTIONED"},
           case' = "ACTIONED" => execution' = "SENT",
           \/ UNCHANGED execution
           \/ execution = "SENDING" /\ execution' = "SEND_UNKNOWN",
           \E a \in {"reading", None, sender[w]} : sender' = [sender EXCEPT ![w] = a]
    PROVE  IInv'
<1>1. PICK a \in {"reading", None, sender[w]} : sender' = [sender EXCEPT ![w] = a]
  OBVIOUS
<1>2. TypeOK'
  BY <1>1 DEF IInv, TypeOK, Outcomes, Stages
<1>3. ASSUME NEW v \in Workers PROVE Owned(v)'
  <2>1. CASE v = w
    BY <2>1 DEF IInv, TypeOK, Owned, Holds
  <2>2. CASE v # w
    BY <2>2, OwnedKept DEF IInv, TypeOK
  <2> QED BY <2>1, <2>2
<1>4. Untried'
  <2>1. execution' = "APPROVED" => execution = "APPROVED"
    OBVIOUS
  <2>2. a \in {"reading", None} => a \notin {"claimed", "called", "SENDING"} \union Outcomes
    BY NoneAssumption DEF Outcomes, Stages, Answers
  <2> QED BY <1>1, <2>1, <2>2 DEF IInv, TypeOK, Untried
<1>5. ActionedOnlyIfSent' /\ SucceededIsNotUntried'
  BY DEF IInv, ActionedOnlyIfSent, SucceededIsNotUntried
<1> QED BY <1>2, <1>3, <1>4, <1>5 DEF IInv

LEMMA ResumeOK ==
    ASSUME IInv, NEW w \in Workers, Resume(w)
    PROVE  IInv'
<1>1. PICK s \in {"invoke", "project", "succeed", "idle"} :
        /\ pc' = [pc EXCEPT ![w] = s]
        /\ s \in {"project", "succeed"} => execution # "APPROVED"
        /\ UNCHANGED execution \/ (execution = "SENDING" /\ execution' = "SEND_UNKNOWN")
  BY DEF Resume, OnApproved, Goto, Outcomes
<1>2. pc[w] = "resume" /\ UNCHANGED <<op, jobs, spare, windowOver, case, job, loaded, sender>>
  BY DEF Resume
<1>3. sender' = [sender EXCEPT ![w] = sender[w]]
  BY <1>2 DEF IInv, TypeOK
<1>4. case' = "ACTIONED" => execution' = "SENT"
  BY <1>1, <1>2 DEF IInv, ActionedOnlyIfSent
<1>5. Reserved'
  BY <1>2 DEF IInv, Reserved
<1> QED BY <1>1, <1>2, <1>3, <1>4, <1>5, WorkerMoves DEF IInv, TypeOK

LEMMA InvokeOK ==
    ASSUME IInv, NEW w \in Workers, Invoke(w)
    PROVE  IInv'
<1>1. /\ pc[w] = "invoke" /\ pc' = [pc EXCEPT ![w] = "await"]
      /\ sender' = [sender EXCEPT ![w] = "reading"]
      /\ UNCHANGED <<op, jobs, spare, execution, windowOver, case, job, loaded>>
  BY DEF Invoke, Goto
<1>2. Reserved' /\ (case' = "ACTIONED" => execution' = "SENT")
  BY <1>1 DEF IInv, Reserved, ActionedOnlyIfSent
<1> QED BY <1>1, <1>2, WorkerMoves DEF IInv, TypeOK

LEMMA AnswerOK ==
    ASSUME IInv, NEW w \in Workers, Answer(w)
    PROVE  IInv'
<1>1. /\ pc[w] = "await" /\ sender[w] \in Answers
      /\ pc' = [pc EXCEPT ![w] = Following(sender[w])]
      /\ sender' = [sender EXCEPT ![w] = None]
      /\ UNCHANGED <<op, jobs, spare, execution, windowOver, case, job, loaded>>
  BY DEF Answer, Goto
<1>2. /\ Following(sender[w]) \in {"project", "succeed", "idle", "fail"}
      /\ Following(sender[w]) \in {"project", "succeed"}
           => sender[w] \in Outcomes \union {"SENDING"}
  BY <1>1 DEF Following, Answers, Outcomes
<1>3. Following(sender[w]) \in {"project", "succeed"} => execution # "APPROVED"
  BY <1>2 DEF IInv, Untried
<1>4. Reserved' /\ (case' = "ACTIONED" => execution' = "SENT")
  BY <1>1 DEF IInv, Reserved, ActionedOnlyIfSent
<1> HIDE DEF Following
<1> QED BY <1>1, <1>2, <1>3, <1>4, WorkerMoves DEF IInv, TypeOK

LEMMA ProjectOK ==
    ASSUME IInv, NEW w \in Workers, Project(w)
    PROVE  IInv'
<1>1. PICK s \in {"idle", "succeed"} :
        /\ pc' = [pc EXCEPT ![w] = s]
        /\ pc[w] = "repair" => s = "idle"
        /\ s = "succeed" => pc[w] = "project"
        /\ case' = case \/ (execution = "SENT" /\ case' = "ACTIONED")
  BY DEF Project, Goto, ProjectionOwed
<1>2. /\ pc[w] \in {"project", "repair"}
      /\ UNCHANGED <<op, jobs, spare, execution, windowOver, job, loaded, sender>>
  BY DEF Project
<1>3. sender' = [sender EXCEPT ![w] = sender[w]]
  BY <1>2 DEF IInv, TypeOK
<1>4. case' = "ACTIONED" => execution' = "SENT"
  BY <1>1, <1>2 DEF IInv, ActionedOnlyIfSent
<1>5. s = "succeed" => execution # "APPROVED"
  BY <1>1 DEF IInv, Untried
<1>6. Reserved' /\ case' \in {"ACTION_PROPOSED", "INVESTIGATING", "ACTIONED"}
  BY <1>1, <1>2 DEF IInv, TypeOK, Reserved
<1> QED BY <1>1, <1>2, <1>3, <1>4, <1>5, <1>6, WorkerMoves DEF IInv, TypeOK

LEMMA LoseConnectionOK ==
    ASSUME IInv, NEW w \in Workers, LoseConnection(w)
    PROVE  IInv'
<1>1. /\ pc[w] = "await" /\ pc' = [pc EXCEPT ![w] = "fail"]
      /\ UNCHANGED <<op, jobs, spare, execution, windowOver, case, job, loaded, sender>>
  BY DEF LoseConnection, Goto
<1>2. sender' = [sender EXCEPT ![w] = sender[w]]
  BY <1>1 DEF IInv, TypeOK
<1>3. Reserved' /\ (case' = "ACTIONED" => execution' = "SENT")
  BY <1>1 DEF IInv, Reserved, ActionedOnlyIfSent
<1> QED BY <1>1, <1>2, <1>3, WorkerMoves DEF IInv, TypeOK

LEMMA LoseWorkerOK ==
    ASSUME IInv, NEW w \in Workers, LoseWorker(w)
    PROVE  IInv'
<1>1. /\ pc[w] # "idle" /\ pc' = [pc EXCEPT ![w] = "idle"] /\ spare[job[w]] > 0
      /\ jobs' = [jobs EXCEPT ![job[w]] = @ + 1] /\ spare' = [spare EXCEPT ![job[w]] = @ - 1]
      /\ UNCHANGED <<op, execution, windowOver, case, job, loaded, sender>>
  BY DEF LoseWorker, Redelivered, Goto
<1>2. job[w] \in Ops /\ op[job[w]].status # "ABSENT"
  BY <1>1 DEF IInv, Owned
<1>3. jobs[job[w]] + 1 \in Nat /\ spare[job[w]] - 1 \in 0 .. Spare
  BY <1>1, <1>2, FaultsAssumption DEF IInv, TypeOK
<1>4. jobs' \in [Ops -> Nat] /\ spare' \in [Ops -> 0 .. Spare] /\ Reserved'
  BY <1>1, <1>2, <1>3 DEF IInv, TypeOK, Reserved
<1>5. sender' = [sender EXCEPT ![w] = sender[w]]
  BY <1>1 DEF IInv, TypeOK
<1>6. case' = "ACTIONED" => execution' = "SENT"
  BY <1>1 DEF IInv, ActionedOnlyIfSent
<1> QED BY <1>1, <1>4, <1>5, <1>6, WorkerMoves DEF IInv, TypeOK

-----------------------------------------------------------------------------
(* Steps that write an operation row: whoever else holds the row has an     *)
(* older version of it from then on.                                        *)

LEMMA ReserveOK ==
    ASSUME IInv, NEW o \in Ops, Reserve(o)
    PROVE  IInv'
<1>1. /\ op[o].status = "ABSENT" /\ op' = [op EXCEPT ![o] = [status |-> "PENDING", version |-> 1]]
      /\ UNCHANGED <<jobs, spare, execution, windowOver, case, pc, job, loaded, sender>>
  BY DEF Reserve
<1>2. TypeOK' /\ Reserved'
  BY <1>1 DEF IInv, TypeOK, Reserved
<1>3. ASSUME NEW v \in Workers PROVE Owned(v)'
  BY <1>1 DEF IInv, TypeOK, Owned, Holds
<1>4. Untried' /\ ActionedOnlyIfSent'
  BY <1>1 DEF IInv, Untried, ActionedOnlyIfSent
<1>5. SucceededIsNotUntried'
  BY <1>1 DEF IInv, TypeOK, SucceededIsNotUntried
<1> QED BY <1>2, <1>3, <1>4, <1>5 DEF IInv

LEMMA RowWritten ==
    ASSUME IInv, NEW w \in Workers, pc[w] # "idle", Holds(w),
           NEW st \in {"RUNNING"} \union Terminal, NEW s \in {"idle", "invoke"},
           op' = [op EXCEPT ![job[w]] = [status |-> st, version |-> @.version + 1]],
           pc' = [pc EXCEPT ![w] = s],
           \/ s = "idle" /\ UNCHANGED loaded
           \/ s = "invoke" /\ st = "RUNNING" /\ loaded' = [loaded EXCEPT ![w] = @ + 1],
           st = "SUCCEEDED" => execution # "APPROVED",
           UNCHANGED <<jobs, spare, execution, windowOver, case, job, sender>>
    PROVE  IInv'
<1>1. /\ job[w] \in Ops /\ op[job[w]].status # "ABSENT" /\ op[job[w]].version \in Nat
      /\ loaded[w] = op[job[w]].version
  BY DEF IInv, TypeOK, Owned, Holds
<1>2. op[job[w]].version + 1 \in Nat /\ loaded[w] + 1 \in Nat
  BY <1>1
<1>3. op' \in [Ops -> [status : {"ABSENT", "PENDING", "RUNNING"} \union Terminal, version : Nat]]
  BY <1>1, <1>2 DEF IInv, TypeOK
<1>4. TypeOK'
  BY <1>2, <1>3 DEF IInv, TypeOK
<1>5. Reserved'
  BY <1>1 DEF IInv, TypeOK, Reserved, Terminal
<1>6. ASSUME NEW v \in Workers PROVE Owned(v)'
  <2>1. CASE v = w
    BY <1>1, <1>2, <2>1 DEF IInv, TypeOK, Owned, Holds, Terminal
  <2>2. CASE v # w /\ job[v] = job[w]
    <3>1. pc'[v] = pc[v] /\ job'[v] = job[v] /\ loaded'[v] = loaded[v] /\ loaded[v] \in Nat
      BY <2>2 DEF IInv, TypeOK
    <3>2. op'[job[w]].status = st /\ op'[job[w]].version = op[job[w]].version + 1
      BY <1>1 DEF IInv, TypeOK
    <3>3. pc[v] # "idle" => loaded[v] <= op[job[w]].version
      BY <2>2 DEF IInv, Owned
    <3> QED BY <1>1, <2>2, <3>1, <3>2, <3>3 DEF Owned, Holds, Terminal
  <2>3. CASE v # w /\ job[v] # job[w]
    <3>1. pc'[v] = pc[v] /\ job'[v] = job[v] /\ loaded'[v] = loaded[v]
      BY <2>3 DEF IInv, TypeOK
    <3>2. job[v] \in Ops => op'[job[v]] = op[job[v]]
      BY <2>3 DEF IInv, TypeOK
    <3> QED BY <3>1, <3>2 DEF IInv, Owned, Holds
  <2> QED BY <2>1, <2>2, <2>3
<1>7. Untried' /\ ActionedOnlyIfSent'
  BY DEF IInv, TypeOK, Untried, ActionedOnlyIfSent
<1>8. SucceededIsNotUntried'
  BY <1>1 DEF IInv, TypeOK, SucceededIsNotUntried
<1> QED BY <1>4, <1>5, <1>6, <1>7, <1>8 DEF IInv

(* A worker that stops without having written its row. *)
LEMMA Stops ==
    ASSUME IInv, NEW w \in Workers, pc[w] # "idle", pc' = [pc EXCEPT ![w] = "idle"],
           UNCHANGED <<op, jobs, spare, execution, windowOver, case, job, loaded, sender>>
    PROVE  IInv'
<1>1. sender' = [sender EXCEPT ![w] = sender[w]]
  BY DEF IInv, TypeOK
<1>2. Reserved' /\ (case' = "ACTIONED" => execution' = "SENT")
  BY DEF IInv, Reserved, ActionedOnlyIfSent
<1> QED BY <1>1, <1>2, WorkerMoves DEF IInv, TypeOK

LEMMA ClaimOperationOK ==
    ASSUME IInv, NEW w \in Workers, ClaimOperation(w)
    PROVE  IInv'
<1>1. /\ pc[w] = "claim"
      /\ UNCHANGED <<jobs, spare, execution, windowOver, case, job, sender>>
  BY DEF ClaimOperation
<1>2. CASE Holds(w) /\ Transition(w, "RUNNING")
  <2>1. PICK s \in {"idle", "invoke"} :
          /\ pc' = [pc EXCEPT ![w] = s]
          /\ \/ s = "idle" /\ UNCHANGED loaded
             \/ s = "invoke" /\ loaded' = [loaded EXCEPT ![w] = @ + 1]
    BY <1>1, <1>2 DEF ClaimOperation, Goto
  <2>2. op' = [op EXCEPT ![job[w]] = [status |-> "RUNNING", version |-> @.version + 1]]
    BY <1>2 DEF Transition
  <2>3. "RUNNING" \in {"RUNNING"} \union Terminal /\ pc[w] # "idle" /\ Holds(w)
    BY <1>1, <1>2
  <2> QED BY <1>1, <2>1, <2>2, <2>3, RowWritten
<1>3. CASE Goto(w, "idle") /\ UNCHANGED <<op, loaded>>
  BY <1>1, <1>3, Stops DEF Goto
<1> QED BY <1>2, <1>3 DEF ClaimOperation

LEMMA SettleOK ==
    ASSUME IInv, NEW w \in Workers, Settle(w)
    PROVE  IInv'
<1>1. /\ pc[w] \in {"succeed", "fail"} /\ pc' = [pc EXCEPT ![w] = "idle"]
      /\ UNCHANGED <<jobs, spare, execution, windowOver, case, job, loaded, sender>>
  BY DEF Settle, Goto
<1>2. CASE Holds(w) /\ Transition(w, IF pc[w] = "succeed" THEN "SUCCEEDED" ELSE "FAILED")
  <2>1. pc[w] = "succeed" => execution # "APPROVED"
    BY DEF IInv, Untried
  <2> QED BY <1>1, <1>2, <2>1, RowWritten DEF Transition, Terminal
<1>3. CASE UNCHANGED op
  BY <1>1, <1>3, Stops
<1> QED BY <1>2, <1>3 DEF Settle

-----------------------------------------------------------------------------
(* Steps of the senders and of the rest of the system.                      *)

(* A change of the execution, the case and the senders' stages: it takes    *)
(* the execution further than APPROVED, or no sender further than a claim.  *)
LEMMA OutsideMoves ==
    ASSUME IInv,
           execution' \in Outcomes \union {"APPROVED", "SENDING"},
           windowOver' \in BOOLEAN,
           case' \in {"ACTION_PROPOSED", "INVESTIGATING", "ACTIONED"},
           sender' \in [Workers -> Stages \union Answers \union {None}],
           execution' = "APPROVED" =>
             /\ execution = "APPROVED"
             /\ \A v \in Workers :
                  sender'[v] \notin {"claimed", "called", "SENDING"} \union Outcomes,
           case' = "ACTIONED" => execution' = "SENT",
           UNCHANGED <<op, jobs, spare, pc, job, loaded>>
    PROVE  IInv'
<1>1. TypeOK' /\ Reserved'
  BY DEF IInv, TypeOK, Reserved
<1>2. ASSUME NEW v \in Workers PROVE Owned(v)'
  BY OwnedKept DEF IInv
<1>3. Untried' /\ ActionedOnlyIfSent' /\ SucceededIsNotUntried'
  BY DEF IInv, Untried, ActionedOnlyIfSent, SucceededIsNotUntried
<1> QED BY <1>1, <1>2, <1>3 DEF IInv

LEMMA SenderMoves ==
    ASSUME IInv, NEW w \in Workers, NEW a \in Stages \union Answers \union {None},
           sender' = [sender EXCEPT ![w] = a],
           execution' \in Outcomes \union {"APPROVED", "SENDING"},
           execution' = "APPROVED" =>
             execution = "APPROVED" /\ a \notin {"claimed", "called", "SENDING"} \union Outcomes,
           execution = "SENT" => execution' = "SENT",
           UNCHANGED <<op, jobs, spare, windowOver, case, pc, job, loaded>>
    PROVE  IInv'
<1>1. sender' \in [Workers -> Stages \union Answers \union {None}]
  BY DEF IInv, TypeOK
<1>2. execution' = "APPROVED" =>
        \A v \in Workers : sender'[v] \notin {"claimed", "called", "SENDING"} \union Outcomes
  BY DEF IInv, TypeOK, Untried
<1>3. case' = "ACTIONED" => execution' = "SENT"
  BY DEF IInv, ActionedOnlyIfSent
<1> QED BY <1>1, <1>2, <1>3, OutsideMoves DEF IInv, TypeOK

LEMMA SenderReadsOK ==
    ASSUME IInv, NEW w \in Workers, SenderReads(w)
    PROVE  IInv'
<1>1. PICK a \in {"claiming", "SENT", "SENDING", "REFUSED"} :
        /\ sender' = [sender EXCEPT ![w] = a]
        /\ execution = "APPROVED" => a = "claiming"
  BY DEF SenderReads, Reply, IInv, TypeOK, Outcomes
<1>2. a \in Stages \union Answers /\ (a = "claiming" => a \notin Outcomes)
  BY DEF Stages, Answers, Outcomes
<1>3. UNCHANGED <<op, jobs, spare, execution, windowOver, case, pc, job, loaded>>
  BY DEF SenderReads
<1> QED BY <1>1, <1>2, <1>3, SenderMoves DEF IInv, TypeOK

LEMMA SenderClaimsOK ==
    ASSUME IInv, NEW w \in Workers, SenderClaims(w)
    PROVE  IInv'
<1>1. PICK a \in {"claimed", "FAILED", "REFUSED"} :
        /\ sender' = [sender EXCEPT ![w] = a]
        /\ \/ execution = "APPROVED" /\ execution' \in {"SENDING", "FAILED"}
           \/ execution # "APPROVED" /\ execution' = execution
  BY DEF SenderClaims, Reply
<1>2. a \in Stages \union Answers /\ execution' \in Outcomes \union {"APPROVED", "SENDING"}
  BY <1>1 DEF IInv, TypeOK, Stages, Answers, Outcomes
<1>3. UNCHANGED <<op, jobs, spare, windowOver, case, pc, job, loaded>>
  BY DEF SenderClaims
<1> QED BY <1>1, <1>2, <1>3, SenderMoves

LEMMA SenderCallsOK ==
    ASSUME IInv, NEW w \in Workers, SenderCalls(w)
    PROVE  IInv'
<1>1. /\ sender[w] = "claimed" /\ sender' = [sender EXCEPT ![w] = "called"]
      /\ UNCHANGED <<op, jobs, spare, execution, windowOver, case, pc, job, loaded>>
  BY DEF SenderCalls, Reply
<1>2. execution # "APPROVED"
  BY <1>1 DEF IInv, Untried
<1>3. "called" \in Stages
  BY DEF Stages
<1> QED BY <1>1, <1>2, <1>3, SenderMoves DEF IInv, TypeOK

LEMMA SenderRecordsOK ==
    ASSUME IInv, NEW w \in Workers, SenderRecords(w)
    PROVE  IInv'
<1>1. UNCHANGED <<op, jobs, spare, windowOver, case, pc, job, loaded>>
  BY DEF SenderRecords
<1>2. PICK a \in Outcomes \union {"UNKNOWN", "REFUSED"} : sender' = [sender EXCEPT ![w] = a]
  BY DEF SenderRecords, Reply, Outcomes
<1>3. \/ execution = "SENDING" /\ execution' \in Outcomes
      \/ execution # "SENDING" /\ execution' = execution
  BY DEF SenderRecords, Outcomes
<1>4. execution # "APPROVED"
  BY DEF SenderRecords, IInv, Untried
<1>5. a \in Answers /\ execution' \in Outcomes \union {"APPROVED", "SENDING"}
  BY <1>3 DEF IInv, TypeOK, Answers
<1>6. execution' # "APPROVED" /\ (execution = "SENT" => execution' = "SENT")
  BY <1>3, <1>4 DEF Outcomes
<1> QED BY <1>1, <1>2, <1>5, <1>6, SenderMoves

(* An answer that is dropped, or lost with its sender. *)
LEMMA AnswerGone ==
    ASSUME IInv, NEW w \in Workers, AnswerDropped(w) \/ LoseSender(w)
    PROVE  IInv'
<1>1. PICK a \in {None, "LOST"} : sender' = [sender EXCEPT ![w] = a]
  BY DEF AnswerDropped, LoseSender, Reply
<1>2. /\ a \in Stages \union Answers \union {None}
      /\ a \notin {"claimed", "called", "SENDING"} \union Outcomes
  BY NoneAssumption DEF Stages, Answers, Outcomes
<1>3. UNCHANGED <<op, jobs, spare, execution, windowOver, case, pc, job, loaded>>
  BY DEF AnswerDropped, LoseSender
<1> QED BY <1>1, <1>2, <1>3, SenderMoves DEF IInv, TypeOK

LEMMA SystemOK ==
    ASSUME IInv, WindowCloses \/ ReconcileFromSesEvent \/ Withdraw
    PROVE  IInv'
<1>1. UNCHANGED <<op, jobs, spare, pc, job, loaded, sender>>
  BY DEF WindowCloses, ReconcileFromSesEvent, Withdraw
<1>2. /\ execution' \in Outcomes \union {"APPROVED", "SENDING"}
      /\ windowOver' \in BOOLEAN
      /\ case' \in {"ACTION_PROPOSED", "INVESTIGATING", "ACTIONED"}
  BY DEF IInv, TypeOK, Outcomes, WindowCloses, ReconcileFromSesEvent, Withdraw
<1>3. execution' = "APPROVED" => execution = "APPROVED"
  BY DEF WindowCloses, ReconcileFromSesEvent, Withdraw
<1>4. case' = "ACTIONED" => execution' = "SENT"
  BY DEF IInv, ActionedOnlyIfSent, WindowCloses, ReconcileFromSesEvent, Withdraw
<1>5. sender' \in [Workers -> Stages \union Answers \union {None}]
  BY <1>1 DEF IInv, TypeOK
<1>6. execution' = "APPROVED" =>
        \A v \in Workers : sender'[v] \notin {"claimed", "called", "SENDING"} \union Outcomes
  BY <1>1, <1>3 DEF IInv, Untried
<1> QED BY <1>1, <1>2, <1>3, <1>4, <1>5, <1>6, OutsideMoves

LEMMA StutterOK ==
    ASSUME IInv, UNCHANGED vars
    PROVE  IInv'
BY DEF vars, IInv, TypeOK, Reserved, Owned, Holds, Untried, ActionedOnlyIfSent,
       SucceededIsNotUntried

LEMMA NextOK ==
    ASSUME IInv, [Next]_vars
    PROVE  IInv'
<1>1. ASSUME NEW o \in Ops, Reserve(o) \/ Dispatch(o) \/ Duplicate(o)
      PROVE  IInv'
  BY <1>1, ReserveOK, DispatchOK
<1>2. ASSUME NEW w \in Workers, NEW o \in Ops, Deliver(w, o)
      PROVE  IInv'
  BY <1>2, DeliverOK
<1>3. ASSUME NEW w \in Workers, WorkerStep(w)
      PROVE  IInv'
  BY <1>3, ClaimOperationOK, ResumeOK, InvokeOK, AnswerOK, ProjectOK, SettleOK DEF WorkerStep
<1>4. ASSUME NEW w \in Workers, SenderStep(w) \/ LoseSender(w)
      PROVE  IInv'
  BY <1>4, SenderReadsOK, SenderClaimsOK, SenderCallsOK, SenderRecordsOK, AnswerGone
  DEF SenderStep
<1>5. ASSUME NEW w \in Workers, LoseConnection(w) \/ LoseWorker(w)
      PROVE  IInv'
  BY <1>5, LoseConnectionOK, LoseWorkerOK
<1>6. CASE WindowCloses \/ ReconcileFromSesEvent \/ Withdraw
  BY <1>6, SystemOK
<1>7. CASE UNCHANGED vars
  BY <1>7, StutterOK
<1> QED BY <1>1, <1>2, <1>3, <1>4, <1>5, <1>6, <1>7 DEF Next

-----------------------------------------------------------------------------
(* The theorems.                                                            *)

(* Whatever a worker holds is no newer than the row, an execution nobody    *)
(* claimed leaves nothing to conclude, and the properties below follow: for *)
(* any keys presented, workers, redeliveries and failures.                  *)
THEOREM Inductive == Spec => []IInv
<1>1. Init => IInv
  BY InitOK
<1>2. IInv /\ [Next]_vars => IInv'
  BY NextOK
<1> QED BY <1>1, <1>2, PTL DEF Spec

(* Rows, jobs, workers and senders keep their types. *)
THEOREM TypeCorrect == Spec => []TypeOK
<1>1. IInv => TypeOK
  BY DEF IInv
<1> QED BY <1>1, Inductive, PTL

(* The case is actioned only by a message that went out (_project_if_sent). *)
THEOREM Actioned == Spec => []ActionedOnlyIfSent
<1>1. IInv => ActionedOnlyIfSent
  BY DEF IInv
<1> QED BY <1>1, Inductive, PTL

(* No operation is successful beside an execution nobody has tried to send  *)
(* (SendActionOperation._run, and the APPROVED branch of _resume).          *)
THEOREM Concluded == Spec => []SucceededIsNotUntried
<1>1. IInv => SucceededIsNotUntried
  BY DEF IInv
<1> QED BY <1>1, Inductive, PTL

(* A terminal operation stays what it is, whichever stale worker settles    *)
(* after it (_transition's condition on the version held).                  *)
THEOREM TerminalFinal == Spec => TerminalIsFinal
<1>1. ASSUME IInv, [Next]_vars, NEW o \in Ops, op[o].status \in Terminal
      PROVE  op'[o].status = op[o].status
  <2>1. ASSUME NEW w \in Workers, pc[w] \in {"claim", "succeed", "fail"}, Holds(w)
        PROVE  job[w] # o
    BY <1>1, <2>1 DEF IInv, Owned, Terminal
  <2>2. ASSUME NEW w \in Workers, ClaimOperation(w) \/ Settle(w)
        PROVE  op'[o] = op[o]
    BY <1>1, <2>1, <2>2 DEF ClaimOperation, Settle, Transition, IInv, TypeOK
  <2>3. ASSUME NEW r \in Ops, Reserve(r)
        PROVE  op'[o] = op[o]
    BY <1>1, <2>3 DEF Reserve, IInv, TypeOK, Terminal
  <2>4. ASSUME NEW w \in Workers, WorkerStep(w)
        PROVE  op'[o] = op[o]
    BY <2>2, <2>4 DEF WorkerStep, Resume, Invoke, Answer, Project
  <2>5. ASSUME NEW w \in Workers, SenderStep(w) \/ LoseConnection(w) \/ LoseWorker(w) \/ LoseSender(w)
        PROVE  op' = op
    BY <2>5 DEF SenderStep, SenderReads, SenderClaims, SenderCalls, SenderRecords, AnswerDropped,
                LoseConnection, LoseWorker, LoseSender
  <2>6. ASSUME NEW r \in Ops, Dispatch(r) \/ Duplicate(r) \/ \E w \in Workers : Deliver(w, r)
        PROVE  op' = op
    BY <2>6 DEF Dispatch, Duplicate, Deliver
  <2>7. WindowCloses \/ ReconcileFromSesEvent \/ Withdraw \/ UNCHANGED vars => op' = op
    BY DEF WindowCloses, ReconcileFromSesEvent, Withdraw, vars
  <2> QED BY <1>1, <2>3, <2>4, <2>5, <2>6, <2>7 DEF Next
<1>2. IInv /\ [Next]_vars =>
        [\A o \in Ops : op[o].status \in Terminal => op'[o].status = op[o].status]_vars
  BY <1>1
<1> QED BY <1>2, Inductive, PTL DEF Spec, TerminalIsFinal
=============================================================================
